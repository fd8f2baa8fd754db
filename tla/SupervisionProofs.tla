-------------------------- MODULE SupervisionProofs --------------------------
(***************************************************************************)
(* Proofs about Supervision.tla for any number of bridges, installations,  *)
(* pids, failing steps, deaths and cooldowns.                              *)
(***************************************************************************)
EXTENDS SupervisionProperties, TLAPS

\* Before the selection is rechecked nothing is to be done yet.
TypeInv == TypeOK /\ (upc \in {"status", "plan"} => todo = {})

-----------------------------------------------------------------------------
(* Types *)

\* A step keeps the types of the variables it leaves alone.
LEMMA FrameTypes ==
  ASSUME TypeOK
  PROVE  /\ UNCHANGED codeVars => CodeTypes'
         /\ UNCHANGED procVars => ProcessTypes'
         /\ UNCHANGED noticeVars => NoticeTypes'
         /\ UNCHANGED <<updateVars, budgetVars>> => UpdateTypes'
BY DEF TypeOK, CodeTypes, ProcessTypes, NoticeTypes, UpdateTypes, codeVars, procVars, noticeVars,
       updateVars, budgetVars

LEMMA FaultTypes == TypeOK /\ Fault => faults' \in Nat /\ deaths' \in Nat
BY SupervisionAssumption DEF TypeOK, UpdateTypes, Fault

\* The locks a process drops are locks again.
LEMMA DroppedTypes ==
  ASSUME NEW f \in [Bridges -> Pids \cup {None}], NEW p
  PROVE  Dropped(f, p) \in [Bridges -> Pids \cup {None}]
BY DEF Dropped

LEMMA EndsTypes ==
  ASSUME TypeOK, NEW p, Ends(p)
  PROVE  ProcessTypes' /\ NoticeTypes'
<1>1. lock' \in [Bridges -> Pids \cup {None}] /\ notifier' \in [Bridges -> Pids \cup {None}]
  BY DroppedTypes DEF Ends, TypeOK, ProcessTypes, NoticeTypes
<1>2. state' \in [Pids -> {"free", "boot", "notice", "send", "up", "stopping", "gone"}]
  BY DEF Ends, TypeOK, ProcessTypes
<1>3. QED
  BY <1>1, <1>2 DEF Ends, TypeOK, ProcessTypes, NoticeTypes

LEMMA StartTypes ==
  ASSUME TypeOK, NEW p \in Pids, NEW b \in Bridges, NEW c \in {"old", "new"}, Start(p, b, c)
  PROVE  /\ state' \in [Pids -> {"free", "boot", "notice", "send", "up", "stopping", "gone"}]
         /\ of' \in [Pids -> Bridges] /\ code' \in [Pids -> {"old", "new"}]
BY DEF Start, TypeOK, ProcessTypes

LEMMA InstalledType == TypeOK => Installed \in {"old", "new"}
BY DEF Installed, TypeOK, CodeTypes

LEMMA PostTypes == LastPost \in Nat /\ LastFormatted + 1 \in 0 .. LastPost /\ 0 \in 0 .. LastPost
BY SupervisionAssumption DEF LastPost, LastFormatted

LEMMA SendTypes ==
  ASSUME TypeOK, NEW p \in Pids, SendNotice(p)
  PROVE  ProcessTypes' /\ NoticeTypes'
<1>1. of[p] \in Bridges /\ of' = of /\ fresh' = fresh /\ expired' = expired
      /\ UNCHANGED <<code, lock, kept>>
  BY DEF SendNotice, TypeOK, ProcessTypes
<1>2. \/ NoticeOver(p)
      \/ \E k \in 0 .. LastPost : /\ post' = [post EXCEPT ![of[p]] = k]
                                  /\ UNCHANGED <<state, notifier>>
  <2>1. CASE NoticeRefused(p)
    BY <2>1, PostTypes DEF NoticeRefused
  <2>2. CASE NoticeUncertain(p)
    <3>1. post[of[p]] \in 0 .. LastPost
      BY <1>1 DEF TypeOK, NoticeTypes
    <3>2. post[of[p]] < LastPost => post[of[p]] + 1 \in 0 .. LastPost
      BY <3>1, PostTypes
    <3>3. QED
      BY <2>2, <3>2 DEF NoticeUncertain
  <2>3. QED
    BY <2>1, <2>2 DEF SendNotice, NoticeAnswered
<1>3. ProcessTypes'
  BY <1>1, <1>2 DEF NoticeOver, TypeOK, ProcessTypes
<1>4. notifier' \in [Bridges -> Pids \cup {None}]
  BY <1>2, DroppedTypes DEF NoticeOver, TypeOK, NoticeTypes
<1>5. post' \in [Bridges -> 0 .. LastPost]
  BY <1>2, PostTypes DEF NoticeOver, TypeOK, NoticeTypes
<1>6. sends' \in [Bridges -> Nat] /\ repeated' \in [Bridges -> Nat]
  <2>1. sends \in [Bridges -> Nat] /\ repeated \in [Bridges -> Nat]
    BY DEF TypeOK, NoticeTypes
  <2>2. sends[of[p]] + 1 \in Nat
    BY <1>1, <2>1
  <2>3. \A shown \in {0, 1} : sends[of[p]] + shown \in Nat /\ repeated[of[p]] + shown \in Nat
    BY <1>1, <2>1
  <2>4. QED
    BY <2>1, <2>2, <2>3 DEF SendNotice, NoticeAnswered, NoticeRefused, NoticeUncertain, NoticeOver
<1>7. QED
  BY <1>1, <1>3, <1>4, <1>5, <1>6 DEF TypeOK, NoticeTypes

\* The steps of the processes, of the service managers and of the clock.
LEMMA ProcessStepTypes ==
  ASSUME TypeInv,
         \/ \E p \in Pids : Process(p) \/ Die(p)
         \/ \E b \in Bridges : KeeperStarts(b) \/ CooldownPasses(b)
  PROVE  TypeInv'
<1> USE DEF TypeInv
<1>1. ASSUME NEW p \in Pids, Boot(p) PROVE TypeInv'
  <2>1. of[p] \in Bridges
    BY DEF TypeOK, ProcessTypes
  <2>2. ProcessTypes' /\ NoticeTypes'
    <3>1. CASE Ends(p)
      BY <3>1, EndsTypes
    <3>2. CASE ~Ends(p)
      BY <1>1, <2>1, <3>2 DEF Boot, TypeOK, ProcessTypes, NoticeTypes, noticeVars
    <3>3. QED
      BY <3>1, <3>2
  <2>3. QED
    BY <1>1, <2>2, FrameTypes DEF Boot, TypeOK, updateVars
<1>2. ASSUME NEW p \in Pids, BootFails(p) PROVE TypeInv'
  <2>1. ProcessTypes' /\ NoticeTypes'
    BY <1>2, EndsTypes DEF BootFails
  <2>2. UpdateTypes' /\ CodeTypes'
    BY <1>2, FaultTypes, FrameTypes DEF BootFails, TypeOK, UpdateTypes, updateVars
  <2>3. QED
    BY <1>2, <2>1, <2>2 DEF BootFails, TypeOK, updateVars
<1>3. ASSUME NEW p \in Pids, ClaimNotice(p) PROVE TypeInv'
  <2>1. of[p] \in Bridges
    BY DEF TypeOK, ProcessTypes
  <2>2. state' \in [Pids -> {"free", "boot", "notice", "send", "up", "stopping", "gone"}]
    BY <1>3 DEF ClaimNotice, TypeOK, ProcessTypes
  <2>3. NoticeTypes'
    BY <1>3, <2>1, PostTypes DEF ClaimNotice, TypeOK, NoticeTypes, noticeVars
  <2>4. ProcessTypes'
    BY <1>3, <2>2 DEF ClaimNotice, TypeOK, ProcessTypes
  <2>5. QED
    BY <1>3, <2>3, <2>4, FrameTypes DEF ClaimNotice, TypeOK, updateVars
<1>4. ASSUME NEW p \in Pids, SendNotice(p) PROVE TypeInv'
  <2>1. UpdateTypes' /\ CodeTypes' /\ UNCHANGED <<upc, todo>>
    BY <1>4, FrameTypes DEF SendNotice, TypeOK, updateVars
  <2>2. QED
    BY <1>4, <2>1, SendTypes DEF TypeOK
<1>5. ASSUME NEW p \in Pids, StopEnds(p) PROVE TypeInv'
  BY <1>5, EndsTypes, FrameTypes DEF StopEnds, TypeOK, updateVars
<1>6. ASSUME NEW p \in Pids, Die(p) PROVE TypeInv'
  <2>1. ProcessTypes' /\ NoticeTypes'
    BY <1>6, EndsTypes DEF Die
  <2>2. UpdateTypes' /\ CodeTypes'
    BY <1>6, FrameTypes DEF Die, TypeOK, UpdateTypes, updateVars
  <2>3. QED
    BY <1>6, <2>1, <2>2 DEF Die, TypeOK, updateVars
<1>7. ASSUME NEW b \in Bridges, KeeperStarts(b) PROVE TypeInv'
  <2>1. PICK p \in Pids : Start(p, b, Installed) /\ kept' = [kept EXCEPT ![b] = p]
    BY <1>7 DEF KeeperStarts
  <2>2. ProcessTypes'
    BY <1>7, <2>1, StartTypes, InstalledType DEF KeeperStarts, TypeOK, ProcessTypes
  <2>3. QED
    BY <1>7, <2>2, FrameTypes DEF KeeperStarts, TypeOK, updateVars
<1>8. ASSUME NEW b \in Bridges, CooldownPasses(b) PROVE TypeInv'
  <2>1. NoticeTypes'
    BY <1>8 DEF CooldownPasses, TypeOK, NoticeTypes
  <2>2. QED
    BY <1>8, <2>1, FrameTypes DEF CooldownPasses, TypeOK, updateVars
<1>9. QED
  BY <1>1, <1>2, <1>3, <1>4, <1>5, <1>6, <1>7, <1>8 DEF Process

\* A failing step of the update only moves it to its end.
LEMMA FailsTypes ==
  ASSUME TypeInv, NEW from, Fails(from), Fault \/ UNCHANGED budgetVars
  PROVE  TypeInv'
<1>1. CodeTypes' /\ ProcessTypes' /\ NoticeTypes'
  BY FrameTypes DEF TypeInv, Fails
<1>2. faults' \in Nat /\ deaths' \in Nat
  BY FaultTypes DEF TypeInv, TypeOK, UpdateTypes, budgetVars
<1>3. QED
  BY <1>1, <1>2 DEF TypeInv, TypeOK, UpdateTypes, Fails, Step, Rest

\* How a process will be restarted.
LEMMA HowType ==
  ASSUME NEW p PROVE How(p) \in {"service", "env", "manual"}
BY DEF How

\* The steps of the update.
LEMMA UpdateStepTypes == TypeInv /\ Update => TypeInv'
<1> SUFFICES ASSUME TypeInv, Update PROVE TypeInv'
  OBVIOUS
<1> USE DEF TypeInv
<1> DEFINE frame == CodeTypes' /\ ProcessTypes' /\ NoticeTypes'
<1>1. CASE Scan
  <2>1. frame
    BY <1>1, FrameTypes DEF Scan
  <2>2. QED
    BY <1>1, <2>1 DEF Scan, Step, TypeOK, UpdateTypes, budgetVars
<1>2. CASE ScanFails \/ PlanFails \/ PullFails \/ InstallFails \/ RecheckFails \/ KickstartFails
           \/ WaitFails \/ ProbeFails
  BY <1>2, FailsTypes DEF ScanFails, PlanFails, PullFails, InstallFails, RecheckFails,
                          KickstartFails, WaitFails, ProbeFails
<1>3. CASE Plan
  <2>1. frame
    BY <1>3, FrameTypes DEF Plan
  <2>2. plans' \in SUBSET Plans /\ todo' \in SUBSET plans'
    BY <1>3, HowType DEF Plan, Step, TypeOK, UpdateTypes, Plans
  <2>3. QED
    BY <1>3, <2>1, <2>2 DEF Plan, Step, TypeOK, UpdateTypes, budgetVars
<1>4. CASE Pull \/ Install
  <2>1. CodeTypes'
    BY <1>4 DEF Pull, Install, TypeOK, CodeTypes
  <2>2. ProcessTypes' /\ NoticeTypes'
    BY <1>4, FrameTypes DEF Pull, Install
  <2>3. QED
    BY <1>4, <2>1, <2>2 DEF Pull, Install, Step, Rest, TypeOK, UpdateTypes, budgetVars
<1>5. CASE Recheck
  <2>1. frame
    BY <1>5, FrameTypes DEF Recheck
  <2>2. QED
    BY <1>5, <2>1 DEF Recheck, Step, TypeOK, UpdateTypes, budgetVars
<1>6. CASE NextPlan
  <2>1. frame
    BY <1>6, FrameTypes DEF NextPlan
  <2>2. QED
    BY <1>6, <2>1 DEF NextPlan, Step, TypeOK, UpdateTypes, budgetVars
<1>7. CASE Kickstart
  <2>1. cur \in plans /\ cur.p \in Pids /\ of[cur.p] \in Bridges
    BY <1>7 DEF Kickstart, Step, TypeOK, UpdateTypes, ProcessTypes, Plans
  <2>2. lock' \in [Bridges -> Pids \cup {None}] /\ notifier' \in [Bridges -> Pids \cup {None}]
    BY <1>7, DroppedTypes DEF Kickstart, TypeOK, ProcessTypes, NoticeTypes
  <2>3. ProcessTypes'
    BY <1>7, <2>1, <2>2, InstalledType DEF Kickstart, TypeOK, ProcessTypes
  <2>4. NoticeTypes' /\ CodeTypes'
    BY <1>7, <2>2, FrameTypes DEF Kickstart, TypeOK, NoticeTypes
  <2>5. UpdateTypes'
    BY <1>7, <2>1 DEF Kickstart, Step, TypeOK, UpdateTypes, budgetVars
  <2>6. QED
    BY <1>7, <2>3, <2>4, <2>5 DEF Kickstart, Step, TypeOK
<1>8. CASE Terminate
  <2>1. cur \in plans /\ cur.p \in Pids
    BY <1>8 DEF Terminate, Step, TypeOK, UpdateTypes, Plans
  <2>2. ProcessTypes' /\ NoticeTypes'
    <3>1. CASE Ends(cur.p)
      BY <3>1, EndsTypes
    <3>2. CASE ~Ends(cur.p)
      BY <1>8, <2>1, <3>2, FrameTypes DEF Terminate, TypeOK, ProcessTypes, noticeVars
    <3>3. QED
      BY <3>1, <3>2
  <2>3. CodeTypes'
    BY <1>8, FrameTypes DEF Terminate
  <2>4. QED
    BY <1>8, <2>1, <2>2, <2>3 DEF Terminate, Step, TypeOK, UpdateTypes, budgetVars
<1>9. CASE WaitGone
  <2>1. ProcessTypes' /\ NoticeTypes'
    BY <1>9, EndsTypes, FrameTypes DEF WaitGone
  <2>2. CodeTypes'
    BY <1>9, FrameTypes DEF WaitGone
  <2>3. QED
    BY <1>9, <2>1, <2>2 DEF WaitGone, Step, Rest, TypeOK, UpdateTypes, budgetVars
<1>10. CASE Spawn
  <2>1. cur \in plans /\ cur.p \in Pids /\ of[cur.p] \in Bridges /\ clone \in {"old", "new"}
    BY <1>10 DEF Spawn, Step, TypeOK, UpdateTypes, Plans, ProcessTypes, CodeTypes
  <2>2. PICK p \in Pids : Start(p, of[cur.p], clone) /\ child' = p
    BY <1>10 DEF Spawn
  <2>3. ProcessTypes'
    BY <1>10, <2>1, <2>2, StartTypes DEF Spawn, TypeOK, ProcessTypes
  <2>4. NoticeTypes' /\ CodeTypes'
    BY <1>10, FrameTypes DEF Spawn
  <2>5. QED
    BY <1>10, <2>2, <2>3, <2>4 DEF Spawn, Step, TypeOK, UpdateTypes, budgetVars
<1>11. CASE Probe \/ Finish
  <2>1. frame
    BY <1>11, FrameTypes DEF Probe, Finish
  <2>2. QED
    BY <1>11, <2>1 DEF Probe, Finish, Step, Rest, TypeOK, UpdateTypes, budgetVars
<1>12. QED
  BY <1>1, <1>2, <1>3, <1>4, <1>5, <1>6, <1>7, <1>8, <1>9, <1>10, <1>11 DEF Update

LEMMA TypeInit == Init => TypeInv
<1> SUFFICES ASSUME Init PROVE TypeInv
  OBVIOUS
<1>1. Bridges \subseteq Pids
  BY SupervisionAssumption DEF Bridges, Pids
<1>2. 1 \in Bridges
  BY SupervisionAssumption DEF Bridges
<1>3. ProcessTypes
  BY <1>1, <1>2 DEF Init, ProcessTypes
<1>4. QED
  BY <1>3, PostTypes DEF Init, TypeInv, TypeOK, CodeTypes, NoticeTypes, UpdateTypes

LEMMA TypeStep == TypeInv /\ [Next]_vars => TypeInv'
<1> SUFFICES ASSUME TypeInv, [Next]_vars PROVE TypeInv'
  OBVIOUS
<1>1. CASE Update
  BY <1>1, UpdateStepTypes
<1>2. CASE \/ \E p \in Pids : Process(p) \/ Die(p)
           \/ \E b \in Bridges : KeeperStarts(b) \/ CooldownPasses(b)
  BY <1>2, ProcessStepTypes
<1>3. CASE UNCHANGED vars
  BY <1>3, FrameTypes DEF vars, TypeInv, TypeOK, updateVars
<1>4. QED
  BY <1>1, <1>2, <1>3 DEF Next

\* Every reachable state of Supervision is well typed.
THEOREM TypeCorrect == Spec => []TypeOK
<1>1. TypeInv => TypeOK
  BY DEF TypeInv
<1>2. QED
  BY TypeInit, TypeStep, <1>1, PTL DEF Spec

-----------------------------------------------------------------------------
(* Nothing is stopped before the new code is in place *)

NewCode == clone = "new" /\ (pip => site = "new")

\* Where the update is, what it has installed and what it may have stopped belong together.
UpdateInv ==
  /\ upc \in {"status", "plan", "pull", "install"} => stopped = {}
  /\ upc = "install" => clone = "new"
  /\ upc \in {"recheck", "next", "kick", "term", "wait", "spawn", "probe", "done"} => NewCode
  /\ stopped # {} => NewCode

LEMMA UpdateInvStep == UpdateInv /\ [Next]_vars => UpdateInv'
<1> SUFFICES ASSUME UpdateInv, [Next]_vars PROVE UpdateInv'
  OBVIOUS
<1> USE DEF UpdateInv, NewCode
<1>1. CASE Scan \/ Plan \/ Recheck \/ NextPlan \/ Kickstart \/ Terminate \/ Spawn
  BY <1>1 DEF Scan, Plan, Recheck, NextPlan, Kickstart, Terminate, Spawn, Step, codeVars
<1>2. CASE Pull \/ Install
  BY <1>2 DEF Pull, Install, Step, Rest
<1>3. CASE WaitGone \/ Probe \/ Finish
  BY <1>3 DEF WaitGone, Probe, Finish, Step, Rest, codeVars
<1>4. CASE ScanFails \/ PlanFails \/ PullFails \/ InstallFails \/ RecheckFails \/ KickstartFails
           \/ WaitFails \/ ProbeFails
  BY <1>4 DEF ScanFails, PlanFails, PullFails, InstallFails, RecheckFails, KickstartFails,
              WaitFails, ProbeFails, Fails, Step, Rest, codeVars
<1>5. ASSUME NEW p \in Pids, Process(p) \/ Die(p) PROVE UpdateInv'
  BY <1>5 DEF Process, Boot, BootFails, ClaimNotice, SendNotice, StopEnds, Die, codeVars, updateVars
<1>6. ASSUME NEW b \in Bridges, KeeperStarts(b) \/ CooldownPasses(b) PROVE UpdateInv'
  BY <1>6 DEF KeeperStarts, CooldownPasses, codeVars, updateVars
<1>7. CASE UNCHANGED vars
  BY <1>7 DEF vars, codeVars, updateVars
<1>8. QED
  BY <1>1, <1>2, <1>3, <1>4, <1>5, <1>6, <1>7 DEF Next, Update

\* The updater stops no bridge before the clone and, for a pip installation, the package are
\* new: a failing pull or installation leaves every bridge running.
THEOREM StoppedOnlyForNewCode == Spec => []StoppedForNewCode
<1>1. Init => UpdateInv
  BY DEF Init, UpdateInv
<1>2. UpdateInv => StoppedForNewCode
  BY DEF UpdateInv, NewCode, StoppedForNewCode
<1>3. QED
  BY <1>1, UpdateInvStep, <1>2, PTL DEF Spec

-----------------------------------------------------------------------------
(* Notices are a cooldown apart *)

\* The notices of a bridge are claimed by the process that holds their lock, which is about to
\* send one.
HolderInv ==
  /\ \A b \in Bridges : notifier[b] # None => state[notifier[b]] = "send" /\ of[notifier[b]] = b
  /\ \A p \in Pids : state[p] = "send" => notifier[of[p]] = p

One(x) == IF x THEN 1 ELSE 0

\* The claims of a bridge: a fresh marker is a cooldown to come.
Claims(b) == expired[b] + One(fresh[b])

\* How often the notice under way may still be repeated.
Left(b) == IF notifier[b] = None THEN 0 ELSE LastPost - post[b]

\* A notice under way counts like one that was shown, with the repetitions it has left.
Count(b) ==
  /\ sends[b] + One(notifier[b] # None) <= Claims(b) + repeated[b]
  /\ repeated[b] + Left(b) <= LastPost * Claims(b)
CountInv == \A b \in Bridges : Count(b)

LEMMA NoticeNumbers ==
  ASSUME TypeOK, NEW b \in Bridges
  PROVE  /\ sends[b] \in Nat /\ repeated[b] \in Nat /\ expired[b] \in Nat
         /\ post[b] \in Nat /\ post[b] <= LastPost /\ LastPost \in Nat
         /\ One(fresh[b]) \in {0, 1} /\ One(notifier[b] # None) \in {0, 1}
         /\ Claims(b) \in Nat /\ Left(b) \in Nat
BY PostTypes DEF TypeOK, NoticeTypes, One, Claims, Left

\* A process that gives up its notice, and one that has nothing to do with it, change no count.
LEMMA CountKept ==
  ASSUME TypeOK, NEW b \in Bridges, Count(b),
         sends'[b] = sends[b], repeated'[b] = repeated[b], post'[b] = post[b],
         expired'[b] + One(fresh'[b]) = Claims(b), notifier'[b] \in {notifier[b], None}
  PROVE  Count(b)'
<1> DEFINE room == LastPost * Claims(b)
<1>1. room \in Int
  BY NoticeNumbers
<1>2. Claims(b)' = Claims(b)
  BY DEF Claims, One
<1>3. One(notifier'[b] # None) \in {0, 1} /\ One(notifier'[b] # None) <= One(notifier[b] # None)
  BY DEF One
<1>4. Left(b)' \in Nat /\ Left(b)' <= Left(b)
  BY NoticeNumbers, PostTypes DEF Left, LastPost
<1>5. LastPost' = LastPost
  BY DEF LastPost
<1>6. sends[b] + One(notifier'[b] # None) <= Claims(b) + repeated[b]
  BY <1>3, NoticeNumbers DEF Count
<1>7. repeated[b] + Left(b)' <= room
  <2>1. repeated[b] + Left(b) <= room
    BY DEF Count
  <2> HIDE DEF room
  <2>2. QED
    BY <1>1, <1>4, <2>1, NoticeNumbers
<1>8. QED
  BY <1>2, <1>5, <1>6, <1>7 DEF Count, One

LEMMA EndsHolder ==
  ASSUME TypeOK, HolderInv, CountInv, NEW p \in Pids, Ends(p)
  PROVE  HolderInv' /\ CountInv'
<1>1. \A b \in Bridges : notifier'[b] = IF notifier[b] = p THEN None ELSE notifier[b]
  BY DEF Ends, Dropped
<1>2. \A q \in Pids : state'[q] = IF q = p THEN "gone" ELSE state[q]
  BY DEF Ends, TypeOK, ProcessTypes
<1>3. of' = of /\ UNCHANGED <<fresh, post, sends, repeated, expired>>
  BY DEF Ends
<1>4. HolderInv'
  BY <1>1, <1>2, <1>3 DEF HolderInv, TypeOK, ProcessTypes, NoticeTypes
<1>5. ASSUME NEW b \in Bridges PROVE Count(b)'
  BY <1>1, <1>3, CountKept DEF CountInv, Claims
<1>6. QED
  BY <1>4, <1>5 DEF CountInv

\* A new process has a pid that holds no lock.
LEMMA StartHolder ==
  ASSUME TypeOK, HolderInv, NEW p \in Pids, NEW b \in Bridges, NEW c, Start(p, b, c),
         notifier' = notifier
  PROVE  HolderInv'
<1>1. state[p] \in {"free", "gone"}
  BY DEF Start, Free, Unused
<1>2. \A q \in Pids : /\ state'[q] = IF q = p THEN "boot" ELSE state[q]
                      /\ of'[q] = IF q = p THEN b ELSE of[q]
  BY DEF Start, TypeOK, ProcessTypes
<1>3. \A a \in Bridges : notifier[a] # p
  BY <1>1 DEF HolderInv, TypeOK, NoticeTypes, None, Pids
<1>4. QED
  BY <1>2, <1>3 DEF HolderInv, TypeOK, ProcessTypes, NoticeTypes

LEMMA HolderSame ==
  ASSUME HolderInv, CountInv, UNCHANGED <<state, of, noticeVars>>
  PROVE  HolderInv' /\ CountInv'
BY DEF HolderInv, CountInv, Count, Claims, Left, LastPost, noticeVars, One

LEMMA CountSame ==
  ASSUME CountInv, UNCHANGED noticeVars
  PROVE  CountInv'
BY DEF CountInv, Count, Claims, Left, LastPost, noticeVars, One

\* A claim finds no fresh marker: it is one claim more.
LEMMA ClaimCounts ==
  ASSUME TypeOK, NEW p, NEW b \in Bridges, Count(b), notifier[b] = None, ~fresh[b],
         notifier' = [notifier EXCEPT ![b] = p], fresh' = [fresh EXCEPT ![b] = TRUE],
         post' = [post EXCEPT ![b] = 0], UNCHANGED <<sends, repeated, expired>>
  PROVE  Count(b)'
<1> DEFINE room == LastPost * Claims(b)
<1>1. room \in Int
  BY NoticeNumbers
<1>2. Claims(b) = expired[b] /\ Claims(b)' = Claims(b) + 1
  BY NoticeNumbers DEF Claims, One, TypeOK, NoticeTypes
<1>3. LastPost * (Claims(b) + 1) = room + LastPost
  BY NoticeNumbers
<1>4. sends[b] <= Claims(b) + repeated[b] /\ repeated[b] <= room
  BY NoticeNumbers DEF Count, One, Left
<1>5. One((notifier[b] # None)') \in {0, 1} /\ Left(b)' \in {0, LastPost} /\ LastPost' = LastPost
  <2>1. post'[b] = 0
    BY DEF TypeOK, NoticeTypes
  <2>2. Left(b)' = IF notifier'[b] = None THEN 0 ELSE LastPost - post'[b]
    BY DEF Left, LastPost
  <2>3. QED
    BY <2>1, <2>2, NoticeNumbers DEF One, LastPost
<1>6. sends[b] + One((notifier[b] # None)') <= Claims(b)' + repeated[b]
  BY <1>2, <1>4, <1>5, NoticeNumbers
<1>7. repeated[b] + Left(b)' <= room + LastPost
  <2> HIDE DEF room
  <2>1. QED
    BY <1>1, <1>4, <1>5, NoticeNumbers
<1>8. QED
  BY <1>2, <1>3, <1>5, <1>6, <1>7 DEF Count, One

\* A notice under way was claimed: showing it once uses the claim up, and every further time
\* is a repetition, of which each post leaves one less.
LEMMA SendHolder ==
  ASSUME TypeOK, HolderInv, CountInv, NEW p \in Pids, SendNotice(p)
  PROVE  HolderInv' /\ CountInv'
<1>0. PICK b \in Bridges : b = of[p]
  BY DEF TypeOK, ProcessTypes
<1> USE <1>0
<1>1. b \in Bridges /\ state[p] = "send" /\ notifier[b] = p /\ of' = of /\ p # None
      /\ fresh' = fresh /\ expired' = expired
  BY DEF SendNotice, HolderInv, TypeOK, ProcessTypes, Pids, None
<1>2. \/ NoticeOver(p)
      \/ /\ \E k \in 0 .. LastPost : post' = [post EXCEPT ![b] = k]
         /\ UNCHANGED <<state, notifier>>
  <2>1. CASE NoticeUncertain(p)
    <3>1. post[b] < LastPost => post[b] + 1 \in 0 .. LastPost
      BY <1>1, NoticeNumbers
    <3>2. QED
      BY <2>1, <3>1 DEF NoticeUncertain
  <2>2. QED
    BY <2>1, PostTypes DEF SendNotice, NoticeAnswered, NoticeRefused
<1>3. HolderInv'
  <2>1. CASE NoticeOver(p)
    <3>1. \A a \in Bridges : notifier'[a] = IF notifier[a] = p THEN None ELSE notifier[a]
      BY <2>1 DEF NoticeOver, Dropped
    <3>2. state' = [state EXCEPT ![p] = "up"]
      BY <2>1 DEF NoticeOver
    <3>3. QED
      BY <1>1, <3>1, <3>2 DEF HolderInv, TypeOK, ProcessTypes, NoticeTypes
  <2>2. QED
    BY <1>1, <1>2, <2>1 DEF HolderInv
<1>4. ASSUME NEW a \in Bridges, a # b PROVE Count(a)'
  <2>1. notifier[a] # p
    BY <1>1, <1>4 DEF HolderInv, TypeOK, NoticeTypes, Pids, None
  <2>2. notifier'[a] = notifier[a] /\ post'[a] = post[a]
    BY <1>2, <1>4, <2>1 DEF NoticeOver, Dropped, TypeOK, NoticeTypes
  <2>3. sends'[a] = sends[a] /\ repeated'[a] = repeated[a]
    BY <1>4 DEF SendNotice, NoticeAnswered, NoticeRefused, NoticeUncertain, NoticeOver, TypeOK,
                NoticeTypes
  <2>4. Count(a)
    BY DEF CountInv
  <2>5. QED
    BY <1>1, <2>2, <2>3, <2>4, CountKept DEF Claims
<1>5. Count(b)'
  <2> DEFINE room == LastPost * Claims(b)
  <2>1. /\ sends[b] + 1 <= Claims(b) + repeated[b]
        /\ repeated[b] + (LastPost - post[b]) <= room
    BY <1>1 DEF CountInv, Count, One, Left
  <2>2. room \in Int
    BY <1>1, NoticeNumbers
  <2>3. Claims(b)' = Claims(b) /\ LastPost' = LastPost
    BY <1>1 DEF Claims, LastPost
  <2>4. SUFFICES /\ sends'[b] + One(notifier'[b] # None) <= Claims(b) + repeated'[b]
                 /\ repeated'[b] + Left(b)' <= room
    BY <2>3 DEF Count, One
  <2> HIDE DEF room
  <2>5. CASE NoticeOver(p)
    <3>1. notifier'[b] = None /\ repeated' = repeated
      BY <1>1, <2>5 DEF NoticeOver, Dropped
    <3>2. sends'[b] \in {sends[b], sends[b] + 1}
      <4>1. \A shown \in {0, 1} : sends[b] + shown \in {sends[b], sends[b] + 1}
        BY <1>1, NoticeNumbers
      <4>2. QED
        BY <1>1, <4>1 DEF SendNotice, NoticeAnswered, NoticeRefused, NoticeUncertain, TypeOK,
                          NoticeTypes
    <3>3. One(notifier'[b] # None) = 0 /\ Left(b)' = 0
      BY <2>3, <3>1 DEF One, Left
    <3>4. QED
      BY <1>1, <2>1, <2>2, <3>1, <3>2, <3>3, NoticeNumbers
  <2>6. CASE ~NoticeOver(p)
    <3>1. notifier' = notifier
      BY <1>2, <2>6
    <3>2. Left(b)' = LastPost - post'[b] /\ One(notifier'[b] # None) = 1
      BY <1>1, <2>3, <3>1 DEF One, Left
    <3>3. CASE NoticeRefused(p)
      <4>1. /\ post[b] <= LastFormatted /\ post'[b] = LastFormatted + 1
            /\ sends' = sends /\ repeated' = repeated
        BY <1>1, <2>6, <3>3 DEF NoticeRefused, TypeOK, NoticeTypes
      <4>2. LastFormatted \in Nat
        BY SupervisionAssumption DEF LastFormatted
      <4>3. QED
        BY <1>1, <2>1, <2>2, <3>2, <4>1, <4>2, NoticeNumbers
    <3>4. CASE NoticeUncertain(p)
      <4>1. PICK shown \in {0, 1} :
              /\ sends' = [sends EXCEPT ![b] = @ + shown]
              /\ post' = [post EXCEPT ![b] = @ + 1]
              /\ repeated' = [repeated EXCEPT ![b] = @ + shown]
        BY <2>6, <3>4 DEF NoticeUncertain
      <4>2. /\ sends'[b] = sends[b] + shown /\ post'[b] = post[b] + 1
            /\ repeated'[b] = repeated[b] + shown
        BY <1>1, <4>1 DEF TypeOK, NoticeTypes
      <4>3. QED
        BY <1>1, <2>1, <2>2, <3>2, <4>2, NoticeNumbers
    <3>5. QED
      BY <2>6, <3>3, <3>4 DEF SendNotice, NoticeAnswered
  <2>7. QED
    BY <2>5, <2>6
<1>6. QED
  BY <1>3, <1>4, <1>5 DEF CountInv

LEMMA ProcessHolder ==
  ASSUME TypeOK, HolderInv, CountInv, NEW p \in Pids, Process(p) \/ Die(p)
  PROVE  HolderInv' /\ CountInv'
<1>1. CASE Ends(p)
  BY <1>1, EndsHolder
<1>2. CASE Boot(p) /\ ~Ends(p)
  <2>1. state' = [state EXCEPT ![p] = "notice"] /\ state[p] = "boot"
    BY <1>2 DEF Boot
  <2>2. of' = of /\ UNCHANGED noticeVars
    BY <1>2 DEF Boot
  <2>3. HolderInv'
    BY <2>1, <2>2 DEF HolderInv, TypeOK, ProcessTypes, NoticeTypes, noticeVars
  <2>4. QED
    BY <2>2, <2>3, CountSame
<1>3. CASE ClaimNotice(p)
  <2>0. PICK b \in Bridges : b = of[p]
    BY DEF TypeOK, ProcessTypes
  <2> USE <2>0
  <2>1. b \in Bridges /\ state[p] = "notice" /\ of' = of
    BY <1>3 DEF ClaimNotice, TypeOK, ProcessTypes
  <2>2. CASE ~setup[b].notice \/ notifier[b] # None \/ fresh[b]
    <3>1. state' = [state EXCEPT ![p] = "up"] /\ UNCHANGED noticeVars
      BY <1>3, <2>2 DEF ClaimNotice
    <3>2. HolderInv'
      BY <2>1, <3>1 DEF HolderInv, TypeOK, ProcessTypes, NoticeTypes, noticeVars
    <3>3. QED
      BY <3>1, <3>2, CountSame
  <2>3. CASE ~(~setup[b].notice \/ notifier[b] # None \/ fresh[b])
    <3>1. /\ state' = [state EXCEPT ![p] = "send"] /\ notifier' = [notifier EXCEPT ![b] = p]
          /\ fresh' = [fresh EXCEPT ![b] = TRUE] /\ post' = [post EXCEPT ![b] = 0]
          /\ UNCHANGED <<sends, repeated, expired>>
      BY <1>3, <2>3 DEF ClaimNotice
    <3>2. HolderInv'
      BY <2>1, <2>3, <3>1 DEF HolderInv, TypeOK, ProcessTypes, NoticeTypes, Pids, None
    <3>3. Count(b)'
      BY <2>1, <2>3, <3>1, ClaimCounts DEF CountInv
    <3>4. ASSUME NEW a \in Bridges, a # b PROVE Count(a)'
      BY <2>1, <3>1, <3>4, CountKept DEF CountInv, Claims, TypeOK, NoticeTypes
    <3>5. QED
      BY <3>2, <3>3, <3>4 DEF CountInv
  <2>4. QED
    BY <2>2, <2>3
<1>4. CASE SendNotice(p)
  BY <1>4, SendHolder
<1>5. QED
  BY <1>1, <1>2, <1>3, <1>4 DEF Process, BootFails, StopEnds, Die

LEMMA CooldownHolder ==
  ASSUME TypeOK, HolderInv, CountInv, NEW c \in Bridges, CooldownPasses(c)
  PROVE  HolderInv' /\ CountInv'
<1>1. /\ fresh[c] /\ fresh' = [fresh EXCEPT ![c] = FALSE]
      /\ expired' = [expired EXCEPT ![c] = @ + 1]
      /\ UNCHANGED <<notifier, post, sends, repeated, state, of>>
  BY DEF CooldownPasses, procVars
<1>2. ASSUME NEW a \in Bridges PROVE Count(a)'
  <2>1. expired[a] \in Nat /\ Count(a)
    BY DEF TypeOK, NoticeTypes, CountInv
  <2>2. expired'[a] + One(fresh'[a]) = Claims(a)
    BY <1>1, <2>1 DEF TypeOK, NoticeTypes, One, Claims
  <2>3. QED
    BY <1>1, <2>1, <2>2, CountKept
<1>3. QED
  BY <1>1, <1>2 DEF HolderInv, CountInv

LEMMA UpdateHolder ==
  ASSUME TypeOK, HolderInv, CountInv, Update
  PROVE  HolderInv' /\ CountInv'
<1>1. CASE \/ Scan \/ Plan \/ Pull \/ Install \/ Recheck \/ NextPlan \/ Probe \/ Finish
  BY <1>1, HolderSame DEF Scan, Plan, Pull, Install, Recheck, NextPlan, Probe, Finish, procVars
<1>2. CASE ScanFails \/ PlanFails \/ PullFails \/ InstallFails \/ RecheckFails \/ KickstartFails
           \/ WaitFails \/ ProbeFails
  BY <1>2, HolderSame DEF ScanFails, PlanFails, PullFails, InstallFails, RecheckFails,
                          KickstartFails, WaitFails, ProbeFails, Fails, procVars
<1>3. CASE Kickstart
  <2>1. cur.p \in Pids /\ of[cur.p] \in Bridges
    BY <1>3 DEF Kickstart, Step, TypeOK, UpdateTypes, ProcessTypes, Plans
  <2>2. PICK p \in Pids :
          /\ Free(p, of[cur.p])
          /\ state' = [state EXCEPT ![cur.p] = "gone", ![p] = "boot"]
          /\ of' = [of EXCEPT ![p] = of[cur.p]]
    BY <1>3 DEF Kickstart
  <2>3. state[p] \in {"free", "gone"} /\ p # cur.p
    BY <1>3, <2>2 DEF Kickstart, Free, Unused, Running
  <2>4. \A q \in Pids :
          /\ state'[q] = IF q = p THEN "boot" ELSE IF q = cur.p THEN "gone" ELSE state[q]
          /\ of'[q] = IF q = p THEN of[cur.p] ELSE of[q]
    BY <2>1, <2>2, <2>3 DEF TypeOK, ProcessTypes
  <2>5. \A a \in Bridges : notifier'[a] = IF notifier[a] = cur.p THEN None ELSE notifier[a]
    BY <1>3 DEF Kickstart, Dropped
  <2>6. \A a \in Bridges : notifier[a] # p
    BY <2>3 DEF HolderInv, TypeOK, NoticeTypes, None, Pids
  <2>7. HolderInv'
    BY <2>1, <2>4, <2>5, <2>6 DEF HolderInv, TypeOK, ProcessTypes, NoticeTypes
  <2>8. UNCHANGED <<fresh, post, sends, repeated, expired>>
    BY <1>3 DEF Kickstart
  <2>9. ASSUME NEW a \in Bridges PROVE Count(a)'
    BY <2>5, <2>8, CountKept DEF CountInv, Claims
  <2>10. QED
    BY <2>7, <2>9 DEF CountInv
<1>4. CASE Terminate
  <2>1. cur.p \in Pids
    BY <1>4 DEF Terminate, Step, TypeOK, UpdateTypes, Plans
  <2>2. CASE Ends(cur.p)
    BY <2>1, <2>2, EndsHolder
  <2>3. CASE UNCHANGED <<procVars, noticeVars>>
    BY <2>3, HolderSame DEF procVars
  <2>4. CASE /\ Poller(cur.p) /\ state' = [state EXCEPT ![cur.p] = "stopping"]
             /\ UNCHANGED <<of, code, lock, kept, noticeVars>>
    <3>1. HolderInv'
      BY <2>1, <2>4 DEF Poller, HolderInv, TypeOK, ProcessTypes, NoticeTypes, noticeVars
    <3>2. QED
      BY <2>4, <3>1, CountSame
  <2>5. QED
    BY <1>4, <2>2, <2>3, <2>4 DEF Terminate
<1>5. CASE WaitGone
  <2>1. cur.p \in Pids
    BY <1>5 DEF WaitGone, Step, TypeOK, UpdateTypes, Plans
  <2>2. QED
    BY <1>5, <2>1, EndsHolder, HolderSame DEF WaitGone, procVars
<1>6. CASE Spawn
  <2>1. of[cur.p] \in Bridges
    BY <1>6 DEF Spawn, Step, TypeOK, UpdateTypes, Plans, ProcessTypes
  <2>2. PICK p \in Pids : Start(p, of[cur.p], clone)
    BY <1>6 DEF Spawn
  <2>3. UNCHANGED noticeVars
    BY <1>6 DEF Spawn
  <2>4. QED
    BY <2>1, <2>2, <2>3, StartHolder, CountSame DEF noticeVars
<1>7. QED
  BY <1>1, <1>2, <1>3, <1>4, <1>5, <1>6 DEF Update

LEMMA NoticeStep ==
  TypeInv /\ HolderInv /\ CountInv /\ [Next]_vars => HolderInv' /\ CountInv'
<1> SUFFICES ASSUME TypeOK, HolderInv, CountInv, [Next]_vars
             PROVE  HolderInv' /\ CountInv'
  BY DEF TypeInv
<1>1. ASSUME NEW b \in Bridges, KeeperStarts(b) PROVE HolderInv' /\ CountInv'
  <2>1. PICK p \in Pids : Start(p, b, Installed)
    BY <1>1 DEF KeeperStarts
  <2>2. UNCHANGED noticeVars
    BY <1>1 DEF KeeperStarts
  <2>3. QED
    BY <2>1, <2>2, StartHolder, CountSame DEF noticeVars
<1>2. CASE UNCHANGED vars
  BY <1>2, HolderSame DEF vars, procVars
<1>3. QED
  BY <1>1, <1>2, UpdateHolder, ProcessHolder, CooldownHolder DEF Next

\* However often a bridge is started, killed or replaced, by whomever, it claims one notice
\* per cooldown at most; the chat sees more of them only where an answer was lost and the
\* client posted again, as often as it may within one start.
THEOREM NoticesStayRare == Spec => []NoticesAreRare
<1>1. Init => HolderInv /\ CountInv
  <2> SUFFICES ASSUME Init PROVE HolderInv /\ CountInv
    OBVIOUS
  <2>1. \A b \in Bridges : /\ sends[b] = 0 /\ repeated[b] = 0 /\ Left(b) = 0 /\ Claims(b) = 0
                           /\ One(notifier[b] # None) = 0
    BY DEF Init, Left, Claims, One
  <2>2. LastPost * 0 = 0
    BY PostTypes
  <2>3. CountInv
    BY <2>1, <2>2 DEF CountInv, Count
  <2>4. QED
    BY <2>3 DEF Init, HolderInv
<1>2. TypeInv /\ CountInv => NoticesAreRare
  <2> SUFFICES ASSUME TypeOK, CountInv, NEW b \in Bridges
               PROVE  /\ sends[b] <= expired[b] + 1 + repeated[b]
                      /\ repeated[b] <= LastPost * (expired[b] + 1)
    BY DEF TypeInv, NoticesAreRare
  <2> DEFINE room == LastPost * expired[b]
  <2>1. Claims(b) \in {expired[b], expired[b] + 1}
    BY NoticeNumbers DEF Claims, One
  <2>2. room \in Int /\ LastPost * (expired[b] + 1) = room + LastPost
    BY NoticeNumbers
  <2>3. LastPost * Claims(b) \in {room, room + LastPost}
    BY <2>1, <2>2
  <2>4. Count(b)
    BY DEF CountInv
  <2>5. sends[b] <= expired[b] + 1 + repeated[b]
    BY <2>1, <2>4, NoticeNumbers DEF Count
  <2>6. repeated[b] + Left(b) <= LastPost * Claims(b)
    BY <2>4 DEF Count
  <2> HIDE DEF room
  <2>7. repeated[b] <= room + LastPost
    BY <2>2, <2>3, <2>6, NoticeNumbers
  <2>8. QED
    BY <2>2, <2>5, <2>7
<1>3. QED
  BY TypeInit, TypeStep, <1>1, NoticeStep, <1>2, PTL DEF Spec

-----------------------------------------------------------------------------
(* Attach bridges exclude each other *)

\* A process of an attach bridge that is past its start holds the lock of the bridge.
LockInv ==
  \A p \in Pids :
    /\ state[p] \in {"notice", "send", "up"} /\ Mode(of[p]) = "attach" => lock[of[p]] = p
    /\ state[p] = "stopping" => Mode(of[p]) = "oneshot"

LEMMA EndsLock ==
  ASSUME TypeOK, LockInv, NEW p \in Pids, Ends(p), setup' = setup
  PROVE  LockInv'
<1>1. \A b \in Bridges : lock'[b] = IF lock[b] = p THEN None ELSE lock[b]
  BY DEF Ends, Dropped
<1>2. \A q \in Pids : state'[q] = IF q = p THEN "gone" ELSE state[q]
  BY DEF Ends, TypeOK, ProcessTypes
<1>3. of' = of
  BY DEF Ends
<1>4. QED
  BY <1>1, <1>2, <1>3 DEF LockInv, Mode, TypeOK, ProcessTypes

LEMMA StartLock ==
  ASSUME TypeOK, LockInv, NEW p \in Pids, NEW b \in Bridges, NEW c, Start(p, b, c),
         lock' = lock, setup' = setup
  PROVE  LockInv'
<1>1. \A q \in Pids : /\ state'[q] = IF q = p THEN "boot" ELSE state[q]
                      /\ of'[q] = IF q = p THEN b ELSE of[q]
  BY DEF Start, TypeOK, ProcessTypes
<1>2. QED
  BY <1>1 DEF LockInv, Mode

LEMMA LockSame ==
  ASSUME LockInv, UNCHANGED <<state, of, lock, setup>>
  PROVE  LockInv'
BY DEF LockInv, Mode

LEMMA ProcessLock ==
  ASSUME TypeOK, LockInv, NEW p \in Pids, Process(p) \/ Die(p)
  PROVE  LockInv'
<1>1. setup' = setup
  BY DEF Process, Boot, BootFails, ClaimNotice, SendNotice, StopEnds, Die, codeVars
<1>2. CASE Ends(p)
  BY <1>1, <1>2, EndsLock
<1>3. CASE Boot(p) /\ ~Ends(p)
  <2>1. /\ state' = [state EXCEPT ![p] = "notice"] /\ of' = of
        /\ ~(Mode(of[p]) = "attach" /\ lock[of[p]] # None)
        /\ lock' = IF Mode(of[p]) = "attach" THEN [lock EXCEPT ![of[p]] = p] ELSE lock
    BY <1>3 DEF Boot
  <2>2. ASSUME NEW q \in Pids
        PROVE  /\ state'[q] \in {"notice", "send", "up"} /\ Mode(of[q]) = "attach"
                    => lock'[of[q]] = q
               /\ state'[q] = "stopping" => Mode(of[q]) = "oneshot"
    <3>1. q # None /\ of[q] \in Bridges /\ of[p] \in Bridges
      BY DEF None, Pids, TypeOK, ProcessTypes
    <3>2. CASE q = p
      BY <2>1, <3>1, <3>2 DEF TypeOK, ProcessTypes
    <3>3. CASE q # p
      <4>1. state'[q] = state[q]
        BY <2>1, <3>3 DEF TypeOK, ProcessTypes
      <4>2. QED
        BY <2>1, <3>1, <4>1 DEF LockInv, TypeOK, ProcessTypes
    <3>4. QED
      BY <3>2, <3>3
  <2>3. QED
    BY <1>1, <2>1, <2>2 DEF LockInv, Mode
<1>4. CASE ClaimNotice(p) \/ SendNotice(p)
  <2>1. state[p] \in {"notice", "send"} /\ of' = of /\ lock' = lock
    BY <1>4 DEF ClaimNotice, SendNotice
  <2>2. \/ state' = [state EXCEPT ![p] = "up"] \/ state' = [state EXCEPT ![p] = "send"]
        \/ state' = state
    BY <1>4 DEF ClaimNotice, SendNotice, NoticeAnswered, NoticeRefused, NoticeUncertain, NoticeOver
  <2>3. QED
    BY <1>1, <2>1, <2>2 DEF LockInv, Mode, TypeOK, ProcessTypes
<1>5. QED
  BY <1>2, <1>3, <1>4 DEF Process, BootFails, StopEnds, Die

LEMMA UpdateLock ==
  ASSUME TypeOK, LockInv, Update
  PROVE  LockInv'
<1>1. CASE \/ Scan \/ Plan \/ Pull \/ Install \/ Recheck \/ NextPlan \/ Probe \/ Finish
  BY <1>1, LockSame DEF Scan, Plan, Pull, Install, Recheck, NextPlan, Probe, Finish, procVars, codeVars
<1>2. CASE ScanFails \/ PlanFails \/ PullFails \/ InstallFails \/ RecheckFails \/ KickstartFails
           \/ WaitFails \/ ProbeFails
  BY <1>2, LockSame DEF ScanFails, PlanFails, PullFails, InstallFails, RecheckFails,
                        KickstartFails, WaitFails, ProbeFails, Fails, procVars, codeVars
<1>3. CASE Kickstart
  <2>1. cur.p \in Pids /\ of[cur.p] \in Bridges
    BY <1>3 DEF Kickstart, Step, TypeOK, UpdateTypes, ProcessTypes, Plans
  <2>2. PICK p \in Pids :
          /\ state' = [state EXCEPT ![cur.p] = "gone", ![p] = "boot"]
          /\ of' = [of EXCEPT ![p] = of[cur.p]]
    BY <1>3 DEF Kickstart
  <2>3. \A q \in Pids :
          /\ state'[q] = IF q = p THEN "boot" ELSE IF q = cur.p THEN "gone" ELSE state[q]
          /\ of'[q] = IF q = p THEN of[cur.p] ELSE of[q]
    BY <2>1, <2>2 DEF TypeOK, ProcessTypes
  <2>4. /\ \A a \in Bridges : lock'[a] = IF lock[a] = cur.p THEN None ELSE lock[a]
        /\ setup' = setup
    BY <1>3 DEF Kickstart, Dropped, codeVars
  <2>5. QED
    BY <2>1, <2>3, <2>4 DEF LockInv, Mode, TypeOK, ProcessTypes
<1>4. CASE Terminate
  <2>1. cur.p \in Pids /\ setup' = setup
    BY <1>4 DEF Terminate, Step, TypeOK, UpdateTypes, Plans, codeVars
  <2>2. CASE Ends(cur.p)
    BY <2>1, <2>2, EndsLock
  <2>3. CASE UNCHANGED <<procVars, noticeVars>>
    BY <2>1, <2>3, LockSame DEF procVars
  <2>4. CASE /\ Mode(of[cur.p]) = "oneshot" /\ state' = [state EXCEPT ![cur.p] = "stopping"]
             /\ UNCHANGED <<of, code, lock, kept, noticeVars>>
    BY <2>1, <2>4 DEF LockInv, Mode, TypeOK, ProcessTypes
  <2>5. QED
    BY <1>4, <2>2, <2>3, <2>4 DEF Terminate
<1>5. CASE WaitGone
  <2>1. cur.p \in Pids /\ setup' = setup
    BY <1>5 DEF WaitGone, Step, TypeOK, UpdateTypes, Plans, codeVars
  <2>2. QED
    BY <1>5, <2>1, EndsLock, LockSame DEF WaitGone, procVars
<1>6. CASE Spawn
  <2>1. of[cur.p] \in Bridges /\ lock' = lock /\ setup' = setup
    BY <1>6 DEF Spawn, Step, TypeOK, UpdateTypes, Plans, ProcessTypes, codeVars
  <2>2. PICK p \in Pids : Start(p, of[cur.p], clone)
    BY <1>6 DEF Spawn
  <2>3. QED
    BY <2>1, <2>2, StartLock
<1>7. QED
  BY <1>1, <1>2, <1>3, <1>4, <1>5, <1>6 DEF Update

LEMMA LockStep == TypeInv /\ LockInv /\ [Next]_vars => LockInv'
<1> SUFFICES ASSUME TypeOK, LockInv, [Next]_vars PROVE LockInv'
  BY DEF TypeInv
<1>1. ASSUME NEW b \in Bridges, KeeperStarts(b) PROVE LockInv'
  <2>1. PICK p \in Pids : Start(p, b, Installed)
    BY <1>1 DEF KeeperStarts
  <2>2. lock' = lock /\ setup' = setup
    BY <1>1 DEF KeeperStarts, codeVars
  <2>3. QED
    BY <2>1, <2>2, StartLock
<1>2. ASSUME NEW b \in Bridges, CooldownPasses(b) PROVE LockInv'
  BY <1>2, LockSame DEF CooldownPasses, procVars, codeVars
<1>3. CASE UNCHANGED vars
  BY <1>3, LockSame DEF vars, procVars, codeVars
<1>4. QED
  BY <1>1, <1>2, <1>3, UpdateLock, ProcessLock DEF Next

\* Two processes never poll for one attach bridge, whatever the update, the service managers
\* and the user start: the case of OnePoller that has no exception.
AttachBridgesExclude ==
  \A p, q \in Pids :
    p # q /\ Poller(p) /\ Poller(q) /\ of[p] = of[q] => Mode(of[p]) = "oneshot"

THEOREM OneAttachPoller == Spec => []AttachBridgesExclude
<1>1. Init => LockInv
  <2> SUFFICES ASSUME Init PROVE LockInv
    OBVIOUS
  <2>1. \A p \in Pids : state[p] \in {"up", "free"} /\ (state[p] = "up" => p \in Bridges /\ of[p] = p)
    BY DEF Init
  <2>2. \A b \in Bridges : setup[b].mode = "attach" => lock[b] = b
    BY DEF Init
  <2>3. QED
    BY <2>1, <2>2 DEF LockInv, Mode
<1>2. TypeInv /\ LockInv => AttachBridgesExclude
  <2> SUFFICES ASSUME TypeOK, LockInv, NEW p \in Pids, NEW q \in Pids, p # q,
                      Poller(p), Poller(q), of[p] = of[q], Mode(of[p]) # "oneshot"
               PROVE  FALSE
    BY DEF TypeInv, AttachBridgesExclude
  <2>1. Mode(of[p]) \in {"attach", "oneshot"}
    BY SupervisionAssumption DEF TypeOK, CodeTypes, ProcessTypes, Mode, SetupType
  <2>2. QED
    BY <2>1 DEF LockInv, Poller
<1>3. QED
  BY TypeInit, TypeStep, <1>1, LockStep, <1>2, PTL DEF Spec
=============================================================================
