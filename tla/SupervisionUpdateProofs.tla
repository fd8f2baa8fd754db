----------------------- MODULE SupervisionUpdateProofs -----------------------
(***************************************************************************)
(* What `agent2telegram update` leaves running: the bridges it was to      *)
(* restart, once each, on the new code.  For any number of bridges, pids,  *)
(* failures, deaths, and any mix of service managers.                      *)
(***************************************************************************)
EXTENDS SupervisionProofs

-----------------------------------------------------------------------------
(* The inductive invariant *)

\* Where the update is: before anything is stopped, after the selection was rechecked, and where it
\* works on the plan cur or has just stopped its process.
Early == upc \in {"status", "plan", "pull", "install", "recheck"}
Late == upc \in {"next", "kick", "term", "wait", "spawn", "probe"}
Stopping == upc \in {"kick", "term", "wait"}

\* The updater and the service managers know processes by pids that are not given away, and the
\* updater selects one process of a bridge at most.
PidInv ==
  /\ \A p \in sel : state[p] # "free"
  /\ \A p, q \in sel : of[p] = of[q] => p = q
  /\ \A pl \in plans : pl.p \in sel
  /\ \A pa, pb \in plans : pa.p = pb.p => pa = pb
  /\ \A b \in Bridges :
       IF Keeper(b) = "none" THEN kept[b] = None
       ELSE kept[b] \in Pids /\ of[kept[b]] = b /\ state[kept[b]] # "free"
PlaceInv ==
  /\ upc = "status" => sel = {}
  /\ upc \in {"status", "plan"} => plans = {}
  /\ Early => todo = {}
  /\ Stopping \/ upc = "spawn" => cur \notin todo
  /\ upc \in {"term", "wait", "spawn"} => cur.how = "env"

\* While the update stops nothing, a bridge has one process at most, and the one of a service manager
\* is the one it keeps.  With launchd, and without a service manager, that remains so.
SoleInv ==
  \A p, q \in Pids : Running(p) /\ Running(q) /\ of[p] = of[q] =>
    /\ Keeper(of[p]) = "none" => p = q
    /\ Keeper(of[p]) = "launchd" \/ (Keeper(of[p]) = "systemd" /\ Early) => p = kept[of[p]]

\* The updater replaces no process of launchd by itself.
EnvInv ==
  \A pl \in plans : pl.how = "env" /\ Keeper(of[pl.p]) = "launchd" =>
    ~Running(pl.p) /\ ~Late

\* Nobody but the updater starts a bridge without a service manager.
AloneInv ==
  \A q \in Pids : Running(q) =>
    /\ \A pl \in plans :
         /\ Keeper(of[pl.p]) = "none" /\ of[q] = of[pl.p] /\ Automatic(pl)
         /\ Late /\ (pl \in todo \/ (Stopping /\ pl = cur))
         => q = pl.p
    /\ upc = "spawn" /\ Keeper(of[cur.p]) = "none" => of[q] # of[cur.p]

\* The old code runs only where the update has not been yet.
OldInv ==
  \A q \in Pids, pl \in plans :
    Late /\ Automatic(pl) /\ Running(q) /\ of[q] = of[pl.p] /\ code[q] = "old" =>
      q = pl.p /\ (pl \in todo \/ (Stopping /\ pl = cur))

UpdInv == PidInv /\ PlaceInv /\ SoleInv /\ EnvInv /\ AloneInv /\ OldInv

LEMMA Facts ==
  ASSUME TypeInv
  PROVE  /\ \A p \in Pids : of[p] \in Bridges /\ p # None /\ (Running(p) => state[p] \notin {"free", "gone"})
         /\ \A pl \in plans : pl.p \in Pids /\ pl.how \in {"service", "env", "manual"}
         /\ sel \subseteq Pids /\ todo \subseteq plans
         /\ Stopping \/ upc \in {"spawn", "probe"} => cur \in plans
         /\ \A b \in Bridges : Keeper(b) \in {"none", "systemd", "launchd"}
<1>1. \A p \in Pids : p # None
  BY DEF Pids, None
<1>2. \A b \in Bridges : Keeper(b) \in {"none", "systemd", "launchd"}
  BY SupervisionAssumption DEF TypeInv, TypeOK, CodeTypes, Keeper, SetupType
<1>3. QED
  BY <1>1, <1>2 DEF TypeInv, TypeOK, ProcessTypes, UpdateTypes, Plans, Running, Stopping

-----------------------------------------------------------------------------
(* Steps that start no process *)

Quiet ==
  /\ UNCHANGED <<of, code, kept, setup>>
  /\ \A p \in Pids : (Running(p)' => Running(p)) /\ (state'[p] = "free" <=> state[p] = "free")

LEMMA QuietSame ==
  ASSUME UNCHANGED <<procVars, setup>>
  PROVE  Quiet /\ \A p : Running(p)' = Running(p)
BY DEF Quiet, procVars, Running

LEMMA QuietEnds ==
  ASSUME TypeInv, NEW p \in Pids, Running(p), Ends(p), setup' = setup
  PROVE  Quiet /\ ~Running(p)'
<1>1. \A q \in Pids : state'[q] = IF q = p THEN "gone" ELSE state[q]
  BY DEF Ends, TypeInv, TypeOK, ProcessTypes
<1>2. UNCHANGED <<of, code, kept>>
  BY DEF Ends
<1>3. QED
  BY <1>1, <1>2 DEF Quiet, Running

LEMMA QuietProcess ==
  ASSUME TypeInv, NEW p \in Pids, Process(p) \/ Die(p)
  PROVE  Quiet /\ UNCHANGED updateVars
<1>1. UNCHANGED <<updateVars, setup>> /\ Running(p)
  BY DEF Process, Boot, BootFails, ClaimNotice, SendNotice, StopEnds, Die, codeVars, Running
<1>2. CASE Ends(p)
  BY <1>1, <1>2, QuietEnds
<1>3. CASE ~Ends(p)
  <2>1. /\ state' = [state EXCEPT ![p] = "notice"] \/ state' = [state EXCEPT ![p] = "send"]
             \/ state' = [state EXCEPT ![p] = "up"] \/ state' = state
        /\ UNCHANGED <<of, code, kept>>
    BY <1>3 DEF Process, Boot, BootFails, ClaimNotice, SendNotice, NoticeAnswered,
               NoticeRefused, NoticeUncertain, NoticeOver, StopEnds, Die
  <2>2. \A q \in Pids : state'[q] = state[q] \/ (q = p /\ state'[q] \in {"notice", "send", "up"})
    BY <2>1 DEF TypeInv, TypeOK, ProcessTypes
  <2>3. QED
    BY <1>1, <2>1, <2>2 DEF Quiet, Running
<1>4. QED
  BY <1>2, <1>3

\* The parts of the invariant that only speak of processes and plans.
LEMMA QuietPids ==
  ASSUME TypeInv, UpdInv, Quiet, UNCHANGED <<sel, plans>>
  PROVE  PidInv'
<1>1. \A p \in sel : state'[p] # "free"
  BY Facts DEF UpdInv, PidInv, Quiet
<1>2. \A b \in Bridges :
       IF Keeper(b)' = "none" THEN kept'[b] = None
       ELSE kept'[b] \in Pids /\ of'[kept'[b]] = b /\ state'[kept'[b]] # "free"
  BY DEF UpdInv, PidInv, Quiet, Keeper
<1>3. QED
  BY <1>1, <1>2 DEF UpdInv, PidInv, Quiet

LEMMA QuietSole ==
  ASSUME UpdInv, Quiet, Early' => Early
  PROVE  SoleInv'
BY DEF UpdInv, SoleInv, Quiet, Keeper

LEMMA QuietEnv ==
  ASSUME TypeInv, UpdInv, Quiet, plans' = plans, Late' => Late
  PROVE  EnvInv'
BY Facts DEF UpdInv, EnvInv, Quiet, Keeper

\* The updater's place is the same, or it only forgot what it was doing.
LEMMA QuietPlans ==
  ASSUME TypeInv, UpdInv, Quiet, plans' = plans, todo' \subseteq todo, Late' => Late,
         \A pl \in plans : Automatic(pl) /\ pl \in todo => pl \in todo' \/ (Stopping' /\ pl = cur'),
         \A pl \in plans : Stopping' /\ pl = cur' => pl \in todo \/ (Stopping /\ pl = cur),
         \A pl \in plans : Stopping /\ pl = cur => Stopping' /\ pl = cur',
         upc' # "spawn"
  PROVE  AloneInv' /\ OldInv'
<1>1. \A pl \in plans : pl.p \in Pids
  BY Facts
<1>2. AloneInv'
  BY <1>1 DEF UpdInv, AloneInv, Quiet, Keeper, Automatic
<1>3. OldInv'
  BY <1>1 DEF UpdInv, OldInv, Quiet, Automatic
<1>4. QED
  BY <1>2, <1>3

LEMMA SoftStep ==
  ASSUME TypeInv, UpdInv, Quiet, UNCHANGED updateVars
  PROVE  UpdInv'
<1>1. UNCHANGED <<upc, sel, plans, todo, cur>>
  BY DEF updateVars
<1>2. PidInv'
  BY <1>1, QuietPids
<1>3. PlaceInv'
  BY <1>1 DEF UpdInv, PlaceInv, Early, Stopping
<1>4. SoleInv' /\ EnvInv'
  BY <1>1, QuietSole, QuietEnv DEF Early, Late
<1>5. AloneInv'
  BY <1>1, Facts DEF UpdInv, AloneInv, Quiet, Keeper, Automatic, Late, Stopping
<1>6. OldInv'
  BY <1>1, Facts DEF UpdInv, OldInv, Quiet, Automatic, Late, Stopping
<1>7. QED
  BY <1>2, <1>3, <1>4, <1>5, <1>6 DEF UpdInv

-----------------------------------------------------------------------------
(* The steps of the update that start no process *)

\* One process per bridge is selected.
LEMMA ScanStep ==
  ASSUME TypeInv, UpdInv, Scan
  PROVE  UpdInv'
<1>1. /\ upc = "status" /\ upc' = "plan" /\ UNCHANGED <<plans, todo, cur, procVars, setup>>
      /\ plans = {} /\ Early
      /\ \A p \in sel' : p \in Pids /\ Running(p)
  BY DEF Scan, Step, UpdInv, PlaceInv, codeVars, Early
<1>2. Quiet
  BY <1>1, QuietSame
<1>3. \A p, q \in sel' : of[p] = of[q] => p = q
  <2> SUFFICES ASSUME NEW p \in sel', NEW q \in sel', of[p] = of[q] PROVE p = q
    OBVIOUS
  <2>1. p \in Pids /\ q \in Pids /\ Running(p) /\ Running(q)
    BY <1>1
  <2>2. Keeper(of[p]) \in {"none", "systemd", "launchd"}
    BY <2>1, Facts
  <2>3. QED
    BY <1>1, <2>1, <2>2 DEF UpdInv, SoleInv
<1>4. \A p \in sel' : state[p] # "free"
  BY <1>1, Facts
<1>5. PidInv'
  BY <1>1, <1>3, <1>4 DEF UpdInv, PidInv, procVars, Keeper
<1>6. PlaceInv'
  BY <1>1 DEF UpdInv, PlaceInv, Early, Stopping
<1>7. SoleInv'
  BY <1>1, <1>2, QuietSole
<1>8. EnvInv' /\ AloneInv' /\ OldInv'
  BY <1>1 DEF EnvInv, AloneInv, OldInv
<1>9. QED
  BY <1>5, <1>6, <1>7, <1>8 DEF UpdInv

\* What runs under launchd is restarted by launchd.
LEMMA PlanStep ==
  ASSUME TypeInv, UpdInv, Plan
  PROVE  UpdInv'
<1>1. /\ upc = "plan" /\ upc' = "pull" /\ UNCHANGED <<sel, todo, cur, procVars, setup>> /\ Early
      /\ plans' = {[p |-> p, how |-> How(p)] : p \in sel}
  BY DEF Plan, Step, codeVars, Early
<1>2. Quiet /\ \A p : Running(p)' = Running(p)
  BY <1>1, QuietSame
<1>3. PidInv'
  <2>1. \A pl \in plans' : pl.p \in sel /\ pl = [p |-> pl.p, how |-> How(pl.p)]
    BY <1>1
  <2>2. QED
    BY <1>1, <2>1 DEF UpdInv, PidInv, procVars, Keeper
<1>4. PlaceInv'
  BY <1>1 DEF UpdInv, PlaceInv, Early, Stopping
<1>5. SoleInv'
  BY <1>1, <1>2, QuietSole
<1>6. EnvInv'
  <2> SUFFICES ASSUME NEW p \in sel, How(p) = "env", Keeper(of[p]) = "launchd", Running(p)
               PROVE  FALSE
    BY <1>1, <1>2 DEF EnvInv, Late, procVars, Keeper
  <2>1. p \in Pids
    BY Facts
  <2>2. kept[of[p]] = p
    BY <2>1 DEF UpdInv, SoleInv
  <2>3. QED
    BY <2>2 DEF How
<1>7. AloneInv' /\ OldInv'
  BY <1>1 DEF AloneInv, OldInv, Late
<1>8. QED
  BY <1>3, <1>4, <1>5, <1>6, <1>7 DEF UpdInv

\* Whatever is to be restarted still runs, and nothing else of its bridge does.
LEMMA RecheckStep ==
  ASSUME TypeInv, UpdInv, Recheck
  PROVE  UpdInv'
<1>1. /\ upc = "recheck" /\ upc' = "next" /\ UNCHANGED <<sel, plans, cur, procVars, setup>> /\ Early
      /\ todo' = plans /\ \A pl \in plans : Automatic(pl) => Running(pl.p)
  BY DEF Recheck, Step, codeVars, Early
<1>2. Quiet /\ \A p : Running(p)' = Running(p)
  BY <1>1, QuietSame
<1>3. \A q \in Pids, pl \in plans : Automatic(pl) /\ Running(q) /\ of[q] = of[pl.p] => q = pl.p
  <2> SUFFICES ASSUME NEW q \in Pids, NEW pl \in plans, Running(pl.p), Running(q), of[q] = of[pl.p]
               PROVE  q = pl.p
    BY <1>1
  <2>1. pl.p \in Pids /\ Keeper(of[q]) \in {"none", "systemd", "launchd"}
    BY Facts
  <2>2. QED
    BY <1>1, <2>1 DEF UpdInv, SoleInv
<1>4. PidInv'
  BY <1>1, <1>2, QuietPids
<1>5. PlaceInv'
  BY <1>1 DEF UpdInv, PlaceInv, Early, Stopping
<1>6. SoleInv'
  BY <1>1, <1>2, QuietSole
<1>7. EnvInv'
  BY <1>1, <1>2 DEF UpdInv, EnvInv, Automatic, procVars, Keeper
<1>8. AloneInv'
  BY <1>1, <1>2, <1>3 DEF AloneInv, Automatic, procVars, Keeper
<1>9. OldInv'
  BY <1>1, <1>2, <1>3 DEF OldInv, Automatic, procVars
<1>10. QED
  BY <1>4, <1>5, <1>6, <1>7, <1>8, <1>9 DEF UpdInv

LEMMA NextPlanStep ==
  ASSUME TypeInv, UpdInv, NextPlan
  PROVE  UpdInv'
<1>1. PICK pl \in todo :
        /\ cur' = pl /\ todo' = todo \ {pl} /\ upc = "next"
        /\ upc' = IF pl.how = "env" THEN "term" ELSE IF pl.how = "service" THEN "kick" ELSE "next"
  BY DEF NextPlan, Step
<1>2. UNCHANGED <<sel, plans, procVars, setup>>
  BY DEF NextPlan, codeVars
<1>3. Quiet
  BY <1>2, QuietSame
<1>4. pl \in plans /\ pl.how \in {"service", "env", "manual"}
  BY <1>1, Facts
<1>5. PidInv'
  BY <1>2, <1>3, QuietPids
<1>6. PlaceInv'
  BY <1>1 DEF UpdInv, PlaceInv, Early, Stopping
<1>7. SoleInv' /\ EnvInv'
  BY <1>1, <1>2, <1>3, QuietSole, QuietEnv DEF Early, Late
<1>8. AloneInv' /\ OldInv'
  <2>1. \A x \in plans : Automatic(x) /\ x \in todo => x \in todo' \/ (Stopping' /\ x = cur')
    BY <1>1, <1>4 DEF Automatic, Stopping
  <2>2. /\ Late /\ ~Stopping /\ todo' \subseteq todo /\ cur' \in todo /\ upc' # "spawn"
    BY <1>1 DEF Late, Stopping
  <2>3. QED
    BY <1>2, <1>3, <2>1, <2>2, QuietPlans
<1>9. QED
  BY <1>5, <1>6, <1>7, <1>8 DEF UpdInv

\* Steps that neither look at the plans nor touch a process, and whatever fails.
LEMMA OtherStep ==
  ASSUME TypeInv, UpdInv,
         \/ Pull \/ Install \/ Probe \/ Finish
         \/ ScanFails \/ PlanFails \/ PullFails \/ InstallFails \/ RecheckFails \/ KickstartFails
         \/ WaitFails \/ ProbeFails
  PROVE  UpdInv'
<1>1. /\ UNCHANGED <<sel, plans, todo, cur, procVars, setup>>
      /\ \/ upc = "pull" /\ upc' = "install"
         \/ upc = "install" /\ upc' = "recheck"
         \/ upc = "probe" /\ upc' = "next"
         \/ upc = "next" /\ upc' = "done"
         \/ upc' = "failed"
  BY DEF Pull, Install, Probe, Finish, ScanFails, PlanFails, PullFails, InstallFails, RecheckFails,
         KickstartFails, WaitFails, ProbeFails, Fails, Step, Rest, procVars, codeVars
<1>2. Quiet
  BY <1>1, QuietSame
<1>3. PidInv'
  BY <1>1, <1>2, QuietPids
<1>4. PlaceInv'
  BY <1>1 DEF UpdInv, PlaceInv, Early, Stopping
<1>5. SoleInv' /\ EnvInv'
  BY <1>1, <1>2, QuietSole, QuietEnv DEF Early, Late
<1>6. AloneInv' /\ OldInv'
  <2>1. CASE Late'
    BY <1>1, <1>2, <2>1, QuietPlans DEF Late, Stopping
  <2>2. CASE ~Late'
    BY <1>1, <2>2 DEF AloneInv, OldInv, Late
  <2>3. QED
    BY <2>1, <2>2
<1>7. QED
  BY <1>3, <1>4, <1>5, <1>6 DEF UpdInv

LEMMA TerminateStep ==
  ASSUME TypeInv, UpdInv, Terminate
  PROVE  UpdInv'
<1>1. /\ UNCHANGED <<sel, plans, todo, cur, setup>> /\ upc = "term" /\ upc' = "wait"
  BY DEF Terminate, Step, codeVars
<1>2. cur \in plans /\ cur.p \in Pids
  BY <1>1, Facts DEF Stopping
<1>3. Quiet
  <2>1. CASE Running(cur.p) /\ Ends(cur.p)
    BY <1>1, <1>2, <2>1, QuietEnds
  <2>2. CASE UNCHANGED <<procVars, noticeVars>>
    BY <1>1, <2>2, QuietSame
  <2>3. CASE Poller(cur.p) /\ state' = [state EXCEPT ![cur.p] = "stopping"] /\ UNCHANGED <<of, code, kept>>
    <3>1. \A q \in Pids : state'[q] = IF q = cur.p THEN "stopping" ELSE state[q]
      BY <2>3 DEF TypeInv, TypeOK, ProcessTypes
    <3>2. QED
      BY <1>1, <2>3, <3>1 DEF Quiet, Running, Poller
  <2>4. QED
    BY <2>1, <2>2, <2>3 DEF Terminate
<1>4. PidInv'
  BY <1>1, <1>3, QuietPids
<1>5. PlaceInv'
  BY <1>1 DEF UpdInv, PlaceInv, Early, Stopping
<1>6. SoleInv' /\ EnvInv'
  BY <1>1, <1>3, QuietSole, QuietEnv DEF Early, Late
<1>7. AloneInv' /\ OldInv'
  BY <1>1, <1>3, QuietPlans DEF Late, Stopping
<1>8. QED
  BY <1>4, <1>5, <1>6, <1>7 DEF UpdInv

\* The bridge has no process any more.
LEMMA WaitGoneStep ==
  ASSUME TypeInv, UpdInv, WaitGone
  PROVE  UpdInv'
<1>1. /\ UNCHANGED <<sel, plans, todo, cur, setup>> /\ upc = "wait" /\ upc' = "spawn"
  BY DEF WaitGone, Step, Rest, codeVars
<1>2. cur \in plans /\ cur.p \in Pids /\ cur.how = "env"
  BY <1>1, Facts DEF Stopping, UpdInv, PlaceInv
<1>3. Quiet /\ ~Running(cur.p)'
  <2>1. CASE Running(cur.p) /\ Ends(cur.p)
    <3>1. PICK p \in Pids : p = cur.p
      BY <1>2
    <3>2. Quiet /\ ~Running(p)'
      BY <1>1, <2>1, <3>1, QuietEnds
    <3>3. QED
      BY <1>1, <3>1, <3>2
  <2>2. CASE ~Running(cur.p) /\ UNCHANGED <<procVars, noticeVars>>
    BY <1>1, <2>2, QuietSame DEF procVars, Running
  <2>3. QED
    BY <2>1, <2>2 DEF WaitGone
<1>4. PidInv'
  BY <1>1, <1>3, QuietPids
<1>5. PlaceInv'
  BY <1>1 DEF UpdInv, PlaceInv, Early, Stopping
<1>6. SoleInv' /\ EnvInv'
  BY <1>1, <1>3, QuietSole, QuietEnv DEF Early, Late
<1>7. Late /\ Stopping /\ Late' /\ ~Stopping'
  BY <1>1 DEF Late, Stopping
<1>8. AloneInv'
  <2>1. ASSUME NEW q \in Pids, Running(q)', Keeper(of[cur.p]) = "none", of[q] = of[cur.p] PROVE FALSE
    <3>1. Running(q) /\ Automatic(cur)
      BY <1>2, <1>3, <2>1 DEF Quiet, Automatic
    <3>2. q = cur.p
      BY <1>2, <1>7, <2>1, <3>1 DEF UpdInv, AloneInv
    <3>3. QED
      BY <1>1, <1>3, <2>1, <3>2
  <2>2. ASSUME NEW q \in Pids, Running(q)', NEW pl \in plans, Keeper(of[pl.p]) = "none",
               of[q] = of[pl.p], Automatic(pl), pl \in todo
        PROVE  q = pl.p
    BY <1>3, <1>7, <2>2 DEF UpdInv, AloneInv, Quiet
  <2>3. QED
    BY <1>1, <1>2, <1>3, <1>7, <2>1, <2>2 DEF AloneInv, Quiet, Keeper, Automatic
<1>9. OldInv'
  <2> SUFFICES ASSUME NEW q \in Pids, NEW pl \in plans, Automatic(pl), Running(q)',
                      of[q] = of[pl.p], code[q] = "old"
               PROVE  q = pl.p /\ pl \in todo
    BY <1>1, <1>3 DEF OldInv, Quiet, Automatic
  <2>1. q = pl.p /\ (pl \in todo \/ pl = cur)
    BY <1>3, <1>7 DEF UpdInv, OldInv, Quiet
  <2>2. pl # cur
    BY <1>1, <1>3, <2>1
  <2>3. QED
    BY <2>1, <2>2
<1>10. QED
  BY <1>4, <1>5, <1>6, <1>8, <1>9 DEF UpdInv

-----------------------------------------------------------------------------
(* Steps that start a process *)

\* Process p of bridge b is new, with code c, and maybe kept by the service manager.
Started(p, b, c) ==
  /\ ~Running(p) /\ p \notin sel /\ \A a \in Bridges \ {b} : kept[a] # p
  /\ Running(p)' /\ state'[p] # "free" /\ of'[p] = b /\ code'[p] = c
  /\ \A q \in Pids \ {p} : /\ of'[q] = of[q] /\ code'[q] = code[q] /\ (Running(q)' => Running(q))
                           /\ state'[q] = "free" <=> state[q] = "free"
  /\ \/ kept' = kept
     \/ Keeper(b) # "none" /\ kept' = [kept EXCEPT ![b] = p]
  /\ setup' = setup

LEMMA UnusedFacts ==
  ASSUME TypeInv, UpdInv, NEW p \in Pids, NEW b \in Bridges, Unused(p, b)
  PROVE  ~Running(p) /\ p \notin sel /\ \A a \in Bridges \ {b} : kept[a] # p
<1>1. ~Running(p)
  BY DEF Unused, Running
<1>2. p \notin sel
  BY DEF Unused, UpdInv, PidInv
<1>3. ASSUME NEW a \in Bridges \ {b}, kept[a] = p PROVE FALSE
  <2>1. Keeper(a) # "none"
    BY <1>3, Facts DEF UpdInv, PidInv
  <2>2. state[p] # "free"
    BY <1>3, <2>1 DEF UpdInv, PidInv
  <2>3. QED
    BY <1>3, <2>2 DEF Unused
<1>4. QED
  BY <1>1, <1>2, <1>3

LEMMA StartStarted ==
  ASSUME TypeInv, UpdInv, NEW p \in Pids, NEW b \in Bridges, NEW c \in {"old", "new"}, Start(p, b, c),
         kept' = kept \/ (Keeper(b) # "none" /\ kept' = [kept EXCEPT ![b] = p]), setup' = setup
  PROVE  Started(p, b, c)
<1>1. /\ state' = [state EXCEPT ![p] = "boot"] /\ of' = [of EXCEPT ![p] = b]
      /\ code' = [code EXCEPT ![p] = c] /\ Unused(p, b)
  BY DEF Start, Free
<1>2. \A q \in Pids : /\ state'[q] = IF q = p THEN "boot" ELSE state[q]
                      /\ of'[q] = IF q = p THEN b ELSE of[q]
                      /\ code'[q] = IF q = p THEN c ELSE code[q]
  BY <1>1 DEF TypeInv, TypeOK, ProcessTypes
<1>3. QED
  BY <1>1, <1>2, UnusedFacts DEF Started, Running

LEMMA StartedPids ==
  ASSUME TypeInv, UpdInv, NEW p \in Pids, NEW b \in Bridges, NEW c, Started(p, b, c),
         UNCHANGED <<sel, plans>>
  PROVE  PidInv'
<1>1. \A q \in sel : q \in Pids /\ q # p
  BY Facts DEF Started
<1>2. ASSUME NEW a \in Bridges
      PROVE  IF Keeper(a) = "none" THEN kept'[a] = None
             ELSE kept'[a] \in Pids /\ of'[kept'[a]] = a /\ state'[kept'[a]] # "free"
  <2>1. kept'[a] = kept[a] \/ (a = b /\ Keeper(b) # "none" /\ kept'[a] = p)
    BY DEF Started, TypeInv, TypeOK, ProcessTypes
  <2>2. CASE a = b /\ kept'[a] = p
    BY <2>1, <2>2, Facts DEF Started, UpdInv, PidInv
  <2>3. CASE kept'[a] = kept[a] /\ kept[a] # p
    BY <2>3 DEF Started, UpdInv, PidInv
  <2>4. QED
    BY <2>1, <2>2, <2>3 DEF Started
<1>3. setup' = setup
  BY DEF Started
<1>4. QED
  BY <1>1, <1>2, <1>3 DEF Started, UpdInv, PidInv, Keeper

\* Nothing else of the bridge runs: it stays with one process.
LEMMA StartedSole ==
  ASSUME TypeInv, UpdInv, NEW p \in Pids, NEW b \in Bridges, NEW c, Started(p, b, c), Early' => Early,
         Keeper(b) = "systemd" => ~Early' \/ kept'[b] = p,
         Keeper(b) = "launchd" => kept'[b] = p,
         Keeper(b) = "none" \/ Keeper(b) = "launchd" \/ Early' =>
            \A q \in Pids : Running(q)' /\ of'[q] = b => q = p
  PROVE  SoleInv'
<1> SUFFICES ASSUME NEW q \in Pids, NEW r \in Pids, Running(q)', Running(r)', of'[q] = of'[r]
             PROVE  /\ Keeper(of'[q]) = "none" => q = r
                    /\ Keeper(of'[q]) = "launchd" \/ (Keeper(of'[q]) = "systemd" /\ Early')
                          => q = kept'[of'[q]]
  BY DEF SoleInv, Started, Keeper
<1>1. CASE of'[q] = b
  BY <1>1
<1>2. CASE of'[q] # b
  <2>1. q # p /\ r # p /\ of'[q] = of[q] /\ of'[r] = of[r] /\ Running(q) /\ Running(r)
    BY <1>2 DEF Started
  <2>2. of[q] \in Bridges /\ kept'[of[q]] = kept[of[q]]
    BY <1>2, <2>1, Facts DEF Started, TypeInv, TypeOK, ProcessTypes
  <2>3. QED
    BY <2>1, <2>2 DEF UpdInv, SoleInv
<1>3. QED
  BY <1>1, <1>2

LEMMA StartedEnv ==
  ASSUME TypeInv, UpdInv, NEW p \in Pids, NEW b \in Bridges, NEW c, Started(p, b, c),
         plans' = plans, Late' => Late
  PROVE  EnvInv'
<1>1. \A pl \in plans : pl.p \in Pids /\ pl.p # p
  BY Facts DEF Started, UpdInv, PidInv
<1>2. QED
  BY <1>1 DEF UpdInv, EnvInv, Started, Keeper

LEMMA KeeperStep ==
  ASSUME TypeInv, UpdInv, UpdateInv, NEW b \in Bridges, KeeperStarts(b)
  PROVE  UpdInv'
<1>1. PICK p \in Pids : Start(p, b, Installed) /\ kept' = [kept EXCEPT ![b] = p]
  BY DEF KeeperStarts
<1>2. /\ Keeper(b) # "none" /\ state[kept[b]] = "gone"
      /\ UNCHANGED <<setup, pip, clone, site, upc, sel, plans, todo, cur>>
  BY DEF KeeperStarts, codeVars, updateVars
<1>3. PICK c \in {"old", "new"} : c = Installed /\ (Late => c = "new")
  BY InstalledType DEF UpdateInv, NewCode, Installed, Late, TypeInv
<1>4. Started(p, b, c)
  BY <1>1, <1>2, <1>3, StartStarted
<1>5. kept'[b] = p
  BY <1>1 DEF TypeInv, TypeOK, ProcessTypes
<1>6. PidInv'
  BY <1>2, <1>4, StartedPids
<1>7. PlaceInv'
  BY <1>2 DEF UpdInv, PlaceInv, Early, Stopping
<1>8. SoleInv'
  <2>1. ASSUME NEW q \in Pids, Running(q), of[q] = b, Keeper(b) = "launchd" \/ Early PROVE FALSE
    <3>1. Keeper(b) \in {"systemd", "launchd"}
      BY <1>2, Facts
    <3>2. q = kept[b]
      BY <2>1, <3>1 DEF UpdInv, SoleInv
    <3>3. QED
      BY <1>2, <2>1, <3>2 DEF Running
  <2>2. Keeper(b) = "launchd" \/ Early' => \A q \in Pids : Running(q)' /\ of'[q] = b => q = p
    BY <1>2, <1>4, <2>1 DEF Started, Early
  <2>3. QED
    BY <1>2, <1>4, <1>5, <2>2, StartedSole DEF Early
<1>9. EnvInv'
  BY <1>2, <1>4, StartedEnv DEF Late
<1>10. \A pl \in plans : pl.p \in Pids /\ pl.p # p /\ of'[pl.p] = of[pl.p]
  BY <1>4, Facts DEF Started, UpdInv, PidInv
<1>11. AloneInv'
  <2>1. upc = "spawn" => cur \in plans
    BY Facts
  <2>2. QED
    BY <1>2, <1>4, <1>10, <2>1 DEF UpdInv, AloneInv, Started, Keeper, Automatic, Late, Stopping
<1>12. OldInv'
  BY <1>2, <1>3, <1>4, <1>10 DEF UpdInv, OldInv, Started, Automatic, Late, Stopping
<1>13. QED
  BY <1>6, <1>7, <1>8, <1>9, <1>11, <1>12 DEF UpdInv

\* launchd replaces the one process it has.
LEMMA KickstartStep ==
  ASSUME TypeInv, UpdInv, UpdateInv, Kickstart
  PROVE  UpdInv'
<1>1. /\ upc = "kick" /\ upc' = "next" /\ kept[of[cur.p]] = cur.p
      /\ UNCHANGED <<setup, pip, clone, site, sel, plans, todo, cur>>
  BY DEF Kickstart, Step, codeVars
<1>2. cur \in plans /\ cur.p \in Pids /\ of[cur.p] \in Bridges
  BY <1>1, Facts DEF Stopping
<1>3. PICK k \in Pids, b \in Bridges : k = cur.p /\ b = of[cur.p]
  BY <1>2
<1>4. PICK p \in Pids :
        /\ Unused(p, b) /\ Running(k)
        /\ state' = [state EXCEPT ![k] = "gone", ![p] = "boot"]
        /\ of' = [of EXCEPT ![p] = b]
        /\ code' = [code EXCEPT ![p] = Installed]
        /\ kept' = [kept EXCEPT ![b] = p]
  BY <1>3 DEF Kickstart, Free
<1>5. PICK c \in {"old", "new"} : c = Installed /\ c = "new"
  BY <1>1, InstalledType DEF UpdateInv, NewCode, Installed, TypeInv
<1>6. Keeper(b) # "none"
  BY <1>1, <1>2, <1>3, Facts DEF UpdInv, PidInv
<1>7. Started(p, b, c) /\ ~Running(k)'
  <2>1. p # k
    BY <1>4 DEF Unused, Running
  <2>2. \A q \in Pids : /\ state'[q] = IF q = p THEN "boot" ELSE IF q = k THEN "gone" ELSE state[q]
                        /\ of'[q] = IF q = p THEN b ELSE of[q]
                        /\ code'[q] = IF q = p THEN c ELSE code[q]
    BY <1>4, <1>5 DEF TypeInv, TypeOK, ProcessTypes
  <2>3. state[k] # "free"
    BY <1>4 DEF Running
  <2>4. ASSUME NEW q \in Pids \ {p}
        PROVE  /\ of'[q] = of[q] /\ code'[q] = code[q] /\ (Running(q)' => Running(q))
               /\ state'[q] = "free" <=> state[q] = "free"
    <3>1. CASE q = k
      <4>1. state'[q] = "gone" /\ of'[q] = of[q] /\ code'[q] = code[q]
        BY <2>2, <3>1
      <4>2. state[q] # "free"
        BY <2>3, <3>1
      <4>3. QED
        BY <4>1, <4>2 DEF Running
    <3>2. CASE q # k
      BY <2>2, <3>2 DEF Running
    <3>3. QED
      BY <3>1, <3>2
  <2>5. Running(p)' /\ state'[p] # "free" /\ of'[p] = b /\ code'[p] = c /\ ~Running(k)'
    BY <2>1, <2>2 DEF Running
  <2>6. QED
    BY <1>1, <1>4, <1>6, <2>4, <2>5, UnusedFacts DEF Started
<1>8. PidInv'
  BY <1>1, <1>7, StartedPids
<1>9. PlaceInv'
  BY <1>1 DEF UpdInv, PlaceInv, Early, Stopping
<1>10. ASSUME NEW q \in Pids, Running(q)', of'[q] = b, Keeper(b) = "launchd" PROVE q = p
  <2>1. CASE q # p
    <3>1. Running(q) /\ of[q] = b
      BY <1>7, <1>10, <2>1 DEF Started
    <3>2. q = kept[b]
      BY <1>10, <3>1 DEF UpdInv, SoleInv
    <3>3. QED
      BY <1>1, <1>3, <1>7, <1>10, <3>2
  <2>2. QED
    BY <2>1
<1>11. SoleInv'
  <2>1. kept'[b] = p /\ ~Early'
    BY <1>1, <1>4 DEF Early, TypeInv, TypeOK, ProcessTypes
  <2>2. QED
    BY <1>6, <1>7, <1>10, <2>1, StartedSole
<1>12. EnvInv'
  BY <1>1, <1>7, StartedEnv DEF Late
<1>13. \A pl \in plans : pl.p \in Pids /\ pl.p # p /\ of'[pl.p] = of[pl.p]
  BY <1>7, Facts DEF Started, UpdInv, PidInv
<1>14. Late /\ Stopping /\ Late' /\ ~Stopping' /\ upc' # "spawn"
  BY <1>1 DEF Late, Stopping
<1>15. AloneInv'
  BY <1>1, <1>6, <1>7, <1>13, <1>14 DEF UpdInv, AloneInv, Started, Keeper, Automatic
<1>16. OldInv'
  <2> SUFFICES ASSUME NEW q \in Pids, NEW pl \in plans, Automatic(pl), Running(q)',
                      of'[q] = of[pl.p], code'[q] = "old"
               PROVE  q = pl.p /\ pl \in todo
    BY <1>1, <1>13 DEF OldInv, Automatic
  <2>1. q # p
    BY <1>5, <1>7 DEF Started
  <2>2. q = pl.p /\ (pl \in todo \/ pl = cur)
    BY <1>7, <1>14, <2>1 DEF UpdInv, OldInv, Started
  <2>3. pl # cur
    BY <1>3, <1>7, <2>2
  <2>4. QED
    BY <2>2, <2>3
<1>17. QED
  BY <1>8, <1>9, <1>11, <1>12, <1>15, <1>16 DEF UpdInv

\* The updater starts the replacement where it stopped the process.
LEMMA SpawnStep ==
  ASSUME TypeInv, UpdInv, UpdateInv, Spawn
  PROVE  UpdInv'
<1>1. /\ upc = "spawn" /\ upc' = "probe" /\ UNCHANGED <<setup, kept, sel, plans, todo, cur>>
  BY DEF Spawn, Step, codeVars
<1>2. cur \in plans /\ cur.p \in Pids /\ of[cur.p] \in Bridges /\ cur.how = "env" /\ cur \notin todo
  BY <1>1, Facts DEF UpdInv, PlaceInv
<1>3. PICK b \in Bridges : b = of[cur.p]
  BY <1>2
<1>4. PICK p \in Pids : Start(p, b, clone)
  BY <1>3 DEF Spawn
<1>5. PICK c \in {"old", "new"} : c = clone /\ c = "new"
  BY <1>1 DEF UpdateInv, NewCode
<1>6. Started(p, b, c)
  BY <1>1, <1>4, <1>5, StartStarted
<1>7. PidInv'
  BY <1>1, <1>6, StartedPids
<1>8. PlaceInv'
  BY <1>1 DEF UpdInv, PlaceInv, Early, Stopping
<1>9. Keeper(b) # "launchd"
  BY <1>1, <1>2, <1>3 DEF UpdInv, EnvInv, Late
<1>10. Keeper(b) = "none" => \A q \in Pids : Running(q)' /\ of'[q] = b => q = p
  BY <1>1, <1>3, <1>6 DEF UpdInv, AloneInv, Started
<1>11. SoleInv'
  <2>1. ~Early'
    BY <1>1 DEF Early
  <2>2. QED
    BY <1>6, <1>9, <1>10, <2>1, StartedSole
<1>12. EnvInv'
  BY <1>1, <1>6, StartedEnv DEF Late
<1>13. \A pl \in plans : pl.p \in Pids /\ pl.p # p /\ of'[pl.p] = of[pl.p]
  BY <1>6, Facts DEF Started, UpdInv, PidInv
<1>14. \A pl \in todo : pl \in plans /\ of[pl.p] # b
  BY <1>2, <1>3, Facts DEF UpdInv, PidInv
<1>15. Late /\ ~Stopping /\ Late' /\ ~Stopping' /\ upc' # "spawn"
  BY <1>1 DEF Late, Stopping
<1>16. AloneInv'
  BY <1>1, <1>6, <1>13, <1>14, <1>15 DEF UpdInv, AloneInv, Started, Keeper, Automatic
<1>17. OldInv'
  BY <1>1, <1>5, <1>6, <1>13, <1>15 DEF UpdInv, OldInv, Started, Automatic
<1>18. QED
  BY <1>7, <1>8, <1>11, <1>12, <1>16, <1>17 DEF UpdInv

-----------------------------------------------------------------------------
(* The theorems *)

LEMMA UpdInit == Init => UpdInv
<1> SUFFICES ASSUME Init PROVE UpdInv
  OBVIOUS
<1>1. /\ upc = "status" /\ sel = {} /\ plans = {} /\ todo = {}
      /\ \A p \in Pids : /\ Running(p) => p \in Bridges /\ of[p] = p
                         /\ p \in Bridges => of[p] = p /\ state[p] = "up"
      /\ \A b \in Bridges : kept[b] = IF Keeper(b) # "none" THEN b ELSE None
  BY DEF Init, Running, Keeper
<1>2. \A b \in Bridges : b \in Pids
  BY SupervisionAssumption DEF Bridges, Pids
<1>3. PidInv
  BY <1>1, <1>2 DEF PidInv
<1>4. PlaceInv
  BY <1>1 DEF PlaceInv, Stopping
<1>5. SoleInv
  BY <1>1 DEF SoleInv
<1>6. EnvInv /\ AloneInv /\ OldInv
  BY <1>1 DEF EnvInv, AloneInv, OldInv
<1>7. QED
  BY <1>3, <1>4, <1>5, <1>6 DEF UpdInv

LEMMA UpdStep == TypeInv /\ UpdateInv /\ UpdInv /\ [Next]_vars => UpdInv'
<1> SUFFICES ASSUME TypeInv, UpdateInv, UpdInv, [Next]_vars PROVE UpdInv'
  OBVIOUS
<1>1. CASE Update
  BY <1>1, ScanStep, PlanStep, RecheckStep, NextPlanStep, OtherStep, TerminateStep, WaitGoneStep,
     KickstartStep, SpawnStep DEF Update
<1>2. ASSUME NEW p \in Pids, Process(p) \/ Die(p) PROVE UpdInv'
  BY <1>2, QuietProcess, SoftStep
<1>3. ASSUME NEW b \in Bridges, KeeperStarts(b) PROVE UpdInv'
  BY <1>3, KeeperStep
<1>4. ASSUME NEW b \in Bridges, CooldownPasses(b) PROVE UpdInv'
  BY <1>4, QuietSame, SoftStep DEF CooldownPasses, codeVars
<1>5. CASE UNCHANGED vars
  BY <1>5, QuietSame, SoftStep DEF vars, codeVars
<1>6. QED
  BY <1>1, <1>2, <1>3, <1>4, <1>5 DEF Next

\* While the update replaces processes, and after it, a bridge has the processes UpdInv allows.
THEOREM UpdateInvariant == Spec => [](TypeInv /\ UpdateInv /\ UpdInv)
<1>1. Init => UpdateInv
  BY DEF Init, UpdateInv
<1>2. QED
  BY TypeInit, TypeStep, <1>1, UpdateInvStep, UpdInit, UpdStep, PTL DEF Spec

\* Two processes never ask Telegram for the updates of one bot, whoever starts, stops and replaces
\* them, except for a one-shot bridge that systemd starts again behind the updater's back.
THEOREM PollersExclude == Spec => []OnePoller
<1>1. TypeInv /\ UpdInv /\ AttachBridgesExclude => OnePoller
  <2> SUFFICES ASSUME TypeInv, UpdInv, AttachBridgesExclude, NEW p \in Pids, NEW q \in Pids,
                      p # q, Poller(p), Poller(q), of[p] = of[q]
               PROVE  Mode(of[p]) = "oneshot" /\ Keeper(of[p]) = "systemd"
    BY DEF OnePoller
  <2>1. Mode(of[p]) = "oneshot"
    BY DEF AttachBridgesExclude
  <2>2. Running(p) /\ Running(q) /\ Keeper(of[p]) \in {"none", "systemd", "launchd"}
    BY Facts DEF Running, Poller
  <2>3. Keeper(of[p]) # "none" /\ Keeper(of[p]) # "launchd"
    BY <2>2 DEF UpdInv, SoleInv
  <2>4. QED
    BY <2>1, <2>2, <2>3
<1>2. QED
  BY UpdateInvariant, OneAttachPoller, <1>1, PTL

\* An update that reports success leaves no process of a bridge it was to restart on the old code:
\* the last such process is the one the updater, or launchd for it, has yet to stop.
THEOREM SuccessIsNewCode == Spec => SuccessMeansNewCode
<1>1. TypeInv /\ UpdateInv /\ UpdInv /\ [Next]_vars =>
        [upc # "done" /\ upc' = "done" =>
           \A pl \in plans, q \in Pids :
             Automatic(pl) /\ Running(q) /\ of[q] = of[pl.p] => code[q] = "new"]_vars
  <2> SUFFICES ASSUME TypeInv, UpdInv, Next, upc # "done", upc' = "done", NEW pl \in plans, NEW q \in Pids,
                      Automatic(pl), Running(q), of[q] = of[pl.p], code[q] # "new"
               PROVE  FALSE
    BY DEF vars, updateVars
  <2>1. Finish
    <3>1. ASSUME NEW p \in Pids, Process(p) \/ Die(p) PROVE FALSE
      BY <3>1, QuietProcess DEF updateVars
    <3>2. ASSUME NEW b \in Bridges, KeeperStarts(b) \/ CooldownPasses(b) PROVE FALSE
      BY <3>2 DEF KeeperStarts, CooldownPasses, updateVars
    <3>3. CASE Update
      BY <3>3 DEF Update, Scan, ScanFails, Plan, PlanFails, Pull, PullFails, Install, InstallFails,
                  Recheck, RecheckFails, NextPlan, Kickstart, KickstartFails, Terminate, WaitGone,
                  WaitFails, Spawn, Probe, ProbeFails, Fails, Step
    <3>4. QED
      BY <3>1, <3>2, <3>3 DEF Next
  <2>2. todo = {} /\ upc = "next"
    BY <2>1 DEF Finish, Step
  <2>3. code[q] = "old"
    BY DEF TypeInv, TypeOK, ProcessTypes
  <2>4. QED
    BY <2>2, <2>3 DEF UpdInv, OldInv, Late, Stopping
<1>2. QED
  BY UpdateInvariant, <1>1, PTL DEF Spec, SuccessMeansNewCode
=============================================================================
