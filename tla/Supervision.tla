---------------------------- MODULE Supervision ----------------------------
(***************************************************************************)
(* Who runs the bridges of a user, and on which code: the processes of the *)
(* bridges with the lock on their state directory (compat.py) and their    *)
(* start notice (notices.py); the service manager that starts a bridge     *)
(* again whenever its process ends (service.py); and                       *)
(* `agent2telegram update` (updater.py), which selects the running         *)
(* bridges, pulls and installs new code, and replaces what it selected.    *)
(*                                                                         *)
(* A process is its pid, and the pid of a process the updater selected is  *)
(* not given to another one while the update runs: the pair (pid, config)  *)
(* by which the updater knows a bridge is the pid here.                    *)
(***************************************************************************)
EXTENDS Integers

CONSTANTS
  N,                \* number of bridges
  Installations,    \* ways the bridges are set up: functions from Bridges to SetupType
  MaxPid,           \* number of pids
  MaxFaults,        \* failing steps of an update or of a start
  MaxDeaths,        \* processes that die by themselves
  Retries,          \* max_retries of the Telegram client
  MaxExpiries       \* how often the cooldown of the notices passes

Bridges == 1 .. N
Pids == 1 .. MaxPid

\* The mode of a bridge, its service manager, where the updater can learn the environment it was
\* started in (from /proc while it runs, from a configuration file that says it all), and
\* whether it announces its starts.
SetupType ==
  [mode : {"attach", "oneshot"}, keeper : {"none", "systemd", "launchd"},
   env : {"proc", "file", "none"},
   notice : BOOLEAN]

ASSUME SupervisionAssumption ==
  /\ N \in Nat \ {0} /\ MaxPid \in Nat /\ N <= MaxPid
  /\ Installations \subseteq [Bridges -> SetupType]
  /\ MaxFaults \in Nat /\ MaxDeaths \in Nat /\ MaxExpiries \in Nat
  /\ Retries \in Nat

None == 0    \* no process

VARIABLES
  setup,            \* the installation of this behaviour
  pip,              \* the bridges run from a pip installation, not from the clone
  clone, site,      \* code in the clone and in the pip installation: "old", "new"
  \* the processes
  state,            \* "free", "boot", "notice", "send", "up", "stopping", "gone"
  of, code,         \* bridge and code of a process
  lock,             \* process holding the lock on the state directory of a bridge
  kept,             \* process the service manager started for a bridge
  \* the start notices
  fresh,            \* the marker of a bridge's last notice is younger than the cooldown
  notifier,         \* process holding the lock of the notices of a bridge
  post,             \* which post of its notice comes next, from 0
  sends,            \* notices of a bridge that its chat has shown
  repeated,         \* those whose answer was lost, so that the client posted once more
  expired,          \* how often the cooldown passed
  \* the update
  upc,              \* where it is; "done" and "failed" are its ends
  sel,              \* pids it selected
  plans,            \* what it will do with them: [p, how]
  todo, cur,        \* plans left; the plan it works on
  child,            \* the replacement it started
  stopped,          \* pids it stopped
  faults, deaths

codeVars == <<setup, pip, clone, site>>
procVars == <<state, of, code, lock, kept>>
noticeVars == <<fresh, notifier, post, sends, repeated, expired>>
updateVars == <<upc, sel, plans, todo, cur, child, stopped>>
budgetVars == <<faults, deaths>>
vars == <<codeVars, procVars, noticeVars, updateVars, budgetVars>>

Fault == faults < MaxFaults /\ faults' = faults + 1 /\ UNCHANGED deaths

Running(p) == state[p] \in {"boot", "notice", "send", "up", "stopping"}
Poller(p) == state[p] \in {"up", "stopping"}
Mode(b) == setup[b].mode
Keeper(b) == setup[b].keeper

NoPlan == [p |-> None, how |-> "none"]

\* Every bridge runs, on the old code, in the process of its number.
Init ==
  /\ setup \in Installations /\ pip \in BOOLEAN
  /\ clone = "old" /\ site = "old"
  /\ state = [p \in Pids |-> IF p \in Bridges THEN "up" ELSE "free"]
  /\ of = [p \in Pids |-> IF p \in Bridges THEN p ELSE 1]
  /\ code = [p \in Pids |-> "old"]
  /\ lock = [b \in Bridges |-> IF setup[b].mode = "attach" THEN b ELSE None]
  /\ kept = [b \in Bridges |-> IF setup[b].keeper # "none" THEN b ELSE None]
  /\ fresh = [b \in Bridges |-> FALSE] /\ notifier = [b \in Bridges |-> None]
  /\ post = [b \in Bridges |-> 0]
  /\ sends = [b \in Bridges |-> 0] /\ repeated = [b \in Bridges |-> 0]
  /\ expired = [b \in Bridges |-> 0]
  /\ upc = "status" /\ sel = {} /\ plans = {} /\ todo = {} /\ cur = NoPlan
  /\ child = None /\ stopped = {}
  /\ faults = 0 /\ deaths = 0

-----------------------------------------------------------------------------
(* A process of a bridge *)

\* A pid nobody remembers can be given to a new process of bridge b.
Unused(p, b) ==
  \/ state[p] = "free"
  \/ state[p] = "gone" /\ p \notin sel \cup {child} /\ \A a \in Bridges \ {b} : kept[a] # p
Free(p, b) == Unused(p, b) /\ \A q \in Pids : Unused(q, b) => p <= q

\* What the service manager starts is on its PYTHONPATH: the pip installation or the clone.
Installed == IF pip THEN site ELSE clone

\* Mutant: a lock file that outlives its process.
DroppedNever(f, p) == f

\* The kernel drops the locks of a process with the process.
Dropped(f, p) == [b \in Bridges |-> IF f[b] = p THEN None ELSE f[b]]

Ends(p) ==
  /\ state' = [state EXCEPT ![p] = "gone"]
  /\ lock' = Dropped(lock, p)
  /\ notifier' = Dropped(notifier, p)
  /\ UNCHANGED <<of, code, kept, fresh, post, sends, repeated, expired>>

\* Mutant: the lock is not asked for.
BootUnlocked(p) ==
  /\ state[p] = "boot"
  /\ state' = [state EXCEPT ![p] = "notice"]
  /\ UNCHANGED <<of, code, lock, kept, noticeVars, codeVars, updateVars, budgetVars>>

\* An attach bridge takes the lock on its state directory before anything else and gives up
\* when another process has it; a one-shot bridge has no such lock.
Boot(p) ==
  /\ state[p] = "boot"
  /\ LET b == of[p] IN
       IF Mode(b) = "attach" /\ lock[b] # None
       THEN Ends(p)
       ELSE /\ state' = [state EXCEPT ![p] = "notice"]
            /\ lock' = IF Mode(b) = "attach" THEN [lock EXCEPT ![b] = p] ELSE lock
            /\ UNCHANGED <<of, code, kept, noticeVars>>
  /\ UNCHANGED <<codeVars, updateVars, budgetVars>>

\* Telegram rejects the token, or the agent's session is not there: an attach bridge exits.
BootFails(p) ==
  /\ state[p] = "notice" /\ Mode(of[p]) = "attach"
  /\ Fault
  /\ Ends(p)
  /\ UNCHANGED <<codeVars, updateVars>>

\* Mutant: the marker is written after the notice.
ClaimNoticeLate(p) ==
  /\ state[p] = "notice"
  /\ LET b == of[p] IN
       IF ~setup[b].notice \/ notifier[b] # None \/ fresh[b]
       THEN /\ state' = [state EXCEPT ![p] = "up"]
            /\ UNCHANGED noticeVars
       ELSE /\ state' = [state EXCEPT ![p] = "send"]
            /\ notifier' = [notifier EXCEPT ![b] = p]
            /\ post' = [post EXCEPT ![b] = 0]
            /\ UNCHANGED <<fresh, sends, repeated, expired>>
  /\ UNCHANGED <<of, code, lock, kept, codeVars, updateVars, budgetVars>>

\* restart_notice: under its own lock, and not within the cooldown of the last notice, the
\* marker is claimed before the notice is sent.
ClaimNotice(p) ==
  /\ state[p] = "notice"
  /\ LET b == of[p] IN
       IF ~setup[b].notice \/ notifier[b] # None \/ fresh[b]
       THEN /\ state' = [state EXCEPT ![p] = "up"]
            /\ UNCHANGED noticeVars
       ELSE /\ state' = [state EXCEPT ![p] = "send"]
            /\ notifier' = [notifier EXCEPT ![b] = p]
            /\ fresh' = [fresh EXCEPT ![b] = TRUE]
            /\ post' = [post EXCEPT ![b] = 0]
            /\ UNCHANGED <<sends, repeated, expired>>
  /\ UNCHANGED <<of, code, lock, kept, codeVars, updateVars, budgetVars>>

\* send_message: the client posts the formatted notice, and when that comes to nothing the
\* plain one, each once and for every retry.
LastFormatted == Retries
LastPost == 2 * Retries + 1

\* The bridge polls, whatever came of its notice.
NoticeOver(p) ==
  /\ state' = [state EXCEPT ![p] = "up"]
  /\ notifier' = Dropped(notifier, p)
  /\ post' = [post EXCEPT ![of[p]] = 0]
  /\ UNCHANGED repeated

NoticeAnswered(p) ==
  /\ NoticeOver(p)
  /\ sends' = [sends EXCEPT ![of[p]] = @ + 1]

\* Telegram says no: the client goes on to the plain text, or gives up.
NoticeRefused(p) ==
  /\ IF post[of[p]] <= LastFormatted
     THEN /\ post' = [post EXCEPT ![of[p]] = LastFormatted + 1]
          /\ UNCHANGED <<state, notifier, repeated>>
     ELSE NoticeOver(p)
  /\ UNCHANGED sends

\* No answer: the notice may be in the chat, and the client posts again if it may.
NoticeUncertain(p) ==
  \E shown \in {0, 1} :
    /\ sends' = [sends EXCEPT ![of[p]] = @ + shown]
    /\ IF post[of[p]] < LastPost
       THEN /\ post' = [post EXCEPT ![of[p]] = @ + 1]
            /\ repeated' = [repeated EXCEPT ![of[p]] = @ + shown]
            /\ UNCHANGED <<state, notifier>>
       ELSE NoticeOver(p)

SendNotice(p) ==
  /\ state[p] = "send"
  /\ NoticeAnswered(p) \/ NoticeRefused(p) \/ NoticeUncertain(p)
  /\ UNCHANGED <<of, code, lock, kept, fresh, expired, codeVars, updateVars, budgetVars>>

CooldownPasses(b) ==
  /\ fresh[b] /\ expired[b] < MaxExpiries
  /\ fresh' = [fresh EXCEPT ![b] = FALSE]
  /\ expired' = [expired EXCEPT ![b] = @ + 1]
  /\ UNCHANGED <<notifier, post, sends, repeated, codeVars, procVars, updateVars, budgetVars>>

\* A one-shot bridge told to stop ends after its long poll and its workers.
StopEnds(p) ==
  /\ state[p] = "stopping"
  /\ Ends(p)
  /\ UNCHANGED <<codeVars, updateVars, budgetVars>>

\* A process dies by itself, at any point.
Die(p) ==
  /\ Running(p) /\ deaths < MaxDeaths
  /\ deaths' = deaths + 1
  /\ Ends(p)
  /\ UNCHANGED <<codeVars, updateVars, faults>>

Start(p, b, c) ==
  /\ Free(p, b)
  /\ state' = [state EXCEPT ![p] = "boot"]
  /\ of' = [of EXCEPT ![p] = b]
  /\ code' = [code EXCEPT ![p] = c]

\* Restart=always, KeepAlive: the service manager replaces its process whenever that ended,
\* whoever ended it.
KeeperStarts(b) ==
  /\ Keeper(b) # "none" /\ state[kept[b]] = "gone"
  /\ \E p \in Pids :
       /\ Start(p, b, Installed)
       /\ kept' = [kept EXCEPT ![b] = p]
  /\ UNCHANGED <<lock, codeVars, noticeVars, updateVars, budgetVars>>

-----------------------------------------------------------------------------
(* The update *)

Step(from, to) == upc = from /\ upc' = to
Rest == UNCHANGED <<sel, plans, todo, cur, child, stopped>>

\* Anything that goes wrong ends the update with an error.
Fails(from) ==
  /\ Step(from, "failed")
  /\ Rest
  /\ UNCHANGED <<codeVars, procVars, noticeVars>>

\* git status is clean, and ps lists the running bridges; with --no-restart nobody asks.
Scan ==
  /\ Step("status", "plan")
  /\ \E restart \in BOOLEAN : sel' = {p \in Pids : restart /\ Running(p)}
  /\ UNCHANGED <<plans, todo, cur, child, stopped, codeVars, procVars, noticeVars, budgetVars>>

\* Local changes, or ps fails.
ScanFails == Fails("status") /\ Fault

\* How a process will be restarted: by launchd when it is the process of the service, else
\* directly in its own environment, else by the user.
How(p) ==
  LET b == of[p] IN
    IF Keeper(b) = "launchd" /\ kept[b] = p /\ Running(p) THEN "service"
    ELSE IF setup[b].env = "file" \/ (setup[b].env = "proc" /\ Running(p)) THEN "env"
    ELSE "manual"

\* launchctl is asked, and the environments are read, after ps: /proc knows nothing of a
\* process that is gone by now, a configuration file does.
Plan ==
  /\ Step("plan", "pull")
  /\ plans' = {[p |-> p, how |-> How(p)] : p \in sel}
  /\ UNCHANGED <<sel, todo, cur, child, stopped, codeVars, procVars, noticeVars, budgetVars>>

PlanFails == Fails("plan") /\ Fault

\* git pull --ff-only.
Pull ==
  /\ Step("pull", "install")
  /\ clone' = "new"
  /\ Rest
  /\ UNCHANGED <<setup, pip, site, procVars, noticeVars, budgetVars>>

\* Three attempts failed; the checkout is as it was.
PullFails == Fails("pull") /\ Fault

\* Mutant: an installation that fails does not stop the update.
InstallUnchecked ==
  /\ Step("install", "recheck")
  /\ site' \in IF pip THEN {"new", site} ELSE {site}
  /\ Rest
  /\ UNCHANGED <<setup, pip, clone, procVars, noticeVars, budgetVars>>

Install ==
  /\ Step("install", "recheck")
  /\ site' = IF pip THEN "new" ELSE site
  /\ Rest
  /\ UNCHANGED <<setup, pip, clone, procVars, noticeVars, budgetVars>>

InstallFails == Fails("install") /\ pip /\ Fault

Automatic(pl) == pl.how # "manual"

\* Mutant: the selection is trusted.
RecheckNothing ==
  /\ Step("recheck", "next")
  /\ todo' = plans
  /\ UNCHANGED <<sel, plans, cur, child, stopped, codeVars, procVars, noticeVars, budgetVars>>

\* _restart: a selected process that is gone by now was replaced by somebody else.
Recheck ==
  /\ Step("recheck", "next")
  /\ \A pl \in plans : Automatic(pl) => Running(pl.p)
  /\ todo' = plans
  /\ UNCHANGED <<sel, plans, cur, child, stopped, codeVars, procVars, noticeVars, budgetVars>>

RecheckFails ==
  /\ Fails("recheck")
  /\ \E pl \in plans : Automatic(pl) /\ ~Running(pl.p)
  /\ UNCHANGED budgetVars

\* A plan for the user only prints what to do.
NextPlan ==
  /\ \E pl \in todo :
       /\ cur' = pl
       /\ todo' = todo \ {pl}
       /\ Step("next", IF pl.how = "env" THEN "term" ELSE IF pl.how = "service" THEN "kick" ELSE "next")
  /\ UNCHANGED <<sel, plans, child, stopped, codeVars, procVars, noticeVars, budgetVars>>

\* launchctl kickstart -k: launchd kills its process and starts another.
Kickstart ==
  /\ Step("kick", "next")
  /\ LET b == of[cur.p] IN
       /\ kept[b] = cur.p /\ Running(cur.p)
       /\ \E p \in Pids :
            /\ Free(p, b)
            /\ state' = [state EXCEPT ![cur.p] = "gone", ![p] = "boot"]
            /\ of' = [of EXCEPT ![p] = b]
            /\ code' = [code EXCEPT ![p] = Installed]
            /\ kept' = [kept EXCEPT ![b] = p]
  /\ lock' = Dropped(lock, cur.p) /\ notifier' = Dropped(notifier, cur.p)
  /\ stopped' = stopped \cup {cur.p}
  /\ UNCHANGED <<fresh, post, sends, repeated, expired, sel, plans, todo, cur, child, codeVars, budgetVars>>

\* launchd has another process by now, or kickstart fails.
KickstartFails ==
  /\ Fails("kick")
  /\ IF kept[of[cur.p]] = cur.p /\ Running(cur.p) THEN Fault ELSE UNCHANGED budgetVars

\* SIGTERM ends an attach bridge and asks a one-shot bridge to stop.
Terminate ==
  /\ Step("term", "wait")
  /\ stopped' = stopped \cup {cur.p}
  /\ IF Poller(cur.p) /\ Mode(of[cur.p]) = "oneshot"
     THEN /\ state' = [state EXCEPT ![cur.p] = "stopping"]
          /\ UNCHANGED <<of, code, lock, kept, noticeVars>>
     ELSE IF Running(cur.p) THEN Ends(cur.p) ELSE UNCHANGED <<procVars, noticeVars>>
  /\ UNCHANGED <<sel, plans, todo, cur, child, codeVars, budgetVars>>

\* _wait_gone: the process ended or, for the last two seconds, is killed.
WaitGone ==
  /\ Step("wait", "spawn")
  /\ IF Running(cur.p) THEN Ends(cur.p) ELSE UNCHANGED <<procVars, noticeVars>>
  /\ Rest
  /\ UNCHANGED <<codeVars, budgetVars>>

\* Not even SIGKILL ends it in time.
WaitFails == Fails("wait") /\ Running(cur.p) /\ Fault

\* Mutant: the updater does not keep the replacement it started.
SpawnUnknown ==
  /\ Step("spawn", "probe")
  /\ \E p \in Pids : Start(p, of[cur.p], clone)
  /\ UNCHANGED <<child, lock, kept, sel, plans, todo, cur, stopped, codeVars, noticeVars, budgetVars>>

\* The replacement runs the code of the clone (PYTHONPATH, cwd).
Spawn ==
  /\ Step("spawn", "probe")
  /\ \E p \in Pids : Start(p, of[cur.p], clone) /\ child' = p
  /\ UNCHANGED <<lock, kept, sel, plans, todo, cur, stopped, codeVars, noticeVars, budgetVars>>

\* Half a second later it must still be there.
Probe ==
  /\ Step("probe", "next")
  /\ Running(child)
  /\ Rest
  /\ UNCHANGED <<codeVars, procVars, noticeVars, budgetVars>>

ProbeFails ==
  /\ Fails("probe")
  /\ ~Running(child)
  /\ UNCHANGED budgetVars

Finish ==
  /\ todo = {}
  /\ Step("next", "done")
  /\ Rest
  /\ UNCHANGED <<codeVars, procVars, noticeVars, budgetVars>>

-----------------------------------------------------------------------------
Update ==
  \/ Scan \/ ScanFails \/ Plan \/ PlanFails \/ Pull \/ PullFails \/ Install \/ InstallFails
  \/ Recheck \/ RecheckFails \/ NextPlan \/ Kickstart \/ KickstartFails
  \/ Terminate \/ WaitGone \/ WaitFails \/ Spawn \/ Probe \/ ProbeFails \/ Finish

Process(p) ==
  Boot(p) \/ BootFails(p) \/ ClaimNotice(p) \/ SendNotice(p) \/ StopEnds(p)

Next ==
  \/ Update
  \/ \E p \in Pids : Process(p) \/ Die(p)
  \/ \E b \in Bridges : KeeperStarts(b) \/ CooldownPasses(b)

Spec == Init /\ [][Next]_vars

\* The commands the updater calls end (all but pip have a timeout, and an installation is taken
\* to end), a starting process starts, and the service manager keeps its promise.
FairSpec ==
  /\ Spec
  /\ WF_vars(Update)
  /\ \A p \in Pids : WF_vars(Process(p))
  /\ \A b \in Bridges : WF_vars(KeeperStarts(b))
=============================================================================
