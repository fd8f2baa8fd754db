------------------------ MODULE SupervisionProperties ------------------------
(***************************************************************************)
(* What must hold of Supervision.tla.                                      *)
(***************************************************************************)
EXTENDS Supervision

Plans == [p : Pids, how : {"service", "env", "manual"}]

\* Every variable has its type, and the updater has a plan and a child exactly where its
\* step needs them.
CodeTypes ==
  /\ setup \in Installations /\ pip \in BOOLEAN
  /\ clone \in {"old", "new"} /\ site \in {"old", "new"}
ProcessTypes ==
  /\ state \in [Pids -> {"free", "boot", "notice", "send", "up", "stopping", "gone"}]
  /\ of \in [Pids -> Bridges] /\ code \in [Pids -> {"old", "new"}]
  /\ lock \in [Bridges -> Pids \cup {None}] /\ kept \in [Bridges -> Pids \cup {None}]
NoticeTypes ==
  /\ fresh \in [Bridges -> BOOLEAN] /\ notifier \in [Bridges -> Pids \cup {None}]
  /\ post \in [Bridges -> 0 .. LastPost]
  /\ sends \in [Bridges -> Nat] /\ repeated \in [Bridges -> Nat] /\ expired \in [Bridges -> Nat]
UpdateTypes ==
  /\ upc \in {"status", "plan", "pull", "install", "recheck", "next", "kick", "term", "wait",
              "spawn", "probe", "done", "failed"}
  /\ sel \in SUBSET Pids /\ plans \in SUBSET Plans /\ todo \in SUBSET plans
  /\ cur \in Plans \cup {NoPlan} /\ child \in Pids \cup {None} /\ stopped \in SUBSET Pids
  /\ upc \in {"kick", "term", "wait", "spawn", "probe"} => cur \in plans
  /\ upc = "probe" => child \in Pids
  /\ faults \in Nat /\ deaths \in Nat
TypeOK == CodeTypes /\ ProcessTypes /\ NoticeTypes /\ UpdateTypes

-----------------------------------------------------------------------------
(* Safety *)

\* Two processes never ask Telegram for the updates of one bot ("two pollers on one token
\* would 409", _wait_gone; "two instances over one bot fight over getUpdates", AttachBridge.run).
\* The exception: a one-shot bridge has no lock, and a service manager the updater does not
\* know of starts the process the updater is replacing.
OnePoller ==
  \A p, q \in Pids :
    p # q /\ Poller(p) /\ Poller(q) /\ of[p] = of[q]
      => Mode(of[p]) = "oneshot" /\ Keeper(of[p]) = "systemd"

\* The chat sees one notice of a bridge per cooldown, across any number of restarts and
\* crashes ("a process restart must not immediately send it again", restart_notice), and
\* beyond that only what the client itself repeats within one start because an answer was
\* lost, which it does no more often than it may post.
NoticesAreRare ==
  \A b \in Bridges :
    /\ sends[b] <= expired[b] + 1 + repeated[b]
    /\ repeated[b] <= LastPost * (expired[b] + 1)

\* Nothing is stopped before the new code is in place ("a failed pull preserves the checkout";
\* "Package installation failed; no bridges restarted").
StoppedForNewCode == stopped # {} => clone = "new" /\ (pip => site = "new")

\* When the update says it succeeded, the bridges it was to restart run the new code.
SuccessMeansNewCode ==
  [][upc # "done" /\ upc' = "done" =>
       \A pl \in plans, q \in Pids :
         Automatic(pl) /\ Running(q) /\ of[q] = of[pl.p] => code[q] = "new"]_vars

-----------------------------------------------------------------------------
(* Liveness *)

\* The update ends, and when it succeeded and nothing died every bridge polls again.
BridgesComeBack ==
  <>[](/\ upc \in {"done", "failed"}
       /\ upc = "done" /\ deaths = 0 /\ faults = 0 =>
            \A b \in Bridges : \E p \in Pids : of[p] = b /\ Poller(p))
=============================================================================
