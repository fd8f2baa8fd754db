------------------------------ MODULE Progress ------------------------------
(***************************************************************************)
(* The two progress messages of AttachBridge, the status bubble and the    *)
(* list of sub-agents.  They belong to different threads and share neither *)
(* message, nor file, nor any other state, so a behaviour is looked at     *)
(* from one of them, the other one at rest.                                *)
(***************************************************************************)
EXTENDS StatusBubble, SubagentWatcher

VARIABLE part   \* "bubble" or "list"

vars == <<part, bubbleVars, watcherVars>>

\* Only Claude Code has sub-agents.
Init ==
  /\ part \in {"bubble", "list"} /\ BubbleInit /\ WatcherInit
  /\ part = "list" => agent = "claude"

Next ==
  \/ part = "bubble" /\ BubbleNext /\ UNCHANGED <<part, watcherVars>>
  \/ part = "list" /\ WatcherNext /\ UNCHANGED <<part, bubbleVars>>

\* Calls to Telegram end (they have timeouts), every turn from Telegram ends (Turn.tla), and
\* time passes for a silent background bubble, whose own end may never be signalled.  The
\* watcher polls for ever, and time passes between its polls: the windows of silence and the
\* pause between two edits end.
FairSpec ==
  /\ Init /\ [][Next]_vars
  /\ WF_bubbleVars(part = "bubble" /\ Pusher)
  /\ WF_bubbleVars(part = "bubble" /\ Clearing)
  /\ WF_watcherVars(part = "list" /\ Watching)
  /\ SF_watcherVars(part = "list" /\ Sends)
  /\ SF_watcherVars(part = "list" /\ Age)
=============================================================================
