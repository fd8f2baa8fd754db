-------------------------- MODULE OneShotProperties --------------------------
(***************************************************************************)
(* What must hold of OneShotBridge.tla.                                    *)
(***************************************************************************)
EXTENDS OneShotBridge

Tasks == [u : Updates \cup {0}, slot : Nat]

\* Every variable has its type; between two phases of a worker its task is there exactly
\* when the phase needs one, and the poller is inside a batch only while it dispatches it.
PollerTypes ==
  /\ ppc \in {"poll", "dispatch", "rmdir", "save", "joining", "down"}
  /\ offset \in 0 .. Len(script) + 1 /\ saved \in 0 .. Len(script) + 1
  /\ forgotten \in Updates \cup {0}
  /\ next \in 1 .. Len(script) + 1 /\ last \in Updates \cup {0}
  /\ ppc = "dispatch" => next \in Updates /\ next <= last
  /\ ppc = "rmdir" => next - 1 \in Updates /\ Kind(next - 1) = "reset"
WorkerTypes ==
  /\ queue \in [Chats -> Seq(Tasks)]
  /\ wpc \in [Chats -> {"none", "idle", "start", "run", "reply", "over"}]
  /\ cur \in [Chats -> Tasks] /\ cont \in [Chats -> BOOLEAN]
  /\ \A c \in Chats : cur[c].u # 0 <=> wpc[c] \in {"start", "run", "reply"}
DiskTypes ==
  /\ dir \in [Chats -> BOOLEAN] /\ marker \in [Chats -> BOOLEAN]
  /\ files \in [Chats -> Seq(Updates)]
  /\ conv \in [Chats -> SUBSET Updates]
HistoryTypes ==
  /\ fate \in [Updates -> {"none", "refused", "failed", "answered", "unsent"}]
  /\ lost \in SUBSET Updates /\ raced \in SUBSET Updates
  /\ starts \in [Updates -> Nat] /\ lastRun \in [Chats -> Updates \cup {0}]
  /\ unclean \in Nat /\ faults \in Nat /\ deaths \in Nat
TypeOK == PollerTypes /\ WorkerTypes /\ DiskTypes /\ HistoryTypes

-----------------------------------------------------------------------------
(* Safety *)

\* A prompt Telegram forgot waits in memory, was settled in front of the user, or died with
\* the process ("the poller enqueues, a worker processes", bridge.py): the offset never
\* confirms a prompt nobody took.
InMemory == UNION {TasksOf(c) : c \in Chats}
ForgottenIsAccounted ==
  \A u \in Updates : IsPrompt(u) /\ u <= forgotten =>
    fate[u] # "none" \/ u \in InMemory \/ u \in lost

\* The agent runs a prompt again only after the process was killed or the offset could not
\* be written: an orderly stop and start repeats nothing.
RerunsNeedAnUncleanEnd == \A u \in Updates : starts[u] <= 1 + unclean

\* A marker is never without its directory, and a chat whose directory is gone has no
\* attachment: what /reset and the worker do to the directory from two threads fits together.
DirectoryHoldsMarker == \A c \in Chats : ~dir[c] => ~marker[c] /\ files[c] = <<>>

\* Messages of one chat are processed strictly in order (module docstring).
InOrder == [][\A c \in Chats : RunStarts(c) => cur[c].u > lastRun[c]]_vars

\* A prompt sent after /reset does not continue a conversation from before it ("start a
\* fresh conversation", _HELP), unless a task of the chat was waiting or running when the
\* reset was handled: that task then runs in the fresh directory and marks it as started.
ResetSeparates ==
  [][\A c \in Chats : RunStarts(c) /\ cont[c] =>
       \A w \in conv[c], r \in Updates :
         w < r /\ r < cur[c].u /\ Chat(r) = c /\ Kind(r) = "reset" => r \in raced]_vars

\* The file a prompt points the agent to is the file that came with it, unless a /reset was
\* handled while the prompt waited: then it is gone, or its name belongs to a later file.
AttachmentsAreOwn ==
  [][\A c \in Chats : RunStarts(c) /\ cur[c].slot # 0 =>
       \/ cur[c].slot \in DOMAIN files[c] /\ files[c][cur[c].slot] = cur[c].u
       \/ \E r \in raced : Chat(r) = c /\ r > cur[c].u]_vars

-----------------------------------------------------------------------------
(* Liveness *)

\* Every prompt is settled in front of the user or dies with a process.
PromptsSettle ==
  <>[](\A u \in Updates : IsPrompt(u) => fate[u] # "none" \/ u \in lost)

=============================================================================
