---------------------------- MODULE UpdateCustody ----------------------------
(***************************************************************************)
(* What the inbound half of the bridge promises about one Telegram update: *)
(* somebody always has custody of it.  Telegram holds an update until it   *)
(* is confirmed; the bridge may let Telegram forget an update only once it *)
(* keeps the update on disk or has finished with it; and it finishes with  *)
(* an update only by handing it to the session or by burying it in the     *)
(* dead-letter directory.  The one exception the code has is a refused     *)
(* update: one whose write to disk failed (see Inbound.tla).               *)
(*                                                                         *)
(* The contract is at-least-once: an update may be kept and handled again  *)
(* after a crash, and it may be handled after it was buried.               *)
(***************************************************************************)

CONSTANT Updates          \* the updates Telegram ever produces for the bot

VARIABLES
  held,                   \* updates Telegram has not been told to forget
  kept,                   \* updates with a record on the bridge's disk
  handled,                \* updates the session (or a command) has seen
  buried,                 \* updates with a dead-letter record
  refused                 \* updates whose record could not be written

custodyVars == <<held, kept, handled, buried, refused>>

InCustody(u) == u \in kept \cup handled \cup buried

CustodyInit ==
  /\ held = Updates
  /\ kept = {} /\ handled = {} /\ buried = {} /\ refused = {}

\* The bridge writes a record for an update Telegram offered.
Keep(u) ==
  /\ u \in held
  /\ kept' = kept \cup {u}
  /\ refused' = refused \ {u}
  /\ UNCHANGED <<held, handled, buried>>

\* The record of an offered update could not be written.
Refuse(u) ==
  /\ u \in held
  /\ refused' = refused \cup {u}
  /\ UNCHANGED <<held, kept, handled, buried>>

\* The next getUpdates asks for a higher offset: Telegram forgets S.
Confirm(S) ==
  /\ \A u \in S : InCustody(u) \/ u \in refused
  /\ held' = held \ S
  /\ UNCHANGED <<kept, handled, buried, refused>>

Deliver(u) ==
  /\ u \in kept \cup buried \cup handled
  /\ handled' = handled \cup {u}
  /\ UNCHANGED <<held, kept, buried, refused>>

\* Only what was handled is removed from disk without a trace.
Release(u) ==
  /\ u \in kept \cap handled
  /\ kept' = kept \ {u}
  /\ UNCHANGED <<held, handled, buried, refused>>

Bury(S) ==
  /\ S \subseteq kept
  /\ kept' = kept \ S
  /\ buried' = buried \cup S
  /\ UNCHANGED <<held, handled, refused>>

CustodyNext ==
  \/ \E u \in Updates : Keep(u) \/ Refuse(u) \/ Deliver(u) \/ Release(u)
  \/ \E S \in SUBSET Updates : Confirm(S) \/ Bury(S)

CustodySpec == CustodyInit /\ [][CustodyNext]_custodyVars
=============================================================================
