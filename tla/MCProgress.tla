----------------------------- MODULE MCProgress -----------------------------
(* An instance of Progress.tla for TLC: two turns with bubbles, two sub-agents. *)
EXTENDS ProgressProperties
=============================================================================
