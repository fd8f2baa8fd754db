------------------------------ MODULE MCInbound ------------------------------
(* Inbound on a small instance. *)
EXTENDS InboundProperties
=============================================================================
