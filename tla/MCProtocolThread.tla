------------------------- MODULE MCProtocolThread -------------------------
(* The protocol threads of small sets of agreements and callers.           *)
EXTENDS ProtocolThread
=============================================================================
