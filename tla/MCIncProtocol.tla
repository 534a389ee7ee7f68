--------------------------- MODULE MCIncProtocol ---------------------------
(* Small instances of the incremental protocol. *)
EXTENDS IncProtocol

=============================================================================
