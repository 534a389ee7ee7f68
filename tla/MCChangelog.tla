---------------------------- MODULE MCChangelog ----------------------------
EXTENDS Changelog

(* Two replicas, both with a change in the data the consumer was loaded    *)
(* with; the CSNs 3 and 5 of the local replica are neighbours, with one of *)
(* the other between them.                                                 *)
MCRidOf == <<1, 2, 1, 2, 1>>

(* Replica 2 is new to the supplier. *)
NewRidOf == <<1, 2, 2, 1>>

(* The local replica has made no change yet. *)
FirstRidOf == <<2, 1, 2, 1>>
=============================================================================
