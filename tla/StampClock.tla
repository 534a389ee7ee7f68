----------------------------- MODULE StampClock -----------------------------
(***************************************************************************)
(* What replication needs of a source of CSNs: each CSN is above the ones  *)
(* issued before it and above the ones heard of, and a crash takes the     *)
(* source back no further than its last durable point.                     *)
(***************************************************************************)
EXTENDS CSN

VARIABLES
  now,       \* the last CSN issued
  heard,     \* the greatest CSN of a peer heard of
  durable    \* both, at the last durable point

vars == <<now, heard, durable>>

Init ==
  /\ now = NullCSN /\ heard = NullCSN
  /\ durable = [last |-> NullCSN, heard |-> NullCSN]

Issue ==
  /\ now' \in CSNRecord
  /\ CSNLess(now, now') /\ CSNLess(heard, now')
  /\ UNCHANGED <<heard, durable>>

Hear ==
  /\ heard' \in CSNRecord
  /\ CSNLeq(heard, heard')
  /\ UNCHANGED <<now, durable>>

Save ==
  /\ durable' = [last |-> now, heard |-> heard]
  /\ UNCHANGED <<now, heard>>

Crash ==
  /\ now' = durable.last /\ heard' = durable.heard
  /\ UNCHANGED durable

Next == Issue \/ Hear \/ Save \/ Crash

Spec == Init /\ [][Next]_vars
=============================================================================
