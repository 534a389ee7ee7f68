------------------------ MODULE MCConsumerSession ------------------------
(* Instances of ConsumerSession for model checking.                        *)
EXTENDS ConsumerSession, TLC

Symm == Permutations(Conns)
===========================================================================
