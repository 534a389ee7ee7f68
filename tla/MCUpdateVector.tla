--------------------------- MODULE MCUpdateVector ---------------------------
(* UpdateVector on a small instance for TLC.                               *)
EXTENDS UpdateVector, TLC

(* Worker threads are interchangeable.                                     *)
ThreadSymmetry == Permutations(Threads)

=============================================================================
