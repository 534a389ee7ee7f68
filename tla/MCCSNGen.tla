------------------------------ MODULE MCCSNGen ------------------------------
(* CSNGen on a small instance for TLC.                                     *)
EXTENDS CSNGen, TLC

CONSTANT Far   \* time stamp of the most advanced remote CSN

MCTimes == 0..2

(* A remote CSN level with the clock, at the last sequence number, and two *)
(* ahead of it, one of them from a smaller replica id.                     *)
MCRemoteCSNs == {MakeCSN(1, MaxSeq, Rid - 1), MakeCSN(3, 0, Rid + 1),
                 MakeCSN(Far, 1, Rid + 1)}

(* Worker threads are interchangeable.                                     *)
ThreadSymmetry == Permutations(Threads)

=============================================================================
