------------------------------ MODULE MCLocks -------------------------------
(***************************************************************************)
(* A small instance of Locks for TLC.                                      *)
(***************************************************************************)
EXTENDS Locks, TLC

SortedOrder == <<"AMZN", "GOOG">>

ThreadSymmetry == Permutations(Threads)

=============================================================================
