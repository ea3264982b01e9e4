---------------------------- MODULE MCLogMonitor ----------------------------
(***************************************************************************)
(* Small instances of LogMonitor for TLC.                                  *)
(***************************************************************************)
EXTENDS LogMonitor, TLC

ThreadSymmetry == Permutations(Threads)

=============================================================================
