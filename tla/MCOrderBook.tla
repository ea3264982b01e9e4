----------------------------- MODULE MCOrderBook -----------------------------
(***************************************************************************)
(* Small instances of OrderBookClients for TLC.                            *)
(***************************************************************************)
EXTENDS OrderBookClients

MCOpenPrice == [s \in Symbols |-> 2]

ThreadSymmetry == Permutations(Threads)

=============================================================================
