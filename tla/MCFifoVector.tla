---------------------------- MODULE MCFifoVector ----------------------------
(***************************************************************************)
(* FifoVector for TLC: threads and objects are alike.                      *)
(***************************************************************************)
EXTENDS FifoVector, TLC

Symmetric == Permutations(Threads) \union Permutations(Objects)
=============================================================================
