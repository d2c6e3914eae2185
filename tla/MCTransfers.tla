----------------------------- MODULE MCTransfers -----------------------------
(***************************************************************************)
(* Transfers for TLC: the peers are model values, and interchangeable.     *)
(***************************************************************************)
EXTENDS Transfers, TLC

Permuted == Permutations(Peers)
=============================================================================
