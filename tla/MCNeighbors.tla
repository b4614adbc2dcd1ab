----------------------------- MODULE MCNeighbors -----------------------------
(* TLC instances of Neighbors. *)
EXTENDS Neighbors, TLC

Symmetry == Permutations(Peer)

=============================================================================
