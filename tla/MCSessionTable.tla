--------------------------- MODULE MCSessionTable ---------------------------
(* TLC instances of SessionTable: all keys in one bucket. *)
EXTENDS SessionTable, TLC

OneBucket == [k \in Key |-> 0]
Symmetry == Permutations(Sess) \cup Permutations(Key)

=============================================================================
