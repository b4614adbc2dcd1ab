----------------------------- MODULE MCDataPath -----------------------------
(* TLC instances of DataPath: which packets come. *)
EXTENDS DataPath, TLC

CONSTANTS k1

Pkt(kind, src, tag, comp, d) ==
  [id |-> 0, kind |-> kind, key |-> k1, src |-> src, tag |-> tag, comp |-> comp, data |-> d]

\* Both directions of a session, with and without the neighbor's ID.
Mixed ==
  {Pkt("other", "larger", NoID, FALSE, FALSE),
   Pkt("syn", "larger", NoID, FALSE, FALSE),
   Pkt("synack", "smaller", Peer, FALSE, FALSE),
   Pkt("ack", "larger", NoID, FALSE, TRUE),
   Pkt("ack", "smaller", Peer, TRUE, FALSE),
   Pkt("fin", "larger", NoID, FALSE, FALSE),
   Pkt("rstack", "smaller", Peer, TRUE, TRUE)}

Symmetry == Permutations(Buffer)

=============================================================================
