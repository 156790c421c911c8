------------------------ MODULE MCOrderEventsService ------------------------
(* Up to three streams of one gateway and two orders.                      *)
EXTENDS OrderEventsService, TLC

Symmetry == Permutations(OrderIds) \cup Permutations(Readers)
=============================================================================
