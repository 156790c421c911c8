-------------------------- MODULE MCEventsCatalog ---------------------------
(* Two or three gateways and two events.                                   *)
EXTENDS EventsCatalog, TLC

CONSTANTS t1, t2

MCInventory == (t1 :> 1) @@ (t2 :> 2)

Symmetry == Permutations(Gateways) \cup Permutations(Emails)
=============================================================================
