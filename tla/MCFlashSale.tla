---------------------------- MODULE MCFlashSale -----------------------------
(* One ticket with one or two seats, two customers, one of whom may type   *)
(* his email in two ways, two or three requests, and two workers.          *)
(* The sale keeps emails as they are normalised, never as they were typed, *)
(* so the customers are symmetric in its states.                           *)
EXTENDS FlashSale, TLC

CONSTANTS e1, e2, e1Typed

MCNormalized == [raw \in RawEmails |-> IF raw = e1Typed THEN e1 ELSE raw]

Symmetry == Permutations(OrderIds) \cup Permutations(Workers)
              \cup Permutations(Tickets) \cup Permutations(InitCalls)
              \cup Permutations(Emails)
=============================================================================
