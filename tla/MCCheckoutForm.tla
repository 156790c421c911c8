--------------------------- MODULE MCCheckoutForm ---------------------------
(* One ticket with one seat or two, two customers, one of whom may type    *)
(* his email in two ways, one page or two, and two requests.               *)
EXTENDS CheckoutForm

CONSTANTS e1, e2, e1Typed

MCNormalized == [raw \in RawEmails |-> IF raw = e1Typed THEN e1 ELSE raw]
=============================================================================
