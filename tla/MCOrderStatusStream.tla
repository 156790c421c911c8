------------------------ MODULE MCOrderStatusStream -------------------------
(* An order page that gives up after two attempts.                         *)
EXTENDS OrderStatusStream
=============================================================================
