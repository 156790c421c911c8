---------------------- MODULE MCNotificationsProcessor ----------------------
(* The sale of MCFlashSale, with a process or two of the notification      *)
(* service behind it.                                                      *)
EXTENDS NotificationsProcessor

CONSTANTS e1, e2, e1Typed

MCNormalized == [raw \in RawEmails |-> IF raw = e1Typed THEN e1 ELSE raw]
=============================================================================
