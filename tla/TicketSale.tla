----------------------------- MODULE TicketSale -----------------------------
(***************************************************************************)
(* What the flash sale promises, whoever fails: a ticket is opened once    *)
(* with a capacity; a customer reserves a seat of it at most once, and     *)
(* only while one is left; a reservation is given up, or turned into an    *)
(* order, but a sold seat is never given up.                               *)
(***************************************************************************)
EXTENDS Naturals, FiniteSets

CONSTANTS Tickets, Emails, Counts

VARIABLES capacity,     \* how many seats of each ticket there are, 0 at first
          held,         \* the customers who hold a seat of it
          sold          \* those of them whose order is recorded

saleVars == <<capacity, held, sold>>

Init == /\ capacity = [t \in Tickets |-> 0]
        /\ held = [t \in Tickets |-> {}]
        /\ sold = [t \in Tickets |-> {}]

Open(t, n) == /\ capacity[t] = 0
              /\ capacity' = [capacity EXCEPT ![t] = n]
              /\ UNCHANGED <<held, sold>>

Reserve(t, e) == /\ e \notin held[t]
                 /\ Cardinality(held[t]) < capacity[t]
                 /\ held' = [held EXCEPT ![t] = @ \cup {e}]
                 /\ UNCHANGED <<capacity, sold>>

GiveUp(t, e) == /\ e \in held[t] \ sold[t]
                /\ held' = [held EXCEPT ![t] = @ \ {e}]
                /\ UNCHANGED <<capacity, sold>>

Confirm(t, e) == /\ e \in held[t] \ sold[t]
                 /\ sold' = [sold EXCEPT ![t] = @ \cup {e}]
                 /\ UNCHANGED <<capacity, held>>

Next == \E t \in Tickets :
          \/ \E n \in Counts : Open(t, n)
          \/ \E e \in Emails : Reserve(t, e) \/ GiveUp(t, e) \/ Confirm(t, e)

Spec == Init /\ [][Next]_saleVars
=============================================================================
