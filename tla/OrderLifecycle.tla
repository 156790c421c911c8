--------------------------- MODULE OrderLifecycle ---------------------------
(***************************************************************************)
(* What the write side promises to whoever follows an order: the order is  *)
(* pending before it is accepted, a row before its pending key goes, and   *)
(* announced as completed only after both.  The services that answer a     *)
(* customer's question about an order rest on this order of events alone.  *)
(***************************************************************************)
CONSTANT OrderIds

VARIABLES pending,      \* the orders whose pending key exists
          accepted,     \* the orders a customer was told of
          rows,         \* the orders that have a row
          published     \* the orders whose completed event was published

lifecycleVars == <<pending, accepted, rows, published>>

LifecycleInit == pending = {} /\ accepted = {} /\ rows = {} /\ published = {}

Mark(o) == /\ o \notin accepted \cup rows
           /\ pending' = pending \cup {o}
           /\ UNCHANGED <<accepted, rows, published>>

Unmark(o) == /\ o \notin accepted
             /\ pending' = pending \ {o}
             /\ UNCHANGED <<accepted, rows, published>>

Accept(o) == /\ o \in pending
             /\ accepted' = accepted \cup {o}
             /\ UNCHANGED <<pending, rows, published>>

Persist(o) == /\ o \in accepted
              /\ rows' = rows \cup {o}
              /\ UNCHANGED <<pending, accepted, published>>

(* Wrong: the worker clears the pending key before it saves the order.     *)
ClearEarly(o) == /\ o \in accepted
                 /\ pending' = pending \ {o}
                 /\ UNCHANGED <<accepted, rows, published>>

Clear(o) == /\ o \in rows
            /\ pending' = pending \ {o}
            /\ UNCHANGED <<accepted, rows, published>>

(* Wrong: the worker publishes the event before it saves the order.        *)
PublishEarly(o) == /\ o \in accepted
                   /\ published' = published \cup {o}
                   /\ UNCHANGED <<pending, accepted, rows>>

Publish(o) == /\ o \in rows \ pending
              /\ published' = published \cup {o}
              /\ UNCHANGED <<pending, accepted, rows>>

LifecycleStep(o) == \/ Mark(o) \/ Unmark(o) \/ Accept(o)
                    \/ Persist(o) \/ Clear(o) \/ Publish(o)

LifecycleNext == \E o \in OrderIds : LifecycleStep(o)

LifecycleSpec == LifecycleInit /\ [][LifecycleNext]_lifecycleVars
=============================================================================
