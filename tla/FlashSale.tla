----------------------------- MODULE FlashSale ------------------------------
(***************************************************************************)
(* The purchase flow as a whole: any number of gateways in front of Redis, *)
(* any number of workers behind the order queue.  The two sides meet only  *)
(* in what they share: the Redis keys and the jobs of the queue.           *)
(***************************************************************************)
EXTENDS TicketsService, OrderProcessor

vars == <<redisVars, faults, jobs, callVars, openingVars, processVars, outcomeVars>>

(* The types; no stock is sold below zero, and a busy worker has its job.  *)
TypeOK == /\ faults \in 0 .. MaxFaults
          /\ jobs \in Seq(JobType(OrderJobData))
          /\ RedisTypeOK
          /\ GateTypeOK
          /\ WorkerTypeOK

Init == GateInit /\ WorkerInit

GateStep == GateNext /\ UNCHANGED <<processVars, outcomeVars>>

WorkerStep == WorkerNext /\ UNCHANGED <<callVars, openingVars>>

Next == GateStep \/ WorkerStep

Spec == Init /\ [][Next]_vars

-----------------------------------------------------------------------------
(* Safety of the sale.  "reinit", "resentStock", "resentRelease" and       *)
(* "lostAdd" are the faults that it does not survive; "expired" the one    *)
(* that visibility does not, and "resent" the one that the number of       *)
(* notifications does not.                                                 *)

SoldSeats(t) == {row \in orders : row.ticketId = t}

(* There are never more orders of a ticket than seats                      *)
(* (docs/architecture/flash-sale-architect-narrative.md:37).               *)
NoOversell == \A t \in Tickets : Cardinality(SoldSeats(t)) <= capacity[t]

(* But whatever fails, what is sold and what is left are never more than   *)
(* the seats that were put on sale, and one for each fault.  A SET that    *)
(* runs again does put its count on sale again; but of no other fault does *)
(* more come than one seat that is sold twice (redis.service.ts:20-50,     *)
(* tickets.service.ts:44-65, order-worker.processor.ts:35-66).             *)
OversellCostsFaults ==
  \A t \in Tickets : Cardinality(SoldSeats(t)) + CurrentStock(t) <= offered[t] + faults

(* The customers for whom a seat of the ticket is out of the stock, by a   *)
(* request under way, a job that is not done, or an order.                 *)
SpokenFor(t) ==
  {row.customerEmail : row \in SoldSeats(t)}
    \cup {body[r].customerEmail : r \in {r \in Requests :
             /\ call[r] \in {"mark", "enqueue", "release"}
             /\ body[r].ticketId = t}}
    \cup {jobs[i].data.customerEmail : i \in {i \in DOMAIN jobs :
             /\ jobs[i].state # "completed"
             /\ jobs[i].data.ticketId = t}}

(* And a fault loses one seat at most: those that are neither left nor     *)
(* anybody's, because a gateway died, an answer was lost or a customer was *)
(* refused for his own seat, are no more than the faults                   *)
(* (tickets.service.ts:32-65).                                             *)
EmptySeatsCostFaults ==
  \A t \in Tickets : stock[t] # NoKey =>
    capacity[t] <= stock[t] + Cardinality(SpokenFor(t)) + faults

(* A seat that is sold, or that a job is about to sell or may yet be made  *)
(* to sell, is reserved for that very customer, so nobody else can be      *)
(* given it.                                                               *)
OrdersBackedBySeats ==
  /\ \A row \in orders : row.customerEmail \in buyers[row.ticketId]
  /\ \A i \in DOMAIN jobs :
       jobs[i].data.customerEmail \in buyers[jobs[i].data.ticketId]

(* Whatever races, crashes or runs twice, a customer gets one order of a   *)
(* ticket (order-worker.processor.ts:35-83, order.entity.ts:10).           *)
OneOrderPerCustomer ==
  \A row1, row2 \in orders :
    (row1.ticketId = row2.ticketId /\ row1.customerEmail = row2.customerEmail)
      => row1 = row2

(* Why the above holds: the inductive invariant of the sale.  A seat is    *)
(* somebody's, and only his; a ticket being initialised has no stock, and  *)
(* one without stock no buyers; and a job, or a row, is that of an         *)
(* accepted request, which keeps its seat for good.                        *)
Seats ==
  /\ \A r \in Requests : Holding(r) => body[r].customerEmail \in buyers[body[r].ticketId]
  /\ \A r1, r2 \in Requests :
       (Holding(r1) /\ Holding(r2) /\ body[r1] = body[r2]) => r1 = r2
  /\ \A t \in Tickets : \A e \in buyers[t] :
       \E r \in Requests : Holding(r) /\ body[r] = [ticketId |-> t, customerEmail |-> e]

NoStockNoBuyers == \A t \in Tickets : stock[t] = NoKey => buyers[t] = {}

Openings ==
  /\ NoStockNoBuyers
  /\ \A c \in InitCalls : initCall[c] = "set" => stock[initBody[c].ticketId] = NoKey
  /\ \A c1, c2 \in Initialising :
       initBody[c1].ticketId = initBody[c2].ticketId => c1 = c2

Backed(data) == /\ call[data.orderId] = "accepted"
                /\ data = JobDataOf(data.orderId)

Backing == /\ \A i \in DOMAIN jobs : Backed(jobs[i].data)
           /\ \A row \in orders : \E data \in OrderJobData : Backed(data) /\ row = RowOf(data)

SaleInv == Seats /\ Openings /\ Conservation /\ Backing

-----------------------------------------------------------------------------
(* Safety of an order on its way                                           *)

PurchaseRecorded(r) == \E row \in orders : SamePurchase(row, body[r])

RowIds == {row.id : row \in orders}

(* The status endpoint can answer for every order a customer was told of:  *)
(* the pending key goes only after the row has come                        *)
(* (order-worker.processor.ts:53-85).                                      *)
AcceptedIsVisible ==
  \A r \in Requests : call[r] = "accepted" => r \in pending \cup RowIds

(* An accepted purchase is never dropped: until it has a row, one of its   *)
(* jobs is still in the queue, if only in its failed set.                  *)
AcceptedNeverLost ==
  \A r \in Requests : call[r] = "accepted" =>
    \/ PurchaseRecorded(r)
    \/ \E i \in DOMAIN jobs : /\ jobs[i].data.orderId = r
                              /\ jobs[i].state # "completed"

(* An event never runs ahead of the state it reports: when an order was    *)
(* published as completed, or its notification was queued, its row exists  *)
(* and its pending key is gone (order-worker.processor.ts:53-96).          *)
EventsFollowState ==
  \A o \in OrderIds : (o \in published \/ notified[o] > 0) => o \in RowIds \ pending

(* A customer is notified at most once, however often and by however many  *)
(* workers the job is run (order-worker.processor.ts:39-44, 60-96).        *)
NotifiedAtMostOnce == \A o \in OrderIds : notified[o] <= 1

(* Why the above holds: the inductive invariant of the orders.  A job, or  *)
(* a row, is that of a request which has sent its own; the rows obey both  *)
(* indexes; and a worker clears, publishes and notifies in this order,     *)
(* only of an order that has its row.                                      *)
Placed(data) == /\ call[data.orderId] \notin {"idle", "mark", "enqueue"}
                /\ data = JobDataOf(data.orderId)

Origins ==
  /\ \A i \in DOMAIN jobs : Placed(jobs[i].data)
  /\ \A row \in orders : \E data \in OrderJobData : Placed(data) /\ row = RowOf(data)
  /\ \A r \in Requests : call[r] = "accepted" => \E i \in DOMAIN jobs : jobs[i].data.orderId = r

UniqueRows == \A row1, row2 \in orders :
                (row1.id = row2.id \/ SamePurchase(row1, row2)) => row1 = row2

WorkInOrder ==
  /\ \A i \in DOMAIN jobs : jobs[i].state = "completed" => ExistingOrders(jobs[i].data) # {}
  /\ \A w \in Workers :
       /\ step[w] \in {"clear", "publish", "notify"} => Data(w).orderId \in RowIds
       /\ step[w] \in {"publish", "notify"} => Data(w).orderId \notin pending
       /\ step[w] = "publishDuplicate" =>
            \A row \in ExistingOrders(Data(w)) : row.id \notin pending

OrdersInv == Origins /\ UniqueRows /\ WorkInOrder /\ EventsFollowState

-----------------------------------------------------------------------------
(* The abstract sale, and the life of an order                             *)

Sale == INSTANCE TicketSale WITH
  held <- buyers,
  sold <- [t \in Tickets |-> {row.customerEmail : row \in SoldSeats(t)}]

(* With every fault but "reinit", "resentStock", "resentRelease" and       *)
(* "lostAdd", the sale keeps its promise step by step: it is opened once,  *)
(* nobody has a seat beyond its capacity, and none gives up one that is    *)
(* sold.                                                                   *)
RefinesTicketSale == Sale!Spec

Lifecycle == INSTANCE OrderLifecycle WITH
  accepted <- {r \in Requests : call[r] = "accepted"},
  rows <- RowIds

(* With every fault but "lostAdd" and "expired", an order goes through its *)
(* life in the order that the read side relies on.                         *)
RefinesOrderLifecycle == Lifecycle!LifecycleSpec

-----------------------------------------------------------------------------
(* What the documents say of a job that is done: the worker persists the   *)
(* order and publishes an OrderStatusUpdatedEvent                          *)
(* (docs/adr/0010-redis-pub-sub-for-order-status-sse-fan-out.md:37).       *)
CompletedJobAnnounced ==
  \A i \in DOMAIN jobs :
    jobs[i].state = "completed" => jobs[i].data.orderId \in published

-----------------------------------------------------------------------------
(* Liveness.  A gateway's event loop and a worker go on with the call they *)
(* are in, the workers take what waits in the queue, and BullMQ's stalled  *)
(* checker runs from a timer.  Nobody has to buy, and nothing has to fail. *)

Fairness ==
  /\ \A r \in Requests : WF_vars(CallProgress(r) /\ UNCHANGED <<processVars, outcomeVars>>)
  /\ \A w \in Workers : WF_vars(ProcessStep(w) /\ UNCHANGED <<callVars, openingVars>>)
  /\ WF_vars(/\ \E w \in Workers, i \in DOMAIN jobs : Take(w, i)
             /\ UNCHANGED <<callVars, openingVars>>)
  /\ WF_vars(/\ \E i \in DOMAIN jobs : StalledCheck(i)
             /\ UNCHANGED <<callVars, openingVars>>)

(* Every accepted purchase becomes an order, as long as it meets fewer     *)
(* faults than a job has attempts.                                         *)
AcceptedEventuallyRecorded ==
  \A r \in Requests :
    call[r] = "accepted" ~> (call[r] = "accepted" /\ PurchaseRecorded(r))

(* Redis and PostgreSQL agree in the end if no more than one call is ever  *)
(* refused: for good, the buyers of a ticket are the customers with an     *)
(* order of it (tickets.service.ts:44-65, order-worker.processor.ts:30-98).*)
EventuallyConsistent ==
  \/ <>(faults > 1)
  \/ <>[](\A t \in Tickets : buyers[t] = {row.customerEmail : row \in SoldSeats(t)})
=============================================================================
