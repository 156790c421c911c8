--------------------------- MODULE OrderProcessor ---------------------------
(***************************************************************************)
(* The order worker: OrderProcessor.process                                *)
(* (apps/order-worker/src/order-worker.processor.ts), which turns a job of *)
(* the order queue into a row of PostgreSQL's orders table, clears the     *)
(* pending key, publishes the completed event and queues a notification.   *)
(* Workers are processes that take one job at a time; each awaited call of *)
(* process() is a step.                                                    *)
(***************************************************************************)
EXTENDS RedisService, OrderQueue

VARIABLES
  step,         \* the call of process() each worker makes next
  current,      \* the job it processes, 0 when it has none
  created,      \* whether save() filled in newOrder.createdAt
  orders,       \* the rows of the orders table
  published,    \* history: the orders whose completed event was published
  notified      \* how many notification jobs were added for each order

processVars == <<step, current, created>>
outcomeVars == <<orders, published, notified>>
workerVars == <<redisVars, faults, jobs, processVars, outcomeVars>>

Steps == {"idle", "find", "select", "insert", "refind", "clear", "publish",
          "notify", "clearDuplicate", "publishDuplicate"}

Rows == [id : OrderIds, ticketId : Tickets, customerEmail : Emails]

WorkerTypeOK ==
  /\ step \in [Workers -> Steps]
  /\ current \in [Workers -> Nat]
  /\ \A w \in Workers : step[w] # "idle" => current[w] \in DOMAIN jobs
  /\ created \in [Workers -> BOOLEAN]
  /\ orders \in SUBSET Rows
  /\ published \in SUBSET OrderIds
  /\ notified \in [OrderIds -> Nat]

WorkerInit == /\ step = [w \in Workers |-> "idle"]
              /\ current = [w \in Workers |-> 0]
              /\ created = [w \in Workers |-> FALSE]
              /\ orders = {}
              /\ published = {}
              /\ notified = [o \in OrderIds |-> 0]

-----------------------------------------------------------------------------
Data(w) == jobs[current[w]].data

RowOf(data) == [id |-> data.orderId, ticketId |-> data.ticketId,
                customerEmail |-> data.customerEmail]

(* findOne({ ticketId, customerEmail }): the index on both is unique.      *)
SamePurchase(row, data) == /\ row.ticketId = data.ticketId
                           /\ row.customerEmail = data.customerEmail

ExistingOrders(data) == {row \in orders : SamePurchase(row, data)}

(* Rows are never deleted, so what a worker found it would find again.     *)
PersistedOrder(data) == CHOOSE row \in orders : SamePurchase(row, data)

(* Wrong: the table without its unique index on ticket and email.          *)
ConflictsOfKey(data) == {row \in orders : row.id = data.orderId}

(* What violates the primary key or the unique index of order.entity.ts    *)
Conflicts(data) == {row \in orders : \/ row.id = data.orderId
                                     \/ SamePurchase(row, data)}

Continue(w, next) == /\ step' = [step EXCEPT ![w] = next]
                     /\ UNCHANGED <<current, jobs>>

GoIdle(w) == /\ step' = [step EXCEPT ![w] = "idle"]
             /\ current' = [current EXCEPT ![w] = 0]

Return(w) == GoIdle(w) /\ CompleteJob(w, current[w])

Throw(w) == GoIdle(w) /\ FailJob(w, current[w])

-----------------------------------------------------------------------------
Take(w, i) ==
  /\ step[w] = "idle"
  /\ TakeJob(w, i)
  /\ step' = [step EXCEPT ![w] = "find"]
  /\ current' = [current EXCEPT ![w] = i]
  /\ UNCHANGED <<redisVars, faults, created, outcomeVars>>

(* A purchase that has a row already is skipped.                           *)
FindExisting(w) ==
  /\ step[w] = "find"
  /\ \/ /\ NoFault
        /\ ExistingOrders(Data(w)) # {}
        /\ Return(w)
     \/ /\ NoFault
        /\ ExistingOrders(Data(w)) = {}
        /\ Continue(w, "select")
     \/ Fault("refused") /\ Throw(w)
  /\ UNCHANGED <<redisVars, created, outcomeVars>>

(* Wrong: the entity is given a createdAt before it is saved.              *)
SaveSelectOfDatedEntity(w) ==
  /\ step[w] = "select"
  /\ NoFault
  /\ created' = [created EXCEPT ![w] = TRUE]
  /\ Continue(w, IF \E row \in orders : row.id = Data(w).orderId
                   THEN "clear" ELSE "insert")
  /\ UNCHANGED <<redisVars, outcomeVars>>

(* save() in a transaction: TypeORM first selects by primary key, and an   *)
(* entity it finds unchanged is not written and gets no createdAt.         *)
SaveSelect(w) ==
  LET saved == \E row \in orders : row.id = Data(w).orderId
  IN  /\ step[w] = "select"
      /\ \/ /\ NoFault
            /\ created' = [created EXCEPT ![w] = ~saved]
            /\ Continue(w, IF saved THEN "clear" ELSE "insert")
         \/ Fault("refused") /\ Throw(w) /\ UNCHANGED created
      /\ UNCHANGED <<redisVars, outcomeVars>>

(* Wrong: the catch block does not rethrow what is no unique violation.    *)
SaveInsertSwallowing(w) ==
  /\ step[w] = "insert"
  /\ \/ /\ Conflicts(Data(w)) = {}
        /\ NoFault
        /\ orders' = orders \cup {RowOf(Data(w))}
     \/ Fault("refused") /\ UNCHANGED orders
  /\ Continue(w, "clear")
  /\ UNCHANGED <<redisVars, created, published, notified>>

(* ... then inserts and commits, unless another worker's row is there.     *)
SaveInsert(w) ==
  /\ step[w] = "insert"
  /\ \/ /\ Conflicts(Data(w)) # {}
        /\ NoFault
        /\ Continue(w, "refind")
        /\ UNCHANGED orders
     \/ /\ Conflicts(Data(w)) = {}
        /\ NoFault
        /\ Continue(w, "clear")
        /\ orders' = orders \cup {RowOf(Data(w))}
     \/ /\ Conflicts(Data(w)) = {}
        /\ Fault("lost")
        /\ Throw(w)
        /\ orders' = orders \cup {RowOf(Data(w))}
     \/ Fault("refused") /\ Throw(w) /\ UNCHANGED orders
  /\ UNCHANGED <<redisVars, created, published, notified>>

(* After a unique violation: find the row that won.                        *)
Refind(w) ==
  /\ step[w] = "refind"
  /\ \/ /\ NoFault
        /\ ExistingOrders(Data(w)) # {}
        /\ Continue(w, "clearDuplicate")
     \/ /\ IF ExistingOrders(Data(w)) = {} THEN NoFault ELSE Fault("refused")
        /\ Throw(w)
  /\ UNCHANGED <<redisVars, created, outcomeVars>>

(* Wrong: clearPending is not awaited, so its failure is not seen.         *)
ClearPendingUnawaited(w, here, order, next) ==
  /\ step[w] = here
  /\ \E a \in Answers : Answered(a) /\ DeletePendingOrderStatus(order, a)
  /\ Continue(w, next)
  /\ UNCHANGED <<stock, buyers, created, outcomeVars>>

(* orderStatusService.clearPending and publishStatusUpdated, of the row    *)
(* just saved or of the one found.                                         *)
ClearPending(w, here, order, next) ==
  /\ step[w] = here
  /\ \E a \in Answers : /\ Answered(a)
                        /\ DeletePendingOrderStatus(order, a)
                        /\ IF a = "ok" THEN Continue(w, next) ELSE Throw(w)
  /\ UNCHANGED <<stock, buyers, created, outcomeVars>>

PublishStatusUpdated(order, a) ==
  published' = IF Applied(a) THEN published \cup {order} ELSE published

ClearPendingOfOrder(w) ==
  ClearPending(w, "clear", Data(w).orderId, "publish")

ClearPendingOfDuplicate(w) ==
  ClearPending(w, "clearDuplicate", PersistedOrder(Data(w)).id, "publishDuplicate")

PublishOrder(w) ==
  /\ step[w] = "publish"
  /\ \E a \in Answers : /\ Answered(a)
                        /\ PublishStatusUpdated(Data(w).orderId, a)
                        /\ IF a = "ok" THEN Continue(w, "notify") ELSE Throw(w)
  /\ UNCHANGED <<redisVars, created, orders, notified>>

PublishDuplicate(w) ==
  /\ step[w] = "publishDuplicate"
  /\ \E a \in Answers : /\ Answered(a)
                        /\ PublishStatusUpdated(PersistedOrder(Data(w)).id, a)
                        /\ IF a = "ok" THEN Return(w) ELSE Throw(w)
  /\ UNCHANGED <<redisVars, created, orders, notified>>

(* notificationQueue.add: its argument calls createdAt.toISOString(),      *)
(* which throws when save() left createdAt undefined.                      *)
Notify(w) ==
  LET AddNotifications(n) ==
        notified' = [notified EXCEPT ![Data(w).orderId] = @ + n]
  IN  /\ step[w] = "notify"
      /\ \/ ~created[w] /\ NoFault /\ UNCHANGED notified /\ Throw(w)
         \/ created[w] /\ NoFault /\ AddNotifications(1) /\ Return(w)
         \/ created[w] /\ Fault("resent") /\ AddNotifications(2) /\ Return(w)
         \/ created[w] /\ Fault("refused") /\ UNCHANGED notified /\ Throw(w)
         \/ created[w] /\ Fault("lost") /\ AddNotifications(1) /\ Throw(w)
      /\ UNCHANGED <<redisVars, created, orders, published>>

(* A worker dies and restarts; its job stays locked until it stalls.       *)
WorkerCrash(w) ==
  /\ step[w] # "idle"
  /\ Fault("crash")
  /\ GoIdle(w)
  /\ UNCHANGED <<redisVars, jobs, created, outcomeVars>>

(* BullMQ's stalled checker.  A live worker renews its lock, so it is only *)
(* found stalled by a fault, such as a blocked event loop.                 *)
StalledCheck(i) ==
  /\ RequeueStalled(i)
  /\ IF current[jobs[i].lock] = i THEN Fault("stalled") ELSE NoFault
  /\ UNCHANGED <<redisVars, processVars, outcomeVars>>

ProcessStep(w) ==
  \/ FindExisting(w)
  \/ SaveSelect(w)
  \/ SaveInsert(w)
  \/ Refind(w)
  \/ ClearPendingOfOrder(w)
  \/ ClearPendingOfDuplicate(w)
  \/ PublishOrder(w)
  \/ PublishDuplicate(w)
  \/ Notify(w)

WorkerNext == \/ \E w \in Workers : \/ \E i \in DOMAIN jobs : Take(w, i)
                                    \/ ProcessStep(w)
                                    \/ WorkerCrash(w)
              \/ \E i \in DOMAIN jobs : StalledCheck(i)
=============================================================================
