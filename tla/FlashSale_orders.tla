-------------------------- MODULE FlashSale_orders --------------------------
(***************************************************************************)
(* The safety of an order on its way from an accepted request to a row, an *)
(* event and a notification, for every number of requests, workers,        *)
(* attempts and faults; that its life is the one of OrderLifecycle; and    *)
(* how many seats a fault of any kind can lose or sell twice at most.      *)
(***************************************************************************)
EXTENDS FlashSale_proofs

(* What the data of an order keeps: the request that sent it has a body,   *)
(* which never changes again.                                              *)
LEMMA PlacedKept ==
  ASSUME TypeOK, GateNext, NEW data \in OrderJobData, Placed(data)
  PROVE  Placed(data)'
<1> DEFINE o == data.orderId
<1>1. o \in Requests /\ call[o] \in CallStates \ {"idle", "mark", "enqueue"}
  BY DEF Placed, OrderJobData, Requests, TypeOK, GateTypeOK
<1>2. ASSUME NEW r \in Requests, RequestStep(r)
      PROVE  call'[o] \notin {"idle", "mark", "enqueue"} /\ body'[o] = body[o]
  <2>1. CASE r = o
    BY <1>1, <1>2, <2>1 DEF RequestStep, Reserve, ResendReserve, MarkPending, Enqueue, Release,
       ResendRelease, ClearPendingOfFailedCall, GatewayCrash, callVars, Goto, TypeOK,
       GateTypeOK, CallStates
  <2>2. CASE r # o
    BY <1>1, <1>2, <2>2 DEF RequestStep, Reserve, ResendReserve, MarkPending, Enqueue, Release,
       ResendRelease, ClearPendingOfFailedCall, GatewayCrash, callVars, Goto, TypeOK, GateTypeOK
  <2> QED  BY <2>1, <2>2
<1>3. call'[o] \notin {"idle", "mark", "enqueue"} /\ body'[o] = body[o]
  BY <1>1, <1>2 DEF GateNext, InitStep, Expire, callVars
<1> QED  BY <1>3 DEF Placed, JobDataOf

(* A gateway's steps touch the queue only to add a job of the request that *)
(* then leaves "enqueue".                                                  *)
LEMMA GateOrigins ==
  ASSUME TypeInv, OrdersInv, GateStep
  PROVE  Origins'
<1> USE DEF TypeInv, GateStep
<1>1. UNCHANGED orders
  BY DEF outcomeVars
<1>2. \A i \in DOMAIN jobs : jobs[i].data \in OrderJobData /\ Placed(jobs[i].data)
  BY JobData DEF TypeOK, OrdersInv, Origins
<1>3. \A data \in OrderJobData : Placed(data) => Placed(data)'
  BY PlacedKept
<1>4. (\A row \in orders : \E data \in OrderJobData : Placed(data) /\ row = RowOf(data))'
  BY <1>1, <1>3 DEF OrdersInv, Origins, RowOf
<1>5. CASE \E r \in Requests : /\ Enqueue(r)
                               /\ JobDataOf(r) \in OrderJobData
                               /\ AddJob(JobDataOf(r)) \/ AddJobTwice(JobDataOf(r))
  <2>1. PICK r \in Requests : /\ Enqueue(r)
                              /\ JobDataOf(r) \in OrderJobData
                              /\ AddJob(JobDataOf(r)) \/ AddJobTwice(JobDataOf(r))
    BY <1>5
  <2>2. /\ DOMAIN jobs \subseteq DOMAIN jobs'
        /\ DOMAIN jobs # DOMAIN jobs'
        /\ \A j \in DOMAIN jobs : jobs'[j] = jobs[j]
        /\ \A j \in DOMAIN jobs' \ DOMAIN jobs : jobs'[j].data = JobDataOf(r)
    BY <2>1, AddKeeps DEF TypeOK
  <2>3. /\ JobDataOf(r)' = JobDataOf(r) /\ JobDataOf(r).orderId = r
        /\ call'[r] \notin {"idle", "mark", "enqueue"}
        /\ \A q \in Requests \ {r} : call'[q] = call[q]
    BY <2>1 DEF Enqueue, Goto, JobDataOf, TypeOK, GateTypeOK
  <2>4. (\A i \in DOMAIN jobs : Placed(jobs[i].data))'
    <3> SUFFICES ASSUME NEW i \in DOMAIN jobs' PROVE Placed(jobs[i].data)'
      OBVIOUS
    <3>1. CASE i \in DOMAIN jobs
      <4>1. PICK data \in OrderJobData : data = jobs[i].data /\ Placed(data)
        BY <1>2, <3>1
      <4>2. Placed(data)' /\ jobs'[i].data = data
        BY <1>3, <2>2, <3>1, <4>1
      <4> QED  BY <4>2 DEF Placed
    <3>2. CASE i \notin DOMAIN jobs
      BY <2>2, <2>3, <3>2 DEF Placed
    <3> QED  BY <3>1, <3>2
  <2>5. (\A q \in Requests : call[q] = "accepted" =>
           \E i \in DOMAIN jobs : jobs[i].data.orderId = q)'
    <3>1. \E i \in DOMAIN jobs' : jobs'[i].data.orderId = r
      BY <2>2, <2>3
    <3>2. \A q \in Requests : call[q] = "accepted" =>
            \E i \in DOMAIN jobs' : jobs'[i].data.orderId = q
      BY <2>2 DEF OrdersInv, Origins
    <3> QED  BY <2>3, <3>1, <3>2
  <2> QED  BY <1>4, <2>4, <2>5 DEF Origins
<1>6. CASE ~\E r \in Requests : /\ Enqueue(r)
                                /\ JobDataOf(r) \in OrderJobData
                                /\ AddJob(JobDataOf(r)) \/ AddJobTwice(JobDataOf(r))
  <2>1. UNCHANGED jobs
    BY <1>6, GateQueue
  <2>2. \A r \in Requests : call'[r] = "accepted" => call[r] = "accepted"
    <3>1. \A r \in Requests : Enqueue(r) => Goto(r, "release")
      BY <1>6 DEF Enqueue, TypeOK, GateTypeOK, JobDataOf, OrderJobData, Bodies, Requests
    <3>2. ASSUME NEW r \in Requests, RequestStep(r)
          PROVE  UNCHANGED call \/ \E state \in CallStates \ {"accepted"} : Goto(r, state)
      BY <3>1, <3>2 DEF RequestStep, Reserve, ResendReserve, MarkPending, Enqueue, Release,
         ResendRelease, ClearPendingOfFailedCall, GatewayCrash, callVars, BuyTicketReplies,
         CallStates
    <3> QED  BY <3>2 DEF GateNext, InitStep, Expire, callVars, Goto, TypeOK, GateTypeOK
  <2>3. (\A i \in DOMAIN jobs : Placed(jobs[i].data))'
    BY <1>2, <1>3, <2>1 DEF Placed
  <2>4. (\A q \in Requests : call[q] = "accepted" =>
           \E i \in DOMAIN jobs : jobs[i].data.orderId = q)'
    BY <2>1, <2>2 DEF OrdersInv, Origins
  <2> QED  BY <1>4, <2>3, <2>4 DEF Origins
<1> QED  BY <1>5, <1>6

(* A request that marks its order pending has not sent it yet, so the      *)
(* pending key of an order with a row never comes back.                    *)
LEMMA GatePending ==
  ASSUME TypeInv, OrdersInv, GateNext, NEW o \in RowIds, o \in pending'
  PROVE  o \in pending
<1>1. PICK data \in OrderJobData : Placed(data) /\ o = data.orderId
  BY DEF RowIds, RowOf, OrdersInv, Origins
<1>2. o \in Requests /\ call[o] # "mark"
  BY <1>1 DEF Placed, OrderJobData, Requests
<1>3. ASSUME NEW r \in Requests, RequestStep(r)
      PROVE  pending' \subseteq pending \/ (call[r] = "mark" /\ pending' \subseteq pending \cup {r})
  BY <1>3 DEF RequestStep, Reserve, ResendReserve, MarkPending, Enqueue, Release, ResendRelease,
     ClearPendingOfFailedCall, GatewayCrash, callVars, redisVars, SetPendingOrderStatus,
     DeletePendingOrderStatus
<1> QED  BY <1>2, <1>3 DEF GateNext, InitStep, InitTickets, InitDel, ResendDel, InitSet,
         Expire, PendingExpires

(* The gateways keep the invariant of the orders.                          *)
LEMMA GateOrders ==
  ASSUME TypeInv, OrdersInv, GateStep
  PROVE  OrdersInv'
<1> USE DEF GateStep
<1>1. UNCHANGED <<step, current, created, orders, published, notified, RowIds>>
  BY DEF processVars, outcomeVars, RowIds
<1>2. /\ \A j \in DOMAIN jobs : j \in DOMAIN jobs' /\ jobs'[j] = jobs[j]
      /\ \A j \in DOMAIN jobs' : j \in DOMAIN jobs \/ jobs'[j].state = "wait"
  BY GateQueue, AddKeeps DEF TypeInv, TypeOK
<1>3. UniqueRows' /\ EventsFollowState'
  BY <1>1, GatePending DEF OrdersInv, UniqueRows, EventsFollowState, SamePurchase
<1>4. \A w \in Workers : step[w] # "idle" => Data(w)' = Data(w)
  BY <1>1, <1>2 DEF TypeInv, TypeOK, WorkerTypeOK, Data
<1>5. WorkInOrder'
  <2>1. (\A i \in DOMAIN jobs : jobs[i].state = "completed" => ExistingOrders(jobs[i].data) # {})'
    BY <1>1, <1>2 DEF OrdersInv, WorkInOrder, ExistingOrders, SamePurchase
  <2>2. ASSUME NEW w \in Workers, step[w] # "idle"
        PROVE  ExistingOrders(Data(w))' = ExistingOrders(Data(w))
    BY <1>1, <1>4, <2>2 DEF ExistingOrders, SamePurchase
  <2>3. \A w \in Workers : \A row \in ExistingOrders(Data(w)) : row.id \in RowIds
    BY DEF ExistingOrders, RowIds
  <2> QED  BY <1>1, <1>4, <2>1, <2>2, <2>3, GatePending DEF OrdersInv, WorkInOrder
<1> QED  BY <1>3, <1>5, GateOrigins DEF OrdersInv

-----------------------------------------------------------------------------
(* The steps of the workers *)

(* The row of an order is a row of its purchase: the worker that finds one *)
(* by id has found the other, and the purchase has one row only.           *)
LEMMA RowOfData ==
  ASSUME OrdersInv, NEW data \in OrderJobData, Placed(data), data.orderId \in RowIds
  PROVE  ExistingOrders(data) # {}
<1>1. PICK row \in orders, d \in OrderJobData :
        row.id = data.orderId /\ Placed(d) /\ row = RowOf(d)
  BY DEF OrdersInv, Origins, RowIds
<1>2. SamePurchase(row, data)
  BY <1>1 DEF Placed, RowOf, SamePurchase
<1> QED  BY <1>2 DEF ExistingOrders

(* A step of process() goes on to clear, publish and notify only what it   *)
(* has saved, found or cleared before it; and it returns only when the     *)
(* purchase has a row.                                                     *)
ProcessOutcome(w) ==
  /\ \E next \in Steps :
       /\ step' = [step EXCEPT ![w] = next]
       /\ next \in {"clear", "publish", "notify"} => \E row \in orders' : row.id = Data(w).orderId
       /\ next \in {"publish", "notify"} => Data(w).orderId \notin pending'
       /\ next = "publishDuplicate" => \A row \in ExistingOrders(Data(w)) : row.id \notin pending'
  /\ UNCHANGED jobs \/ Throw(w) \/ (Return(w) /\ ExistingOrders(Data(w)) # {})
  /\ UNCHANGED orders \/ (Conflicts(Data(w)) = {} /\ orders' = orders \cup {RowOf(Data(w))})
  /\ pending' \subseteq pending /\ pending \ pending' \subseteq RowIds
  /\ published' \subseteq published \cup (RowIds \ pending)
  /\ UNCHANGED notified \/
       /\ Data(w).orderId \in RowIds \ pending
       /\ \E n \in 1 .. 2 : notified' = [notified EXCEPT ![Data(w).orderId] = @ + n]

(* Each of the nine steps of process() does.                               *)
LEMMA ProcessStepOutcome ==
  ASSUME TypeInv, OrdersInv, NEW w \in Workers, ProcessStep(w)
  PROVE  ProcessOutcome(w)
<1> USE DEF ProcessOutcome, Steps, redisVars, outcomeVars, Continue, Return, Throw, GoIdle
<1>1. Data(w) \in OrderJobData /\ Placed(Data(w))
  <2>1. current[w] \in DOMAIN jobs
    BY DEF TypeInv, TypeOK, WorkerTypeOK, ProcessStep, FindExisting, SaveSelect, SaveInsert,
       Refind, ClearPendingOfOrder, ClearPendingOfDuplicate, ClearPending, PublishOrder,
       PublishDuplicate, Notify
  <2> QED  BY <2>1, JobData DEF TypeInv, TypeOK, OrdersInv, Origins, Data
<1>2. CASE FindExisting(w)
  BY <1>2 DEF FindExisting
<1>3. CASE SaveSelect(w)
  BY <1>3 DEF SaveSelect
<1>4. CASE SaveInsert(w)
  <2>1. RowOf(Data(w)).id = Data(w).orderId
    BY DEF RowOf
  <2>2. CASE UNCHANGED orders /\ (Continue(w, "refind") \/ Throw(w))
    BY <1>4, <2>2 DEF SaveInsert
  <2>3. CASE /\ Conflicts(Data(w)) = {}
             /\ orders' = orders \cup {RowOf(Data(w))}
             /\ Continue(w, "clear") \/ Throw(w)
    <3>1. RowOf(Data(w)) \in orders'
      BY <2>3
    <3> QED  BY <1>4, <2>1, <2>3, <3>1 DEF SaveInsert
  <2> QED  BY <1>4, <2>2, <2>3 DEF SaveInsert
<1>5. CASE Refind(w)
  BY <1>5 DEF Refind
<1>6. CASE ClearPendingOfOrder(w)
  <2>1. Data(w).orderId \in RowIds
    BY <1>6 DEF ClearPendingOfOrder, ClearPending, OrdersInv, WorkInOrder
  <2> QED  BY <1>6, <2>1 DEF ClearPendingOfOrder, ClearPending, DeletePendingOrderStatus, RowIds,
           Applied
<1>7. CASE ClearPendingOfDuplicate(w)
  <2>1. PICK found \in orders : found = PersistedOrder(Data(w)) /\ SamePurchase(found, Data(w))
    BY <1>7 DEF ClearPendingOfDuplicate, ClearPending, TypeInv, DuplicateFound, PersistedOrder
  <2>2. \A row \in ExistingOrders(Data(w)) : row = found
    BY <2>1 DEF OrdersInv, UniqueRows, ExistingOrders, SamePurchase
  <2> QED  BY <1>7, <2>1, <2>2 DEF ClearPendingOfDuplicate, ClearPending, DeletePendingOrderStatus,
           RowIds, Applied
<1>8. CASE PublishOrder(w)
  <2>1. Data(w).orderId \in RowIds \ pending
    BY <1>8 DEF PublishOrder, OrdersInv, WorkInOrder
  <2> QED  BY <1>8, <2>1 DEF PublishOrder, PublishStatusUpdated, RowIds
<1>9. CASE PublishDuplicate(w)
  <2>1. PICK found \in orders : found = PersistedOrder(Data(w)) /\ SamePurchase(found, Data(w))
    BY <1>9 DEF PublishDuplicate, TypeInv, DuplicateFound, PersistedOrder
  <2>2. found \in ExistingOrders(Data(w)) /\ found.id \in RowIds \ pending
    BY <1>9, <2>1 DEF PublishDuplicate, OrdersInv, WorkInOrder, ExistingOrders, RowIds
  <2> QED  BY <1>9, <2>1, <2>2 DEF PublishDuplicate, PublishStatusUpdated
<1>10. CASE Notify(w)
  <2>1. Data(w).orderId \in RowIds \ pending
    BY <1>10 DEF Notify, OrdersInv, WorkInOrder
  <2>2. ExistingOrders(Data(w)) # {}
    BY <1>1, <2>1, RowOfData
  <2> QED  BY <1>10, <2>1, <2>2 DEF Notify
<1> QED  BY <1>2, <1>3, <1>4, <1>5, <1>6, <1>7, <1>8, <1>9, <1>10 DEF ProcessStep

(* A job is completed by a process() that returns: not by one that is      *)
(* taken, throws, or stalls.                                               *)
LEMMA OnlyReturnCompletes ==
  ASSUME NEW D, jobs \in Seq(JobType(D)), NEW w, NEW i \in DOMAIN jobs,
         TakeJob(w, i) \/ FailJob(w, i) \/ RequeueStalled(i)
  PROVE  \A j \in DOMAIN jobs : jobs'[j].state = "completed" => jobs[j].state = "completed"
<1>1. jobs[i] \in JobType(D)
  OBVIOUS
<1>2. ASSUME NEW job, job.state # "completed", Change(i, job)
      PROVE  \A j \in DOMAIN jobs : jobs'[j].state = "completed" => jobs[j].state = "completed"
  BY <1>2 DEF Change
<1>3. CASE TakeJob(w, i)
  BY <1>1, <1>2, <1>3 DEF TakeJob, JobType
<1>4. CASE FailJob(w, i)
  <2> DEFINE next == IF jobs[i].attempts + 1 < Attempts THEN "wait" ELSE "failed"
             made == jobs[i].attempts + 1
             tried == [jobs[i] EXCEPT !.state = next, !.lock = NoWorker, !.attempts = made]
  <2>1. tried.state # "completed"
    <3>1. next # "completed"
      OBVIOUS
    <3> HIDE DEF next, made
    <3> QED  BY <1>1, <3>1 DEF JobType
  <2>2. UNCHANGED jobs \/ Change(i, tried)
    BY <1>4 DEF FailJob
  <2> HIDE DEF tried
  <2> QED  BY <1>2, <2>1, <2>2
<1>5. CASE RequeueStalled(i)
  <2> DEFINE next == IF jobs[i].stalls < MaxStalls THEN "wait" ELSE "failed"
             count == jobs[i].stalls + 1
             stalled == [jobs[i] EXCEPT !.state = next, !.lock = NoWorker, !.stalls = count]
  <2>1. stalled.state # "completed"
    <3>1. next # "completed"
      OBVIOUS
    <3> HIDE DEF next, count
    <3> QED  BY <1>1, <3>1 DEF JobType
  <2>2. Change(i, stalled)
    BY <1>5 DEF RequeueStalled
  <2> HIDE DEF stalled
  <2> QED  BY <1>2, <2>1, <2>2
<1> QED  BY <1>3, <1>4, <1>5

(* A row that has no conflict when it is inserted leaves both indexes      *)
(* unique, and takes no purchase that had a row.                           *)
LEMMA InsertKeepsUnique ==
  ASSUME OrdersInv, NEW data, Conflicts(data) = {}, orders' = orders \cup {RowOf(data)}
  PROVE  /\ UniqueRows'
         /\ \A row \in orders : ~SamePurchase(row, RowOf(data))
<1>1. \A row \in orders : row.id # RowOf(data).id /\ ~SamePurchase(row, RowOf(data))
  BY DEF Conflicts, RowOf, SamePurchase
<1>2. \A row \in orders : ~SamePurchase(RowOf(data), row)
  BY <1>1 DEF SamePurchase
<1> HIDE DEF RowOf
<1>3. \A row1, row2 \in orders' : (row1.id = row2.id \/ SamePurchase(row1, row2)) => row1 = row2
  BY <1>1, <1>2 DEF OrdersInv, UniqueRows
<1> QED  BY <1>1, <1>3 DEF UniqueRows, SamePurchase

(* A step of process() keeps the invariant: what it says of the worker     *)
(* itself is the outcome of its step, and what it says of the others, and  *)
(* of the jobs, only grows truer with the rows.                            *)
LEMMA ProcessOrders ==
  ASSUME TypeInv, OrdersInv, NEW w \in Workers, ProcessStep(w), WorkerStep
  PROVE  OrdersInv'
<1>1. ProcessOutcome(w)
  BY ProcessStepOutcome
<1>2. /\ DOMAIN jobs' = DOMAIN jobs
      /\ \A j \in DOMAIN jobs : jobs'[j].data = jobs[j].data
      /\ \A j \in DOMAIN jobs : jobs[j].data \in OrderJobData /\ Placed(jobs[j].data)
  BY WorkerQueue, JobData DEF WorkerStep, TypeInv, TypeOK, OrdersInv, Origins
<1>3. UNCHANGED <<call, body>> /\ orders \subseteq orders' /\ RowIds \subseteq RowIds'
  BY <1>1 DEF WorkerStep, callVars, ProcessOutcome, RowIds
<1>4. step[w] # "idle" /\ current[w] \in DOMAIN jobs
  BY DEF TypeInv, TypeOK, WorkerTypeOK, ProcessStep, FindExisting, SaveSelect, SaveInsert,
     Refind, ClearPendingOfOrder, ClearPendingOfDuplicate, ClearPending, PublishOrder,
     PublishDuplicate, Notify
<1>5. Origins'
  <2>1. \A data : Placed(data) => Placed(data)'
    BY <1>3 DEF Placed, JobDataOf
  <2>2. (\A row \in orders : \E data \in OrderJobData : Placed(data) /\ row = RowOf(data))'
    BY <1>1, <1>2, <1>4, <2>1 DEF OrdersInv, Origins, ProcessOutcome, RowOf, Data
  <2> QED  BY <1>2, <1>3, <2>1, <2>2 DEF OrdersInv, Origins, Placed, JobDataOf
<1>6. UniqueRows'
  BY <1>1, InsertKeepsUnique DEF ProcessOutcome, OrdersInv, UniqueRows, SamePurchase
<1>7. ASSUME NEW data, ExistingOrders(data) # {}
      PROVE  /\ ExistingOrders(data)' # {}
             /\ \A row \in orders' : SamePurchase(row, data) => row \in ExistingOrders(data)
  <2>1. PICK old \in orders : SamePurchase(old, data)
    BY <1>7 DEF ExistingOrders
  <2>2. \A row \in orders' : SamePurchase(row, data) => row = old
    BY <1>3, <1>6, <2>1 DEF UniqueRows, SamePurchase
  <2> QED  BY <1>3, <2>1, <2>2 DEF ExistingOrders, SamePurchase
<1>8. (\A i \in DOMAIN jobs : jobs[i].state = "completed" => ExistingOrders(jobs[i].data) # {})'
  <2>1. \A j \in DOMAIN jobs : (jobs'[j].state = "completed" /\ jobs[j].state # "completed") =>
          j = current[w] /\ ExistingOrders(Data(w)) # {}
    <3>1. CASE UNCHANGED jobs
      BY <3>1
    <3>2. CASE Throw(w)
      BY <1>4, <3>2, OnlyReturnCompletes DEF Throw, TypeInv, TypeOK
    <3>3. CASE Return(w) /\ ExistingOrders(Data(w)) # {}
      BY <3>3 DEF Return, CompleteJob, Change
    <3> QED  BY <1>1, <3>1, <3>2, <3>3 DEF ProcessOutcome
  <2>2. \A j \in DOMAIN jobs : jobs'[j].state = "completed" => ExistingOrders(jobs[j].data) # {}
    BY <2>1 DEF OrdersInv, WorkInOrder, Data
  <2> QED  BY <1>2, <1>7, <2>2 DEF ExistingOrders, SamePurchase
<1>9. ASSUME NEW v \in Workers, step'[v] # "idle"
      PROVE  /\ step'[v] \in {"clear", "publish", "notify"} => Data(v)'.orderId \in RowIds'
             /\ step'[v] \in {"publish", "notify"} => Data(v)'.orderId \notin pending'
             /\ step'[v] = "publishDuplicate" =>
                  \A row \in orders' : SamePurchase(row, Data(v)') => row.id \notin pending'
  <2>1. Data(v)' = Data(v)
    <3>1. current'[v] = current[v] /\ current[v] \in DOMAIN jobs
      <4>1. ProcessFrame(w)
        BY ProcessStepFrame DEF TypeInv, TypeOK
      <4> QED  BY <1>4, <1>9, <4>1 DEF ProcessFrame, TypeInv, TypeOK, WorkerTypeOK
    <3> QED  BY <1>2, <3>1 DEF Data
  <2>2. step'[v] = "publishDuplicate" => ExistingOrders(Data(v)) # {}
    <3>1. DuplicateFound'
      BY WorkerTypeInv DEF TypeInv
    <3>2. CASE v = w
      BY <1>9, <3>2 DEF ProcessStep, FindExisting, SaveSelect, SaveInsert, Refind,
         ClearPendingOfOrder, ClearPendingOfDuplicate, ClearPending, PublishOrder,
         PublishDuplicate, Notify, Continue, Return, Throw, GoIdle, TypeInv, TypeOK,
         WorkerTypeOK, DuplicateFound, ExistingOrders
    <3>3. CASE v # w
      BY <1>1, <3>3 DEF ProcessOutcome, TypeInv, TypeOK, WorkerTypeOK, DuplicateFound, ExistingOrders
    <3> QED  BY <3>2, <3>3
  <2>3. CASE v = w
    BY <1>1, <1>7, <2>1, <2>2, <2>3 DEF ProcessOutcome, RowIds, TypeInv, TypeOK, WorkerTypeOK
  <2>4. CASE v # w
    <3>1. step'[v] = step[v] /\ pending' \subseteq pending
      BY <1>1, <2>4 DEF ProcessOutcome, TypeInv, TypeOK, WorkerTypeOK
    <3> QED  BY <1>3, <1>7, <2>1, <2>2, <3>1 DEF OrdersInv, WorkInOrder
  <2> QED  BY <2>3, <2>4
<1>10. WorkInOrder'
  <2>1. \A v \in Workers : step'[v] = "publishDuplicate" =>
          \A row \in ExistingOrders(Data(v))' : row.id \notin pending'
    BY <1>9 DEF ExistingOrders, SamePurchase
  <2> QED  BY <1>8, <1>9, <2>1 DEF WorkInOrder
<1>11. EventsFollowState'
  BY <1>1, <1>3 DEF ProcessOutcome, OrdersInv, EventsFollowState, TypeInv, TypeOK, WorkerTypeOK
<1> QED  BY <1>5, <1>6, <1>10, <1>11 DEF OrdersInv

(* Taking a job, dying and losing a lock change no order, and complete no  *)
(* job.                                                                    *)
LEMMA WorkerOrders ==
  ASSUME TypeInv, OrdersInv, WorkerStep
  PROVE  OrdersInv'
<1>1. CASE \E w \in Workers : ProcessStep(w)
  BY <1>1, ProcessOrders
<1>2. ASSUME \/ \E w \in Workers : (\E i \in DOMAIN jobs : Take(w, i)) \/ WorkerCrash(w)
             \/ \E i \in DOMAIN jobs : StalledCheck(i)
      PROVE  OrdersInv'
  <2>1. UNCHANGED <<stock, buyers, pending, orders, published, notified, RowIds>>
    BY <1>2 DEF Take, WorkerCrash, StalledCheck, redisVars, outcomeVars, RowIds
  <2>2. UNCHANGED <<call, body>>
    BY DEF WorkerStep, callVars
  <2>3. /\ DOMAIN jobs' = DOMAIN jobs
        /\ \A j \in DOMAIN jobs : jobs'[j].data = jobs[j].data
    BY WorkerQueue DEF WorkerStep, TypeInv
  <2>4. \A j \in DOMAIN jobs : jobs'[j].state = "completed" => jobs[j].state = "completed"
    <3>1. jobs \in Seq(JobType(OrderJobData))
      BY DEF TypeInv, TypeOK
    <3>2. UNCHANGED jobs \/ \E w : \E i \in DOMAIN jobs : TakeJob(w, i) \/ RequeueStalled(i)
      BY <1>2 DEF Take, WorkerCrash, StalledCheck
    <3> QED  BY <3>1, <3>2, OnlyReturnCompletes
  <2>5. Origins' /\ UniqueRows' /\ EventsFollowState'
    BY <2>1, <2>2, <2>3 DEF OrdersInv, Origins, UniqueRows, EventsFollowState, Placed, JobDataOf,
       RowOf, SamePurchase
  <2>6. ASSUME NEW v \in Workers, step'[v] \notin {"idle", "find"}
        PROVE  step'[v] = step[v] /\ Data(v)' = Data(v)
    <3>1. step'[v] = step[v] /\ current'[v] = current[v] /\ current[v] \in DOMAIN jobs
      BY <1>2, <2>6 DEF Take, WorkerCrash, StalledCheck, GoIdle, processVars, TypeInv, TypeOK,
         WorkerTypeOK
    <3> QED  BY <2>3, <3>1 DEF Data
  <2>7. \A data : ExistingOrders(data)' = ExistingOrders(data)
    BY <2>1 DEF ExistingOrders, SamePurchase
  <2>8. (\A j \in DOMAIN jobs : jobs[j].state = "completed" => ExistingOrders(jobs[j].data) # {})'
    BY <2>1, <2>3, <2>4 DEF OrdersInv, WorkInOrder, ExistingOrders, SamePurchase
  <2>9. ASSUME NEW v \in Workers, step'[v] \notin {"idle", "find"}
        PROVE  /\ step'[v] \in {"clear", "publish", "notify"} => Data(v)'.orderId \in RowIds'
               /\ step'[v] \in {"publish", "notify"} => Data(v)'.orderId \notin pending'
               /\ step'[v] = "publishDuplicate" =>
                    \A row \in ExistingOrders(Data(v))' : row.id \notin pending'
    <3>1. ExistingOrders(Data(v))' = ExistingOrders(Data(v))
      BY <2>1, <2>6, <2>9 DEF ExistingOrders, SamePurchase
    <3> QED  BY <2>1, <2>6, <2>9, <3>1 DEF OrdersInv, WorkInOrder
  <2>10. WorkInOrder'
    BY <2>8, <2>9 DEF WorkInOrder
  <2> QED  BY <2>5, <2>10 DEF OrdersInv
<1> QED  BY <1>1, <1>2 DEF WorkerStep, WorkerNext

(* Before the first request the invariant holds.                           *)
LEMMA InitOrdersInv == Init => OrdersInv
  BY DEF Init, GateInit, WorkerInit, OrdersInv, Origins, UniqueRows, WorkInOrder, EventsFollowState

(* No step breaks it.                                                      *)
LEMMA StepOrders ==
  ASSUME TypeInv, OrdersInv, FlowStep
  PROVE  OrdersInv'
<1>1. CASE Next
  BY <1>1, GateOrders, WorkerOrders DEF Next
<1>2. CASE UNCHANGED <<redisVars, jobs, callVars, openingVars, processVars, outcomeVars>>
  BY <1>2 DEF OrdersInv, Origins, UniqueRows, WorkInOrder, EventsFollowState, Placed,
     JobDataOf, RowOf, RowIds, SamePurchase, ExistingOrders, Data, redisVars, callVars,
     processVars, outcomeVars
<1> QED  BY <1>1, <1>2 DEF FlowStep

(* The inductive invariant of the orders, which no fault breaks.           *)
THEOREM OrdersInvariant == Spec => [](TypeInv /\ OrdersInv)
<1>1. Init => TypeInv /\ OrdersInv
  BY InitTypeInv, InitOrdersInv
<1>2. TypeInv /\ OrdersInv /\ [Next]_vars => (TypeInv /\ OrdersInv)'
  BY FlowSteps, StepTypeInv, StepOrders
<1> QED  BY <1>1, <1>2, PTL DEF Spec

-----------------------------------------------------------------------------
(* What follows from the inductive invariant, with every fault             *)

(* A customer never gets two orders of a ticket.                           *)
THEOREM NeverOrderedTwice == Spec => []OneOrderPerCustomer
<1>1. OrdersInv => OneOrderPerCustomer
  BY DEF OrdersInv, UniqueRows, OneOrderPerCustomer, SamePurchase
<1> QED  BY <1>1, OrdersInvariant, PTL

(* An accepted purchase has its row, or a job that may still make it.      *)
THEOREM NothingAcceptedIsLost == Spec => []AcceptedNeverLost
<1>1. ASSUME TypeInv, OrdersInv, NEW r \in Requests, call[r] = "accepted"
      PROVE  \/ PurchaseRecorded(r)
             \/ \E i \in DOMAIN jobs : jobs[i].data.orderId = r /\ jobs[i].state # "completed"
  <2>1. PICK i \in DOMAIN jobs : jobs[i].data.orderId = r
    BY <1>1 DEF OrdersInv, Origins
  <2>2. CASE jobs[i].state = "completed"
    <3>1. PICK row \in orders : SamePurchase(row, jobs[i].data)
      BY <1>1, <2>2 DEF OrdersInv, WorkInOrder, ExistingOrders
    <3>2. jobs[i].data = JobDataOf(r)
      BY <1>1, <2>1 DEF OrdersInv, Origins, Placed
    <3> QED  BY <3>1, <3>2 DEF PurchaseRecorded, SamePurchase, JobDataOf
  <2> QED  BY <2>1, <2>2
<1>2. TypeInv /\ OrdersInv => AcceptedNeverLost
  BY <1>1 DEF AcceptedNeverLost
<1> QED  BY <1>2, OrdersInvariant, PTL

(* Nobody hears of an order that is not there, or is still pending.        *)
THEOREM EventsNeverAhead == Spec => []EventsFollowState
<1>1. OrdersInv => EventsFollowState
  BY DEF OrdersInv
<1> QED  BY <1>1, OrdersInvariant, PTL

-----------------------------------------------------------------------------
(* The status of an accepted order, as long as no pending key expires      *)

(* A step of the workers persists one order, or clears the pending key of  *)
(* one that has its row, or publishes one whose key is cleared, or does    *)
(* none of this.                                                           *)
LEMMA WorkerLife ==
  ASSUME TypeInv, OrdersInv, WorkerNext
  PROVE  \/ UNCHANGED <<pending, orders, published>>
         \/ /\ \E i \in DOMAIN jobs : orders' = orders \cup {RowOf(jobs[i].data)}
            /\ UNCHANGED <<pending, published>>
         \/ /\ \E o \in RowIds : pending' = pending \ {o}
            /\ UNCHANGED <<orders, published>>
         \/ /\ \E o \in RowIds \ pending : published' = published \cup {o}
            /\ UNCHANGED <<pending, orders>>
<1>1. ASSUME NEW w \in Workers, SaveInsert(w)
      PROVE  /\ UNCHANGED orders \/ orders' = orders \cup {RowOf(jobs[current[w]].data)}
             /\ UNCHANGED <<pending, published>>
             /\ current[w] \in DOMAIN jobs
  BY <1>1 DEF SaveInsert, redisVars, Data, TypeInv, TypeOK, WorkerTypeOK
<1>2. ASSUME NEW w \in Workers, ClearPendingOfOrder(w) \/ ClearPendingOfDuplicate(w)
      PROVE  /\ UNCHANGED pending \/ \E o \in RowIds : pending' = pending \ {o}
             /\ UNCHANGED <<orders, published>>
  <2>1. CASE ClearPendingOfOrder(w)
    <3>1. Data(w).orderId \in RowIds
      BY <2>1 DEF ClearPendingOfOrder, ClearPending, OrdersInv, WorkInOrder
    <3> QED  BY <2>1, <3>1 DEF ClearPendingOfOrder, ClearPending, DeletePendingOrderStatus, outcomeVars
  <2>2. CASE ClearPendingOfDuplicate(w)
    <3>1. PersistedOrder(Data(w)).id \in RowIds
      BY <2>2 DEF ClearPendingOfDuplicate, ClearPending, TypeInv, DuplicateFound, PersistedOrder,
         RowIds
    <3> QED  BY <2>2, <3>1 DEF ClearPendingOfDuplicate, ClearPending, DeletePendingOrderStatus,
             outcomeVars
  <2> QED  BY <1>2, <2>1, <2>2
<1>3. ASSUME NEW w \in Workers, PublishOrder(w) \/ PublishDuplicate(w)
      PROVE  /\ UNCHANGED published \/ \E o \in RowIds \ pending : published' = published \cup {o}
             /\ UNCHANGED <<pending, orders>>
  <2>1. CASE PublishOrder(w)
    <3>1. Data(w).orderId \in RowIds \ pending
      BY <2>1 DEF PublishOrder, OrdersInv, WorkInOrder
    <3> QED  BY <2>1, <3>1 DEF PublishOrder, PublishStatusUpdated, redisVars
  <2>2. CASE PublishDuplicate(w)
    <3>1. PersistedOrder(Data(w)) \in ExistingOrders(Data(w))
      BY <2>2 DEF PublishDuplicate, TypeInv, DuplicateFound, PersistedOrder, ExistingOrders
    <3>2. PersistedOrder(Data(w)).id \in RowIds \ pending
      BY <2>2, <3>1 DEF PublishDuplicate, OrdersInv, WorkInOrder, ExistingOrders, RowIds
    <3> QED  BY <2>2, <3>2 DEF PublishDuplicate, PublishStatusUpdated, redisVars
  <2> QED  BY <1>3, <2>1, <2>2
<1>4. ASSUME NEW w \in Workers, FindExisting(w) \/ SaveSelect(w) \/ Refind(w) \/ Notify(w)
      PROVE  UNCHANGED <<pending, orders, published>>
  BY <1>4 DEF FindExisting, SaveSelect, Refind, Notify, redisVars, outcomeVars
<1>5. ASSUME \/ \E w \in Workers : (\E i \in DOMAIN jobs : Take(w, i)) \/ WorkerCrash(w)
             \/ \E i \in DOMAIN jobs : StalledCheck(i)
      PROVE  UNCHANGED <<pending, orders, published>>
  BY <1>5 DEF Take, WorkerCrash, StalledCheck, redisVars, outcomeVars
<1> QED  BY <1>1, <1>2, <1>3, <1>4, <1>5 DEF WorkerNext, ProcessStep

(* An order with a row is that of a request that is not about to send it.  *)
LEMMA RowSent ==
  ASSUME OrdersInv, NEW o \in RowIds
  PROVE  o \in Requests /\ call[o] \notin {"idle", "mark", "enqueue"}
  BY DEF OrdersInv, Origins, RowIds, RowOf, Placed, OrderJobData, Requests

(* A request that is about to send its order has marked it pending.        *)
VisibleInv == /\ \A r \in Requests : call[r] = "enqueue" => r \in pending
              /\ AcceptedIsVisible

(* Only the request itself takes back its mark, once it has failed.        *)
LEMMA GateVisible ==
  ASSUME "expired" \notin Faults, TypeInv, VisibleInv, GateStep
  PROVE  VisibleInv'
<1> USE DEF VisibleInv, AcceptedIsVisible, TypeInv, TypeOK, GateTypeOK, Goto
<1>1. UNCHANGED RowIds
  BY DEF GateStep, outcomeVars, RowIds
<1>2. ASSUME NEW r \in Requests, RequestStep(r)
      PROVE  VisibleInv'
  <2>1. \A q \in Requests \ {r} : call'[q] = call[q] /\ (q \in pending => q \in pending')
    BY <1>2 DEF RequestStep, Reserve, ResendReserve, MarkPending, Enqueue, Release,
       ResendRelease, ClearPendingOfFailedCall, GatewayCrash, callVars, redisVars,
       SetPendingOrderStatus, DeletePendingOrderStatus
  <2>2. call'[r] = "enqueue" => r \in pending'
    BY <1>2 DEF RequestStep, Reserve, ResendReserve, MarkPending, Enqueue, Release,
       ResendRelease, ClearPendingOfFailedCall, GatewayCrash, callVars, BuyTicketReplies,
       SetPendingOrderStatus, Applied
  <2>3. call'[r] = "accepted" => r \in pending'
    BY <1>2 DEF RequestStep, Reserve, ResendReserve, MarkPending, Enqueue, Release,
       ResendRelease, ClearPendingOfFailedCall, GatewayCrash, callVars, BuyTicketReplies,
       redisVars
  <2> QED  BY <1>1, <2>1, <2>2, <2>3
<1>3. ASSUME NEW c \in InitCalls, InitStep(c)
      PROVE  VisibleInv'
  BY <1>1, <1>3 DEF InitStep, InitTickets, InitDel, ResendDel, InitSet, callVars
<1> QED  BY <1>2, <1>3 DEF GateStep, GateNext, Expire, PendingExpires, Fault

(* The workers clear the pending keys of rows only.                        *)
LEMMA WorkerVisible ==
  ASSUME TypeInv, OrdersInv, VisibleInv, WorkerStep
  PROVE  VisibleInv'
<1>1. UNCHANGED call
  BY DEF WorkerStep, callVars
<1>2. /\ \A o \in pending : o \in pending' \/ o \in RowIds
      /\ RowIds \subseteq RowIds'
  BY WorkerLife DEF WorkerStep, RowIds
<1> QED  BY <1>1, <1>2, RowSent DEF VisibleInv, AcceptedIsVisible

(* The inductive invariant of visibility.                                  *)
THEOREM VisibleInvariant ==
  ASSUME "expired" \notin Faults
  PROVE  Spec => [](TypeInv /\ OrdersInv /\ VisibleInv)
<1>1. Init => VisibleInv
  BY DEF Init, GateInit, VisibleInv, AcceptedIsVisible
<1>2. TypeInv /\ OrdersInv /\ VisibleInv /\ [Next]_vars => VisibleInv'
  <2>1. ASSUME VisibleInv, UNCHANGED vars
        PROVE  VisibleInv'
    BY <2>1 DEF vars, VisibleInv, AcceptedIsVisible, RowIds, redisVars, callVars, outcomeVars
  <2> QED  BY <2>1, GateVisible, WorkerVisible DEF Next
<1> QED  BY <1>1, <1>2, OrdersInvariant, PTL DEF Spec

(* The status endpoint has an answer for every order a customer was told   *)
(* of, as long as no pending key outlives its time.                        *)
THEOREM AcceptedAlwaysVisible ==
  ASSUME "expired" \notin Faults
  PROVE  Spec => []AcceptedIsVisible
<1>1. VisibleInv => AcceptedIsVisible
  BY DEF VisibleInv
<1> QED  BY <1>1, VisibleInvariant, PTL

-----------------------------------------------------------------------------
(* Notifications *)

(* Only the worker whose own insert made the row has a createdAt to notify *)
(* with; it has not notified yet, and there is no other.                   *)
Notifier(w) == step[w] \in {"clear", "publish", "notify"} /\ created[w]

NotifierInv ==
  /\ \A w \in Workers : Notifier(w) => notified[Data(w).orderId] = 0
  /\ \A w1, w2 \in Workers :
       (Notifier(w1) /\ Notifier(w2) /\ Data(w1).orderId = Data(w2).orderId) => w1 = w2

(* What a step adds to the notification queue: nothing, or the first       *)
(* notification of an order, in two copies if the client resends it.       *)
NotifiesAtMost ==
  \/ UNCHANGED notified
  \/ \E o \in OrderIds, n \in 1 .. 2 :
       /\ notified[o] = 0
       /\ notified' = [notified EXCEPT ![o] = n]
       /\ n = 1 \/ Fault("resent")

(* A worker becomes a notifier by inserting its row, stays it until it     *)
(* adds the notification or gives up, and nobody else's becomes one.       *)
LEMMA ProcessNotifier ==
  ASSUME TypeInv, OrdersInv, NotifierInv, NEW w \in Workers, ProcessStep(w), WorkerStep
  PROVE  NotifierInv' /\ NotifiesAtMost
<1> DEFINE o == Data(w).orderId
<1>1. /\ step[w] # "idle" /\ current[w] \in DOMAIN jobs
      /\ Data(w) \in OrderJobData
  BY JobData DEF TypeInv, TypeOK, WorkerTypeOK, ProcessStep, FindExisting, SaveSelect, SaveInsert,
     Refind, ClearPendingOfOrder, ClearPendingOfDuplicate, ClearPending, PublishOrder,
     PublishDuplicate, Notify, Data
<1>2. \A v \in Workers \ {w} : step'[v] = step[v] /\ current'[v] = current[v] /\ created'[v] = created[v]
  <2>1. ProcessFrame(w)
    BY ProcessStepFrame DEF TypeInv, TypeOK
  <2> QED  BY <2>1 DEF ProcessFrame, TypeInv, TypeOK, WorkerTypeOK
<1>3. \A v \in Workers : step'[v] # "idle" => Data(v)' = Data(v)
  <2>1. ProcessFrame(w)
    BY ProcessStepFrame DEF TypeInv, TypeOK
  <2>2. \A v \in Workers : step'[v] # "idle" => current'[v] = current[v] /\ current[v] \in DOMAIN jobs
    BY <1>1, <1>2, <2>1 DEF ProcessFrame, TypeInv, TypeOK, WorkerTypeOK
  <2> QED  BY <2>2, WorkerQueue DEF Data, WorkerStep, TypeInv
<1>4. \/ UNCHANGED notified
      \/ /\ Notifier(w) /\ step'[w] = "idle"
         /\ \E n \in 1 .. 2 :
              /\ notified' = [notified EXCEPT ![o] = @ + n]
              /\ n = 1 \/ Fault("resent")
  <2>1. UNCHANGED notified \/ Notify(w)
    BY DEF ProcessStep, FindExisting, SaveSelect, SaveInsert, Refind, ClearPendingOfOrder,
       ClearPendingOfDuplicate, ClearPending, PublishOrder, PublishDuplicate, outcomeVars
  <2>2. ASSUME Notify(w)
        PROVE  \/ UNCHANGED notified
               \/ /\ Notifier(w) /\ step'[w] = "idle"
                  /\ \/ notified' = [notified EXCEPT ![o] = @ + 1]
                     \/ notified' = [notified EXCEPT ![o] = @ + 2] /\ Fault("resent")
    BY <2>2 DEF Notify, Return, Throw, GoIdle, Notifier, TypeInv, TypeOK, WorkerTypeOK
  <2> QED  BY <2>1, <2>2
<1>5. Notifier(w)' => Notifier(w) \/ (step[w] = "insert" /\ Conflicts(Data(w)) = {})
  BY DEF ProcessStep, FindExisting, SaveSelect, SaveInsert, Refind, ClearPendingOfOrder,
     ClearPendingOfDuplicate, ClearPending, PublishOrder, PublishDuplicate, Notify,
     Continue, Return, Throw, GoIdle, Notifier, TypeInv, TypeOK, WorkerTypeOK
<1>6. \A v \in Workers \ {w} : Notifier(v)' => Notifier(v)
  BY <1>2 DEF Notifier
<1>7. \A v \in Workers : Notifier(v) => Data(v).orderId \in RowIds
  BY DEF Notifier, OrdersInv, WorkInOrder
<1>8. Conflicts(Data(w)) = {} => o \notin RowIds /\ notified[o] = 0
  <2>1. Conflicts(Data(w)) = {} => o \notin RowIds
    BY DEF Conflicts, RowIds
  <2>2. notified[o] \in Nat /\ o \in OrderIds
    BY <1>1 DEF TypeInv, TypeOK, WorkerTypeOK, OrderJobData
  <2> QED  BY <2>1, <2>2 DEF OrdersInv, EventsFollowState
<1>9. NotifiesAtMost
  <2>1. ASSUME NEW n \in 1 .. 2, Notifier(w), notified' = [notified EXCEPT ![o] = @ + n]
        PROVE  notified[o] = 0 /\ o \in OrderIds /\ notified' = [notified EXCEPT ![o] = n]
    <3>1. notified[o] = 0 /\ o \in OrderIds
      BY <1>1, <2>1 DEF NotifierInv, OrderJobData
    <3> HIDE DEF o
    <3> QED  BY <2>1, <3>1
  <2>2. \A n : Notifier(w) /\ n \in 1 .. 2 /\ notified' = [notified EXCEPT ![o] = @ + n] =>
          notified[o] = 0 /\ o \in OrderIds /\ notified' = [notified EXCEPT ![o] = n]
    BY <2>1
  <2> HIDE DEF o, Notifier
  <2> QED  BY <1>4, <2>2 DEF NotifiesAtMost
<1>10. ASSUME NEW v \in Workers, Notifier(v)'
       PROVE  notified'[Data(v).orderId] = 0
  <2>1. notified[Data(v).orderId] = 0
    BY <1>5, <1>6, <1>8, <1>10 DEF NotifierInv
  <2>2. CASE UNCHANGED notified
    BY <2>1, <2>2
  <2>3. CASE /\ Notifier(w) /\ step'[w] = "idle"
             /\ \E n \in 1 .. 2 : notified' = [notified EXCEPT ![o] = @ + n]
    <3>1. v # w
      BY <1>10, <2>3 DEF Notifier
    <3>2. Data(v).orderId # o
      BY <1>6, <1>10, <2>3, <3>1 DEF NotifierInv
    <3> QED  BY <2>1, <2>3, <3>2 DEF TypeInv, TypeOK, WorkerTypeOK
  <2> QED  BY <1>4, <2>2, <2>3
<1>11. ASSUME NEW v1 \in Workers, NEW v2 \in Workers, Notifier(v1)', Notifier(v2)',
              Data(v1).orderId = Data(v2).orderId
       PROVE  v1 = v2
  BY <1>5, <1>6, <1>7, <1>8, <1>11 DEF NotifierInv
<1>12. \A v \in Workers : Notifier(v)' => Data(v)' = Data(v)
  BY <1>3 DEF Notifier
<1> HIDE DEF Notifier
<1> QED  BY <1>9, <1>10, <1>11, <1>12 DEF NotifierInv

(* Every other step leaves those who are to notify alone.                  *)
LEMMA OthersNotifier ==
  ASSUME NotifierInv, UNCHANGED notified,
         \A w \in Workers : Notifier(w)' => Notifier(w) /\ Data(w)' = Data(w)
  PROVE  NotifierInv'
<1> HIDE DEF Notifier
<1> QED  BY DEF NotifierInv

(* No step makes a second notifier, or notifies an order again.            *)
LEMMA StepNotifier ==
  ASSUME TypeInv, OrdersInv, NotifierInv, FlowStep
  PROVE  NotifierInv' /\ NotifiesAtMost
<1>1. CASE GateStep
  <2>1. UNCHANGED <<step, current, created, notified>>
    BY <1>1 DEF GateStep, processVars, outcomeVars
  <2>2. \A j \in DOMAIN jobs : jobs'[j].data = jobs[j].data
    BY <1>1, GateQueue, AddKeeps DEF GateStep, TypeInv, TypeOK
  <2>3. \A w \in Workers : Notifier(w)' => Notifier(w) /\ Data(w)' = Data(w)
    BY <2>1, <2>2 DEF Notifier, Data, TypeInv, TypeOK, WorkerTypeOK
  <2> QED  BY <2>1, <2>3, OthersNotifier DEF NotifiesAtMost
<1>2. CASE WorkerStep /\ \E w \in Workers : ProcessStep(w)
  BY <1>2, ProcessNotifier
<1>3. CASE /\ WorkerStep
           /\ \/ \E w \in Workers : (\E i \in DOMAIN jobs : Take(w, i)) \/ WorkerCrash(w)
              \/ \E i \in DOMAIN jobs : StalledCheck(i)
  <2>1. UNCHANGED notified
    BY <1>3 DEF Take, WorkerCrash, StalledCheck, outcomeVars
  <2>2. \A j \in DOMAIN jobs : jobs'[j].data = jobs[j].data
    BY <1>3, WorkerQueue DEF WorkerStep, TypeInv
  <2>3. ASSUME NEW v \in Workers, Notifier(v)'
        PROVE  Notifier(v) /\ current'[v] = current[v] /\ current[v] \in DOMAIN jobs
    BY <1>3, <2>3 DEF Take, WorkerCrash, StalledCheck, GoIdle, processVars, Notifier,
       TypeInv, TypeOK, WorkerTypeOK
  <2>4. \A v \in Workers : Notifier(v)' => Notifier(v) /\ Data(v)' = Data(v)
    BY <2>2, <2>3 DEF Data
  <2> QED  BY <2>1, <2>4, OthersNotifier DEF NotifiesAtMost
<1>4. CASE UNCHANGED <<redisVars, jobs, callVars, openingVars, processVars, outcomeVars>>
  BY <1>4, OthersNotifier DEF processVars, outcomeVars, Notifier, Data, NotifiesAtMost
<1> QED  BY <1>1, <1>2, <1>3, <1>4 DEF FlowStep, Next, WorkerStep, WorkerNext

LEMMA InitNotifierInv == Init => NotifierInv
  BY DEF Init, WorkerInit, NotifierInv, Notifier

(* However often, and by however many workers, a job is run, its customer  *)
(* is notified at most once, unless the command that queues it is resent.  *)
THEOREM NeverNotifiedTwice ==
  ASSUME "resent" \notin Faults
  PROVE  Spec => []NotifiedAtMostOnce
<1>1. Init => NotifierInv /\ NotifiedAtMostOnce
  BY InitNotifierInv DEF Init, WorkerInit, NotifiedAtMostOnce
<1>2. TypeInv /\ OrdersInv /\ NotifierInv /\ [Next]_vars => NotifierInv'
  BY FlowSteps, StepNotifier
<1>3. TypeInv /\ OrdersInv /\ NotifierInv /\ NotifiedAtMostOnce /\ [Next]_vars => NotifiedAtMostOnce'
  <2>1. ASSUME TypeInv, NotifiesAtMost, NotifiedAtMostOnce
        PROVE  NotifiedAtMostOnce'
    BY <2>1 DEF NotifiesAtMost, Fault, NotifiedAtMostOnce, TypeInv, TypeOK, WorkerTypeOK
  <2> QED  BY <2>1, FlowSteps, StepNotifier
<1> QED  BY <1>1, <1>2, <1>3, OrdersInvariant, PTL DEF Spec

-----------------------------------------------------------------------------
(* The life of an order.  Its accepted orders are those of the requests    *)
(* that answered "accepted"; and a job is never that of another request,   *)
(* unless an add that rejects has put it into the queue all the same.      *)
AcceptedJobs == \A i \in DOMAIN jobs : call[jobs[i].data.orderId] = "accepted"

(* A request is never anything else again once it is accepted.             *)
LEMMA AcceptedForGood ==
  ASSUME TypeOK, GateNext, NEW r \in Requests, call[r] = "accepted"
  PROVE  call'[r] = "accepted"
<1>1. ASSUME NEW q \in Requests, RequestStep(q)
      PROVE  q # r /\ call'[r] = call[r]
  BY <1>1 DEF RequestStep, Reserve, ResendReserve, MarkPending, Enqueue, Release, ResendRelease,
     ClearPendingOfFailedCall, GatewayCrash, callVars, Goto, TypeOK, GateTypeOK
<1> QED  BY <1>1 DEF GateNext, InitStep, Expire, callVars

(* The job that a request adds is that of an accepted request from then on. *)
LEMMA AcceptedJobsKept ==
  ASSUME "lostAdd" \notin Faults, TypeInv, AcceptedJobs, Next
  PROVE  AcceptedJobs'
<1>1. \A i \in DOMAIN jobs : jobs[i].data.orderId \in Requests
  <2>1. \A i \in DOMAIN jobs : jobs[i].data \in OrderJobData
    BY JobData DEF TypeInv, TypeOK
  <2> QED  BY <2>1 DEF OrderJobData, Requests
<1>2. CASE GateStep
  <2>1. \A r \in Requests : call[r] = "accepted" => call'[r] = "accepted"
    BY <1>2, AcceptedForGood DEF GateStep, TypeInv
  <2>2. CASE UNCHANGED jobs
    BY <1>1, <2>1, <2>2 DEF AcceptedJobs
  <2>3. ASSUME NEW r \in Requests, Enqueue(r), JobDataOf(r) \in OrderJobData,
               AddJob(JobDataOf(r)) \/ AddJobTwice(JobDataOf(r))
        PROVE  AcceptedJobs'
    <3>1. /\ \A j \in DOMAIN jobs : jobs'[j] = jobs[j]
          /\ \A j \in DOMAIN jobs' \ DOMAIN jobs : jobs'[j].data = JobDataOf(r)
          /\ DOMAIN jobs # DOMAIN jobs'
      BY <2>3, AddKeeps DEF TypeInv, TypeOK
    <3>2. call'[r] = "accepted" /\ JobDataOf(r).orderId = r
      BY <2>3, <3>1 DEF Enqueue, Fault, Goto, TypeInv, TypeOK, GateTypeOK, JobDataOf
    <3> QED  BY <1>1, <2>1, <3>1, <3>2 DEF AcceptedJobs
  <2> QED  BY <1>2, <2>2, <2>3, GateQueue DEF GateStep, TypeInv
<1>3. CASE WorkerStep
  BY <1>3, WorkerQueue DEF AcceptedJobs, WorkerStep, callVars, TypeInv
<1> QED  BY <1>2, <1>3 DEF Next

(* A step of a request marks, unmarks or accepts its order, or does none   *)
(* of this.                                                                *)
LEMMA RequestLife ==
  ASSUME TypeInv, OrdersInv, VisibleInv, UNCHANGED <<RowIds, published>>,
         NEW r \in Requests, RequestStep(r)
  PROVE  [Lifecycle!LifecycleNext]_(Lifecycle!lifecycleVars)
<1> DEFINE accepted == {q \in Requests : call[q] = "accepted"}
<1> USE DEF TypeInv, TypeOK, GateTypeOK, Goto, Requests
<1>1. r \in OrderIds
  OBVIOUS
<1>2. CASE MarkPending(r)
  <2>1. r \notin accepted \cup RowIds
    BY <1>2, RowSent DEF MarkPending
  <2>2. accepted' = accepted
    BY <1>2 DEF MarkPending
  <2>3. pending' = pending \cup {r} \/ pending' = pending
    BY <1>2 DEF MarkPending, SetPendingOrderStatus
  <2> QED  BY <1>1, <2>1, <2>2, <2>3 DEF Lifecycle!LifecycleNext, Lifecycle!LifecycleStep,
           Lifecycle!Mark, Lifecycle!lifecycleVars
<1>3. CASE Enqueue(r)
  <2>1. r \in pending /\ UNCHANGED pending
    BY <1>3 DEF Enqueue, VisibleInv, redisVars
  <2>2. accepted' = accepted \cup {r} \/ accepted' = accepted
    BY <1>3 DEF Enqueue
  <2> QED  BY <1>1, <2>1, <2>2 DEF Lifecycle!LifecycleNext, Lifecycle!LifecycleStep,
           Lifecycle!Accept, Lifecycle!lifecycleVars
<1>4. CASE ClearPendingOfFailedCall(r)
  <2>1. r \notin accepted /\ accepted' = accepted
    BY <1>4 DEF ClearPendingOfFailedCall
  <2>2. pending' = pending \ {r} \/ pending' = pending
    BY <1>4 DEF ClearPendingOfFailedCall, DeletePendingOrderStatus
  <2> QED  BY <1>1, <2>1, <2>2 DEF Lifecycle!LifecycleNext, Lifecycle!LifecycleStep,
           Lifecycle!Unmark, Lifecycle!lifecycleVars
<1>5. CASE \/ \E t \in Tickets, raw \in RawEmails : Reserve(r, t, raw)
           \/ ResendReserve(r) \/ Release(r) \/ ResendRelease(r) \/ GatewayCrash(r)
  <2>1. UNCHANGED pending
    BY <1>5 DEF Reserve, ResendReserve, Release, ResendRelease, GatewayCrash, redisVars
  <2>2. accepted' = accepted
    BY <1>5 DEF Reserve, ResendReserve, Release, ResendRelease, GatewayCrash, BuyTicketReplies,
       callVars
  <2> QED  BY <2>1, <2>2 DEF Lifecycle!lifecycleVars
<1> QED  BY <1>2, <1>3, <1>4, <1>5 DEF RequestStep

(* So does every step of the gateways, and of the workers.                 *)
LEMMA NextLife ==
  ASSUME {"lostAdd", "expired"} \cap Faults = {},
         TypeInv, OrdersInv, VisibleInv, AcceptedJobs, Next
  PROVE  [Lifecycle!LifecycleNext]_(Lifecycle!lifecycleVars)
<1> DEFINE accepted == {q \in Requests : call[q] = "accepted"}
<1>1. CASE GateStep
  <2>1. UNCHANGED <<RowIds, published>>
    BY <1>1 DEF GateStep, outcomeVars, RowIds
  <2>2. ASSUME NEW c \in InitCalls, InitStep(c)
        PROVE  UNCHANGED <<pending, accepted>>
    BY <2>2 DEF InitStep, InitTickets, InitDel, ResendDel, InitSet, callVars
  <2>3. ~Expire
    BY DEF Expire, PendingExpires, Fault
  <2> QED  BY <1>1, <2>1, <2>2, <2>3, RequestLife DEF GateStep, GateNext, Lifecycle!lifecycleVars
<1>2. CASE WorkerStep
  <2> USE DEF Lifecycle!LifecycleNext, Lifecycle!LifecycleStep, Lifecycle!lifecycleVars
  <2>1. accepted' = accepted
    BY <1>2 DEF WorkerStep, callVars
  <2>2. RowIds \subseteq OrderIds
    BY DEF RowIds, TypeInv, TypeOK, WorkerTypeOK, Rows
  <2>3. CASE UNCHANGED <<pending, orders, published>>
    BY <2>1, <2>3 DEF RowIds
  <2>4. ASSUME NEW i \in DOMAIN jobs, orders' = orders \cup {RowOf(jobs[i].data)},
               UNCHANGED <<pending, published>>
        PROVE  Lifecycle!LifecycleNext
    <3> DEFINE o == jobs[i].data.orderId
    <3>1. o \in accepted /\ o \in OrderIds
      <4>1. jobs[i].data \in OrderJobData
        BY JobData DEF TypeInv, TypeOK
      <4> QED  BY <4>1 DEF AcceptedJobs, Requests, OrderJobData
    <3>2. RowIds' = RowIds \cup {o}
      <4>1. RowOf(jobs[i].data).id = o
        BY DEF RowOf
      <4> QED  BY <2>4, <4>1 DEF RowIds
    <3> QED  BY <2>1, <2>4, <3>1, <3>2 DEF Lifecycle!Persist
  <2>5. ASSUME NEW o \in RowIds, pending' = pending \ {o}, UNCHANGED <<orders, published>>
        PROVE  Lifecycle!LifecycleNext
    BY <2>1, <2>2, <2>5 DEF Lifecycle!Clear, RowIds
  <2>6. ASSUME NEW o \in RowIds \ pending, published' = published \cup {o},
               UNCHANGED <<pending, orders>>
        PROVE  Lifecycle!LifecycleNext
    BY <2>1, <2>2, <2>6 DEF Lifecycle!Publish, RowIds
  <2> QED  BY <1>2, <2>3, <2>4, <2>5, <2>6, WorkerLife DEF WorkerStep
<1> QED  BY <1>1, <1>2 DEF Next

(* An order lives through what the read side relies on, in this order,     *)
(* whatever fails: only an add that rejects although it was applied, or an *)
(* expired pending key, can put an order where it should not be yet.       *)
THEOREM LifeOfAnOrder ==
  ASSUME {"lostAdd", "expired"} \cap Faults = {}
  PROVE  Spec => RefinesOrderLifecycle
<1>1. Init => Lifecycle!LifecycleInit /\ AcceptedJobs
  BY DEF Init, GateInit, RedisInit, WorkerInit, AcceptedJobs, RowIds, Lifecycle!LifecycleInit
<1>2. TypeInv /\ AcceptedJobs /\ [Next]_vars => AcceptedJobs'
  <2>1. ASSUME AcceptedJobs, UNCHANGED vars
        PROVE  AcceptedJobs'
    BY <2>1 DEF vars, AcceptedJobs, callVars
  <2> QED  BY <2>1, AcceptedJobsKept
<1>3. TypeInv /\ OrdersInv /\ VisibleInv /\ AcceptedJobs /\ [Next]_vars =>
        [Lifecycle!LifecycleNext]_(Lifecycle!lifecycleVars)
  <2>1. ASSUME UNCHANGED vars
        PROVE  UNCHANGED Lifecycle!lifecycleVars
    BY <2>1 DEF vars, redisVars, callVars, outcomeVars, RowIds, Lifecycle!lifecycleVars
  <2> QED  BY <2>1, NextLife
<1>4. Spec => [](TypeInv /\ OrdersInv /\ VisibleInv)
  BY VisibleInvariant
<1> QED  BY <1>1, <1>2, <1>3, <1>4, PTL DEF Spec, RefinesOrderLifecycle, Lifecycle!LifecycleSpec
-----------------------------------------------------------------------------
(* What a fault can lose at most *)

(* A step of a request is its own: the others stay where they are.         *)
LEMMA OnlyItsOwn ==
  ASSUME TypeOK, NEW r \in Requests, RequestStep(r)
  PROVE  \A q \in Requests \ {r} : call'[q] = call[q] /\ body'[q] = body[q]
  BY DEF RequestStep, Reserve, ResendReserve, MarkPending, Enqueue, Release, ResendRelease,
     ClearPendingOfFailedCall, GatewayCrash, callVars, Goto, TypeOK, GateTypeOK

HoldsSeat(r, t, e) == Holding(r) /\ body[r] = [ticketId |-> t, customerEmail |-> e]

(* Whatever fails, a seat is held by a request; no seat of a ticket on     *)
(* sale is missing; and every request that has left a seat behind, or was  *)
(* refused for its own, has cost a fault.                                  *)
Holders == \A t \in Tickets : \A e \in buyers[t] : \E r \in Requests : HoldsSeat(r, t, e)

NoneMissing ==
  \A t \in Tickets : stock[t] # NoKey => capacity[t] <= stock[t] + Cardinality(buyers[t])

Strays == {r \in Requests : call[r] \in {"stranded", "selfRefused"}}

EmptyInv ==
  /\ NoStockNoBuyers /\ Holders /\ NoneMissing
  /\ IsFiniteSet(Strays) /\ Cardinality(Strays) <= faults

(* A request stays where a seat that it holds is found.                    *)
LEMMA RequestHolds ==
  ASSUME TypeOK, NEW r \in Requests, RequestStep(r), NEW t \in Tickets, NEW e \in buyers'[t]
  PROVE  \/ HoldsSeat(r, t, e)'
         \/ e \in buyers[t] /\ ~HoldsSeat(r, t, e)
<1> USE DEF TypeOK, GateTypeOK, RedisTypeOK, HoldsSeat, Holding, Goto
<1>1. ASSUME NEW u \in Tickets, NEW raw \in RawEmails, Reserve(r, u, raw)
      PROVE  HoldsSeat(r, t, e)' \/ (e \in buyers[t] /\ ~HoldsSeat(r, t, e))
  <2>1. call[r] = "idle"
    BY <1>1 DEF Reserve
  <2>2. CASE BuyTicket(u, Normalized[raw], "reserved") /\ (Goto(r, "mark") \/ Goto(r, "stranded"))
    <3>1. body'[r] = [ticketId |-> u, customerEmail |-> Normalized[raw]]
      BY <1>1 DEF Reserve
    <3>2. e \in buyers[t] \/ (t = u /\ e = Normalized[raw])
      BY <2>2 DEF BuyTicket
    <3> QED  BY <2>1, <2>2, <3>1, <3>2
  <2>3. CASE UNCHANGED buyers
    BY <2>1, <2>3
  <2> QED  BY <1>1, <2>2, <2>3 DEF Reserve, BuyTicketReplies, BuyTicket
<1>2. CASE ResendReserve(r)
  <2>1. PICK u \in Tickets, f \in Emails : body[r] = [ticketId |-> u, customerEmail |-> f]
    BY <1>2 DEF ResendReserve, Bodies
  <2>2. /\ UNCHANGED body
        /\ \/ Goto(r, "mark") /\ buyers' = [buyers EXCEPT ![u] = @ \cup {f}]
           \/ Goto(r, "selfRefused") /\ UNCHANGED buyers
           \/ Goto(r, "soldOut") /\ UNCHANGED buyers /\ f \notin buyers[u]
    <3>1. body[r].ticketId = u /\ body[r].customerEmail = f
      BY <2>1
    <3>2. UNCHANGED body
      BY <1>2 DEF ResendReserve
    <3>3. \/ BuyTicket(u, f, "reserved") /\ Goto(r, "mark")
          \/ BuyTicket(u, f, "duplicate") /\ Goto(r, "selfRefused")
          \/ BuyTicket(u, f, "soldOut") /\ Goto(r, "soldOut")
      BY <1>2, <3>1 DEF ResendReserve, BuyTicketReplies
    <3> QED  BY <3>2, <3>3 DEF BuyTicket
  <2>3. call[r] = "mark"
    BY <1>2 DEF ResendReserve
  <2>4. CASE Goto(r, "mark") /\ buyers' = [buyers EXCEPT ![u] = @ \cup {f}]
    <3>1. e \in buyers[t] \/ (t = u /\ e = f)
      BY <2>4
    <3> QED  BY <2>1, <2>2, <2>4, <3>1
  <2>5. CASE Goto(r, "selfRefused") /\ UNCHANGED buyers
    BY <2>2, <2>5
  <2>6. CASE Goto(r, "soldOut") /\ UNCHANGED buyers /\ f \notin buyers[u]
    BY <2>1, <2>6
  <2> QED  BY <2>2, <2>4, <2>5, <2>6
<1>3. CASE MarkPending(r)
  BY <1>3 DEF MarkPending
<1>4. CASE Enqueue(r)
  BY <1>4 DEF Enqueue, redisVars
<1>5. CASE Release(r)
  <2>1. CASE UNCHANGED buyers /\ Goto(r, "stranded") /\ UNCHANGED body
    BY <1>5, <2>1 DEF Release
  <2>2. CASE ReleaseTicketReservation(body[r].ticketId, body[r].customerEmail)
    <3>1. e \in buyers[t] /\ (HoldsSeat(r, t, e) => FALSE)
      BY <2>2 DEF ReleaseTicketReservation
    <3> QED  BY <3>1
  <2> QED  BY <1>5, <2>1, <2>2 DEF Release
<1>6. CASE ResendRelease(r)
  <2>1. \/ UNCHANGED buyers
        \/ \E f : buyers' = [buyers EXCEPT ![body[r].ticketId] = @ \ {f}]
    BY <1>6 DEF ResendRelease, ReleaseTicketReservation
  <2>2. e \in buyers[t]
    BY <2>1
  <2> QED  BY <1>6, <2>2 DEF ResendRelease
<1>7. CASE ClearPendingOfFailedCall(r)
  BY <1>7 DEF ClearPendingOfFailedCall
<1>8. CASE GatewayCrash(r)
  BY <1>8 DEF GatewayCrash, redisVars
<1> QED  BY <1>1, <1>2, <1>3, <1>4, <1>5, <1>6, <1>7, <1>8 DEF RequestStep

(* A request that strays costs a fault.                                    *)
LEMMA RequestStrays ==
  ASSUME TypeOK, NEW r \in Requests, RequestStep(r)
  PROVE  Strays' \subseteq Strays \/ (Strays' \subseteq Strays \cup {r} /\ faults' = faults + 1)
<1>1. Strays' \subseteq Strays \cup {r}
  BY OnlyItsOwn DEF Strays, Requests
<1>2. ASSUME r \in Strays', r \notin Strays
      PROVE  faults' = faults + 1
  <2>1. call'[r] \in {"stranded", "selfRefused"} /\ call[r] \notin {"stranded", "selfRefused"}
    BY <1>2 DEF Strays, Requests
  <2> QED  BY <2>1 DEF RequestStep, Reserve, ResendReserve, MarkPending, Enqueue, Release,
     ResendRelease, ClearPendingOfFailedCall, GatewayCrash, callVars, Goto, TypeOK, GateTypeOK,
     BuyTicketReplies, Fault
<1> QED  BY <1>1, <1>2

LEMMA RequestEmpty ==
  ASSUME TypeInv, TypeInv', EmptyInv, NEW r \in Requests, RequestStep(r), faults' >= faults
  PROVE  EmptyInv'
<1> USE DEF TypeInv
<1>1. Holders'
  <2> SUFFICES ASSUME NEW t \in Tickets, NEW e \in buyers'[t]
               PROVE  \E q \in Requests : HoldsSeat(q, t, e)'
    BY DEF Holders
  <2>1. CASE HoldsSeat(r, t, e)'
    BY <2>1
  <2>2. CASE e \in buyers[t] /\ ~HoldsSeat(r, t, e)
    <3>1. PICK q \in Requests : HoldsSeat(q, t, e)
      BY <2>2 DEF EmptyInv, Holders
    <3>2. call'[q] = call[q] /\ body'[q] = body[q]
      BY <2>2, <3>1, OnlyItsOwn
    <3> QED  BY <3>1, <3>2 DEF HoldsSeat, Holding
  <2> QED  BY <2>1, <2>2, RequestHolds
<1>2. NoStockNoBuyers' /\ NoneMissing'
  <2>1. Moves /\ UNCHANGED capacity
    BY RequestMoves DEF openingVars, initVars
  <2>2. CASE UNCHANGED <<stock, buyers>>
    BY <2>1, <2>2 DEF EmptyInv, NoStockNoBuyers, NoneMissing
  <2>3. ASSUME NEW t \in Tickets, NEW e \in Emails, Sells(t, e) \/ Frees(t, e)
        PROVE  NoStockNoBuyers' /\ NoneMissing'
    <3>1. /\ stock[t] \in Nat /\ stock'[t] \in Nat
          /\ stock'[t] + Cardinality(buyers'[t]) = stock[t] + Cardinality(buyers[t])
          /\ \A u \in Tickets \ {t} : stock'[u] = stock[u] /\ buyers'[u] = buyers[u]
      BY <2>3, MoveCounts DEF EmptyInv
    <3>2. \A n \in Nat : n # NoKey
      BY NoKeyAssumption
    <3>3. NoStockNoBuyers'
      BY <3>1, <3>2 DEF EmptyInv, NoStockNoBuyers
    <3>4. ASSUME NEW u \in Tickets, stock'[u] # NoKey
          PROVE  capacity'[u] <= stock'[u] + Cardinality(buyers'[u])
      <4>1. CASE u = t
        BY <2>1, <3>1, <3>2, <4>1 DEF EmptyInv, NoneMissing
      <4>2. CASE u # t
        BY <2>1, <3>1, <3>4, <4>2 DEF EmptyInv, NoneMissing
      <4> QED  BY <4>1, <4>2
    <3> QED  BY <3>3, <3>4 DEF NoneMissing
  <2> QED  BY <2>1, <2>2, <2>3 DEF Moves
<1>3. IsFiniteSet(Strays') /\ Cardinality(Strays') <= faults'
  <2>1. /\ IsFiniteSet(Strays) /\ Cardinality(Strays) \in Nat /\ Cardinality(Strays) <= faults
        /\ faults \in Nat /\ faults' \in Nat
    <3>1. IsFiniteSet(Strays) /\ Cardinality(Strays) <= faults
      BY DEF EmptyInv
    <3>2. faults \in Nat /\ faults' \in Nat
      BY FaultsAssumption DEF TypeOK
    <3> QED  BY <3>1, <3>2, FS_CardinalityType
  <2>2. /\ IsFiniteSet(Strays \cup {r}) /\ Cardinality(Strays \cup {r}) <= Cardinality(Strays) + 1
        /\ Cardinality(Strays \cup {r}) \in Nat
    <3>1. /\ IsFiniteSet(Strays \cup {r})
          /\ Cardinality(Strays \cup {r}) \in {Cardinality(Strays), Cardinality(Strays) + 1}
      BY <2>1, FS_AddElement
    <3> QED  BY <2>1, <3>1
  <2>3. CASE Strays' \subseteq Strays
    <3>1. IsFiniteSet(Strays') /\ Cardinality(Strays') <= Cardinality(Strays)
          /\ Cardinality(Strays') \in Nat
      BY <2>1, <2>3, FS_Subset, FS_CardinalityType
    <3> QED  BY <2>1, <3>1
  <2>4. CASE Strays' \subseteq Strays \cup {r} /\ faults' = faults + 1
    <3>1. IsFiniteSet(Strays') /\ Cardinality(Strays') <= Cardinality(Strays \cup {r})
          /\ Cardinality(Strays') \in Nat
      BY <2>2, <2>4, FS_Subset, FS_CardinalityType
    <3> QED  BY <2>1, <2>2, <2>4, <3>1
  <2> QED  BY <2>3, <2>4, RequestStrays
<1> QED  BY <1>1, <1>2, <1>3 DEF EmptyInv

(* An initialisation deletes both keys, or sets the stock to the capacity. *)
LEMMA InitStepKeys ==
  ASSUME TypeOK, NEW c \in InitCalls, InitStep(c)
  PROVE  /\ UNCHANGED <<jobs, call, body>>
         /\ \/ UNCHANGED <<stock, buyers, capacity, offered>>
            \/ \E t \in Tickets : DeleteKeys(t) /\ UNCHANGED <<capacity, offered>>
            \/ \E t \in Tickets, n \in Nat : /\ stock' = [stock EXCEPT ![t] = n]
                                             /\ capacity' = [capacity EXCEPT ![t] = n]
                                             /\ offered' = [offered EXCEPT ![t] = @ + n]
                                             /\ UNCHANGED buyers
<1> USE DEF TypeOK, GateTypeOK, InitTypeOK
<1>1. UNCHANGED <<jobs, call, body>>
  BY DEF InitStep, callVars
<1>2. ASSUME NEW t \in Tickets, NEW n \in Counts, InitDel(c, t, n)
      PROVE  DeleteKeys(t) /\ UNCHANGED <<capacity, offered>>
  BY <1>2 DEF InitDel, InitStep
<1>3. CASE ResendDel(c)
  <2>1. initBody[c].ticketId \in Tickets
    BY <1>3 DEF ResendDel, InitBodies
  <2>2. DeleteKeys(initBody[c].ticketId) /\ UNCHANGED <<capacity, offered>>
    BY <1>3 DEF ResendDel, InitStep, initVars
  <2> QED  BY <1>1, <2>1, <2>2
<1>4. CASE InitSet(c)
  <2>1. initBody[c].ticketId \in Tickets /\ initBody[c].count \in Nat
    BY <1>4, InitAssumption DEF InitSet, Initialising, InitBodies
  <2>2. CASE SetKey(c) /\ initCall'[c] \in {"done", "setAgain"}
    BY <1>1, <1>4, <2>1, <2>2 DEF InitSet, SetKey, InitStep
  <2>3. CASE UNCHANGED <<stock, capacity>> /\ initCall'[c] = "failed"
    BY <1>1, <1>4, <2>3 DEF InitSet, InitStep
  <2> QED  BY <1>4, <2>2, <2>3 DEF InitSet, Initialising
<1> QED  BY <1>1, <1>2, <1>3, <1>4 DEF InitStep, InitTickets

LEMMA InitStepEmpty ==
  ASSUME TypeInv, EmptyInv, NEW c \in InitCalls, InitStep(c), faults' \in Nat, faults' >= faults
  PROVE  EmptyInv'
<1> USE DEF TypeInv, TypeOK, RedisTypeOK, GateTypeOK, InitTypeOK
<1>1. UNCHANGED <<jobs, call, body>>
  BY InitStepKeys
<1>2. /\ UNCHANGED Strays
      /\ \A r, t, e : HoldsSeat(r, t, e)' <=> HoldsSeat(r, t, e)
  BY <1>1 DEF Strays, HoldsSeat, Holding
<1>3. IsFiniteSet(Strays') /\ Cardinality(Strays') <= faults'
  <2>1. Cardinality(Strays) \in Nat /\ Cardinality(Strays) <= faults
    BY FS_CardinalityType DEF EmptyInv
  <2> QED  BY <1>2, <2>1, FaultsAssumption DEF EmptyInv
<1>4. CASE UNCHANGED <<stock, buyers, capacity, offered>>
  BY <1>2, <1>3, <1>4 DEF EmptyInv, NoStockNoBuyers, Holders, NoneMissing
<1>5. ASSUME NEW t \in Tickets, DeleteKeys(t), UNCHANGED capacity
      PROVE  EmptyInv'
  <2>1. /\ stock'[t] = NoKey /\ buyers'[t] = {}
        /\ \A u \in Tickets \ {t} : stock'[u] = stock[u] /\ buyers'[u] = buyers[u]
    BY <1>5 DEF DeleteKeys
  <2> QED  BY <1>2, <1>3, <1>5, <2>1 DEF EmptyInv, NoStockNoBuyers, Holders, NoneMissing
<1>6. ASSUME NEW t \in Tickets, NEW n \in Nat, stock' = [stock EXCEPT ![t] = n],
             capacity' = [capacity EXCEPT ![t] = n], UNCHANGED buyers
      PROVE  EmptyInv'
  <2>1. n # NoKey
    BY NoKeyAssumption
  <2>2. n <= n + Cardinality(buyers[t])
    <3>1. Cardinality(buyers[t]) \in Nat
      BY BuyersFinite
    <3> QED  BY <3>1
  <2>3. NoneMissing'
    BY <1>6, <2>2 DEF EmptyInv, NoneMissing
  <2> QED  BY <1>2, <1>3, <1>6, <2>1, <2>3 DEF EmptyInv, NoStockNoBuyers, Holders
<1> QED  BY <1>4, <1>5, <1>6, InitStepKeys

(* The invariant survives every step, and every fault.                     *)
THEOREM EmptyInvariant == Spec => [](TypeInv /\ OrdersInv /\ EmptyInv)
<1>1. ASSUME Init
      PROVE  EmptyInv
  <2>1. Strays = {}
    BY <1>1 DEF Init, GateInit, Strays
  <2> QED  BY <1>1, <2>1, FS_EmptySet DEF Init, GateInit, RedisInit, EmptyInv, NoStockNoBuyers,
           Holders, NoneMissing
<1>2. ASSUME TypeInv, OrdersInv, EmptyInv, [Next]_vars
      PROVE  (TypeInv /\ OrdersInv /\ EmptyInv)'
  <2>1. TypeInv' /\ OrdersInv'
    BY <1>2, FlowSteps, StepTypeInv, StepOrders
  <2>2. faults \in Nat /\ faults' \in Nat
    BY <1>2, <2>1, FaultsAssumption DEF TypeInv, TypeOK
  <2>3. CASE UNCHANGED <<stock, buyers, call, body, capacity>> /\ faults' >= faults
    <3>1. /\ UNCHANGED Strays
          /\ \A r, t, e : HoldsSeat(r, t, e)' <=> HoldsSeat(r, t, e)
      BY <2>3 DEF Strays, HoldsSeat, Holding
    <3>2. Cardinality(Strays') <= faults'
      <4>1. Cardinality(Strays) \in Nat /\ Cardinality(Strays) <= faults
        BY <1>2, FS_CardinalityType DEF EmptyInv
      <4> QED  BY <2>2, <2>3, <3>1, <4>1
    <3>3. EmptyInv'
      BY <1>2, <2>3, <3>1, <3>2 DEF EmptyInv, NoStockNoBuyers, Holders, NoneMissing
    <3> QED  BY <2>1, <3>3
  <2>4. CASE Next
    <3>1. faults' >= faults
      BY <2>2, <2>4, FaultsMount
    <3>2. CASE WorkerStep
      <4>1. UNCHANGED <<stock, buyers, call, body, capacity>>
        BY <1>2, <3>2, WorkerRows DEF WorkerStep, callVars, openingVars, initVars
      <4> QED  BY <2>3, <3>1, <4>1
    <3>3. CASE \E r \in Requests : RequestStep(r)
      BY <1>2, <2>1, <3>1, <3>3, RequestEmpty
    <3>4. CASE \E c \in InitCalls : InitStep(c)
      BY <1>2, <2>1, <2>2, <3>1, <3>4, InitStepEmpty
    <3>5. CASE Expire
      BY <2>3, <3>1, <3>5 DEF Expire, PendingExpires, callVars, openingVars, initVars
    <3> QED  BY <2>4, <3>2, <3>3, <3>4, <3>5 DEF Next, GateStep, GateNext
  <2>5. CASE UNCHANGED vars
    BY <2>2, <2>3, <2>5 DEF vars, redisVars, callVars, openingVars, initVars
  <2> QED  BY <1>2, <2>4, <2>5
<1> QED  BY <1>1, <1>2, InitTypeInv, InitOrdersInv, PTL DEF Spec

(* A fault leaves one seat empty at most: the others of a ticket on sale   *)
(* are left, or are those of a request under way, of a job that may yet    *)
(* make its order, or of an order (tickets.service.ts:32-65).              *)
THEOREM AFaultLosesASeat == Spec => []EmptySeatsCostFaults
<1>1. ASSUME TypeInv, OrdersInv, EmptyInv, AcceptedNeverLost, NEW t \in Tickets, stock[t] # NoKey
      PROVE  capacity[t] <= stock[t] + Cardinality(SpokenFor(t)) + faults
  <2> DEFINE Astray == {r \in Strays : body[r].ticketId = t /\ body[r].customerEmail \in Emails}
             email == [r \in Astray |-> body[r].customerEmail]
             lost == {email[r] : r \in Astray}
  <2>1. \A e \in buyers[t] : e \in SpokenFor(t) \cup lost
    <3> SUFFICES ASSUME NEW e \in buyers[t] PROVE e \in SpokenFor(t) \cup lost
      OBVIOUS
    <3>1. PICK r \in Requests : HoldsSeat(r, t, e)
      BY <1>1 DEF EmptyInv, Holders
    <3>2. /\ body[r].ticketId = t /\ body[r].customerEmail = e /\ e \in Emails
          /\ call[r] \in {"mark", "enqueue", "release", "accepted", "selfRefused", "stranded"}
      BY <1>1, <3>1 DEF HoldsSeat, Holding, TypeInv, TypeOK, RedisTypeOK
    <3>3. CASE call[r] \in {"mark", "enqueue", "release"}
      BY <3>2, <3>3 DEF SpokenFor
    <3>4. CASE call[r] = "accepted" /\ PurchaseRecorded(r)
      BY <3>2, <3>4 DEF SpokenFor, SoldSeats, PurchaseRecorded, SamePurchase
    <3>5. CASE call[r] = "accepted" /\ ~PurchaseRecorded(r)
      <4>1. PICK i \in DOMAIN jobs : jobs[i].data.orderId = r /\ jobs[i].state # "completed"
        BY <1>1, <3>5 DEF AcceptedNeverLost
      <4>2. jobs[i].data = JobDataOf(r)
        BY <1>1, <4>1 DEF OrdersInv, Origins, Placed
      <4> QED  BY <3>2, <4>1, <4>2 DEF SpokenFor, JobDataOf
    <3>6. CASE call[r] \in {"selfRefused", "stranded"}
      <4>1. r \in Astray /\ email[r] = e
        BY <3>2, <3>6 DEF Strays
      <4> QED  BY <4>1
    <3> QED  BY <3>2, <3>3, <3>4, <3>5, <3>6
  <2>2. IsFiniteSet(lost) /\ Cardinality(lost) <= faults /\ Cardinality(lost) \in Nat
    <3>1. IsFiniteSet(Astray) /\ Cardinality(Astray) <= Cardinality(Strays)
      BY <1>1, FS_Subset DEF EmptyInv
    <3>2. email \in Surjection(Astray, lost)
      BY DEF Surjection
    <3>3. IsFiniteSet(lost) /\ Cardinality(lost) <= Cardinality(Astray)
      BY <3>1, <3>2, FS_Surjection
    <3>4. /\ Cardinality(Strays) \in Nat /\ Cardinality(Astray) \in Nat
          /\ Cardinality(lost) \in Nat /\ Cardinality(Strays) <= faults /\ faults \in Nat
      BY <1>1, <3>1, <3>3, FS_CardinalityType, FaultsAssumption DEF EmptyInv, TypeInv, TypeOK
    <3> QED  BY <3>1, <3>3, <3>4
  <2>3. IsFiniteSet(buyers[t]) /\ Cardinality(buyers[t]) \in Nat
    BY <1>1, BuyersFinite DEF TypeInv
  <2> HIDE DEF lost
  <2>4. SpokenFor(t) \subseteq Emails /\ IsFiniteSet(SpokenFor(t)) /\ Cardinality(SpokenFor(t)) \in Nat
    <3>1. \A row \in orders : row.customerEmail \in Emails
      BY <1>1 DEF TypeInv, TypeOK, WorkerTypeOK, Rows
    <3>2. \A i \in DOMAIN jobs : jobs[i].data.customerEmail \in Emails
      <4>1. \A i \in DOMAIN jobs : jobs[i].data \in OrderJobData
        BY <1>1, JobData DEF TypeInv, TypeOK
      <4> QED  BY <4>1 DEF OrderJobData
    <3>3. \A r \in Requests : call[r] # "idle" => body[r].customerEmail \in Emails
      BY <1>1 DEF TypeInv, TypeOK, GateTypeOK, Bodies
    <3>4. SpokenFor(t) \subseteq Emails
      BY <3>1, <3>2, <3>3 DEF SpokenFor, SoldSeats
    <3> QED  BY <3>4, GatewayAssumption, FS_Subset, FS_CardinalityType
  <2>5. Cardinality(buyers[t]) <= Cardinality(SpokenFor(t)) + Cardinality(lost)
    <3>1. /\ IsFiniteSet(SpokenFor(t) \cup lost)
          /\ Cardinality(SpokenFor(t) \cup lost) =
               Cardinality(SpokenFor(t)) + Cardinality(lost) - Cardinality(SpokenFor(t) \cap lost)
      BY <2>2, <2>4, FS_Union
    <3>2. Cardinality(SpokenFor(t) \cap lost) \in Nat
      BY <2>4, FS_Subset, FS_CardinalityType
    <3>3. Cardinality(buyers[t]) <= Cardinality(SpokenFor(t) \cup lost)
      BY <2>1, <3>1, FS_Subset
    <3> QED  BY <2>2, <2>3, <2>4, <3>1, <3>2, <3>3
  <2>6. capacity[t] <= stock[t] + Cardinality(buyers[t])
    BY <1>1 DEF EmptyInv, NoneMissing
  <2>7. stock[t] \in Nat /\ capacity[t] \in Nat /\ faults \in Nat
    BY <1>1, FaultsAssumption DEF TypeInv, TypeOK, RedisTypeOK, GateTypeOK, InitTypeOK
  <2> QED  BY <2>2, <2>3, <2>4, <2>5, <2>6, <2>7
<1>2. TypeInv /\ OrdersInv /\ EmptyInv /\ AcceptedNeverLost => EmptySeatsCostFaults
  BY <1>1 DEF EmptySeatsCostFaults
<1> QED  BY <1>2, EmptyInvariant, NothingAcceptedIsLost, PTL

-----------------------------------------------------------------------------
(* What a fault can oversell at most *)

(* The claims on the seats of a ticket: of the requests that are under way *)
(* and of those that have a job.  A request has both only by a fault.      *)
Underway(t) == {r \in Requests : /\ call[r] \in {"mark", "enqueue", "release"}
                                 /\ body[r].ticketId = t}

Queued(t) == {r \in Requests : /\ \E i \in DOMAIN jobs : jobs[i].data.orderId = r
                               /\ body[r].ticketId = t}

Claims(t) == Cardinality(Underway(t)) + Cardinality(Queued(t)) + CurrentStock(t)

ClaimInv ==
  \A t \in Tickets : /\ IsFiniteSet(Underway(t)) /\ IsFiniteSet(Queued(t))
                     /\ Claims(t) <= offered[t] + faults

RowsQueued == \A row \in orders : \E i \in DOMAIN jobs : row = RowOf(jobs[i].data)

(* What a step of a request does to the claims on a ticket: it drops some, *)
(* turns a seat of the stock into a claim of its own, turns its own into   *)
(* that of a job or back into a seat, or it costs a fault.                 *)
Takes(t, r) == /\ Underway(t)' = Underway(t) \cup {r} /\ Queued(t)' = Queued(t)
               /\ CurrentStock(t)' <= CurrentStock(t) - 1

Settles(t, r) == \/ Queued(t)' = Queued(t) \cup {r} /\ CurrentStock(t)' <= CurrentStock(t)
                 \/ Queued(t)' = Queued(t) /\ CurrentStock(t)' <= CurrentStock(t) + 1

ClaimStep(t, r) ==
  \/ /\ Underway(t)' \subseteq Underway(t) /\ Queued(t)' = Queued(t)
     /\ CurrentStock(t)' <= CurrentStock(t)
  \/ Takes(t, r)
  \/ r \in Underway(t) /\ Underway(t)' = Underway(t) \ {r} /\ Settles(t, r)
  \/ faults' = faults + 1 /\ Underway(t)' = Underway(t) /\ Settles(t, r)

(* None of these adds to the claims more than its fault.                   *)
LEMMA ClaimStepKeeps ==
  ASSUME NEW t \in Tickets, NEW r, ClaimStep(t, r),
         IsFiniteSet(Underway(t)), IsFiniteSet(Queued(t)), Claims(t) <= offered[t] + faults,
         CurrentStock(t) \in Nat, CurrentStock(t)' \in Nat, faults \in Nat, faults' \in Nat,
         faults' >= faults, offered[t] \in Nat, offered'[t] = offered[t]
  PROVE  /\ IsFiniteSet(Underway(t)') /\ IsFiniteSet(Queued(t)')
         /\ Claims(t)' <= offered'[t] + faults'
<1> DEFINE U == Underway(t)
           Q == Queued(t)
           V == Underway(t)'
           P == Queued(t)'
<1>1. /\ IsFiniteSet(U) /\ IsFiniteSet(Q) /\ Cardinality(U) \in Nat /\ Cardinality(Q) \in Nat
  BY FS_CardinalityType
<1>2. /\ IsFiniteSet(U \cup {r}) /\ Cardinality(U \cup {r}) \in Nat
      /\ Cardinality(U \cup {r}) <= Cardinality(U) + 1
      /\ IsFiniteSet(Q \cup {r}) /\ Cardinality(Q \cup {r}) \in Nat
      /\ Cardinality(Q \cup {r}) <= Cardinality(Q) + 1
  <2>1. /\ IsFiniteSet(U \cup {r}) /\ Cardinality(U \cup {r}) \in {Cardinality(U), Cardinality(U) + 1}
        /\ IsFiniteSet(Q \cup {r}) /\ Cardinality(Q \cup {r}) \in {Cardinality(Q), Cardinality(Q) + 1}
    BY <1>1, FS_AddElement
  <2> HIDE DEF U, Q
  <2> QED  BY <1>1, <2>1
<1>3. Claims(t) = Cardinality(U) + Cardinality(Q) + CurrentStock(t)
  BY DEF Claims
<1>4. Claims(t)' = Cardinality(V) + Cardinality(P) + CurrentStock(t)'
  BY DEF Claims
<1>5. CASE V \subseteq U /\ P = Q /\ CurrentStock(t)' <= CurrentStock(t)
  <2>1. IsFiniteSet(V) /\ Cardinality(V) <= Cardinality(U) /\ Cardinality(V) \in Nat
    BY <1>1, <1>5, FS_Subset, FS_CardinalityType
  <2> HIDE DEF U, Q, V, P
  <2>2. Cardinality(V) + Cardinality(P) + CurrentStock(t)' <= offered[t] + faults
    BY <1>1, <1>3, <1>5, <2>1
  <2> QED  BY <1>1, <1>4, <1>5, <2>1, <2>2 DEF V, P
<1>6. CASE V = U \cup {r} /\ P = Q /\ CurrentStock(t)' <= CurrentStock(t) - 1
  <2> HIDE DEF U, Q, V, P
  <2>1. Cardinality(V) + Cardinality(P) + CurrentStock(t)' <= offered[t] + faults
    BY <1>1, <1>2, <1>3, <1>6
  <2> QED  BY <1>1, <1>2, <1>4, <1>6, <2>1 DEF V, P
<1>7. ASSUME Settles(t, r)
      PROVE  /\ IsFiniteSet(P) /\ Cardinality(P) \in Nat
             /\ Cardinality(P) + CurrentStock(t)' <= Cardinality(Q) + CurrentStock(t) + 1
  <2>1. CASE P = Q \cup {r} /\ CurrentStock(t)' <= CurrentStock(t)
    <3>1. IsFiniteSet(P) /\ Cardinality(P) \in Nat /\ Cardinality(P) <= Cardinality(Q) + 1
      BY <1>2, <2>1
    <3> HIDE DEF P, Q
    <3> QED  BY <1>1, <2>1, <3>1
  <2>2. CASE P = Q /\ CurrentStock(t)' <= CurrentStock(t) + 1
    <3>1. IsFiniteSet(P) /\ Cardinality(P) \in Nat /\ Cardinality(P) = Cardinality(Q)
      BY <1>1, <2>2
    <3> HIDE DEF P, Q
    <3> QED  BY <1>1, <2>2, <3>1
  <2> QED  BY <1>7, <2>1, <2>2 DEF Settles
<1>8. CASE r \in U /\ V = U \ {r} /\ Settles(t, r)
  <2>1. IsFiniteSet(V) /\ Cardinality(V) = Cardinality(U) - 1
    BY <1>1, <1>8, FS_RemoveElement
  <2>2. /\ IsFiniteSet(P) /\ Cardinality(P) \in Nat
        /\ Cardinality(P) + CurrentStock(t)' <= Cardinality(Q) + CurrentStock(t) + 1
    BY <1>7, <1>8
  <2> HIDE DEF U, Q, V, P
  <2>3. Cardinality(V) + Cardinality(P) + CurrentStock(t)' <= offered[t] + faults
    BY <1>1, <1>3, <2>1, <2>2
  <2> QED  BY <1>1, <1>4, <2>1, <2>2, <2>3 DEF V, P
<1>9. CASE faults' = faults + 1 /\ V = U /\ Settles(t, r)
  <2>1. /\ IsFiniteSet(P) /\ Cardinality(P) \in Nat
        /\ Cardinality(P) + CurrentStock(t)' <= Cardinality(Q) + CurrentStock(t) + 1
    BY <1>7, <1>9
  <2>2. Cardinality(V) = Cardinality(U) /\ IsFiniteSet(V)
    BY <1>1, <1>9
  <2> HIDE DEF U, Q, V, P
  <2>3. Cardinality(V) + Cardinality(P) + CurrentStock(t)' <= offered[t] + faults'
    BY <1>1, <1>3, <1>9, <2>1, <2>2
  <2>4. Claims(t)' <= offered'[t] + faults'
    BY <1>4, <2>3
  <2> QED  BY <2>1, <2>2, <2>4 DEF V, P
<1> QED  BY <1>5, <1>6, <1>8, <1>9 DEF ClaimStep, Takes

(* A request has no job before it has sent one.                            *)
LEMMA ClaimsPlaced ==
  ASSUME TypeInv, OrdersInv, NEW r \in Requests
  PROVE  /\ \A i \in DOMAIN jobs : jobs[i].data.orderId = r =>
                call[r] \notin {"idle", "mark", "enqueue"}
         /\ \A t : r \in Queued(t) => call[r] \notin {"idle", "mark", "enqueue"}
  BY DEF OrdersInv, Origins, Placed, Queued

LEMMA RequestClaims ==
  ASSUME TypeInv, OrdersInv, NEW r \in Requests, RequestStep(r), NEW t \in Tickets
  PROVE  ClaimStep(t, r)
<1> USE DEF TypeInv, TypeOK, GateTypeOK, RedisTypeOK, Goto
<1>1. CurrentStock(t) \in Nat /\ faults \in Nat
  BY FaultsAssumption, NoKeyAssumption DEF CurrentStock
<1>2. \A q \in Requests \ {r} : call'[q] = call[q] /\ body'[q] = body[q]
  BY OnlyItsOwn
<1>3. UNCHANGED jobs => /\ \A q \in Requests \ {r} : q \in Queued(t)' <=> q \in Queued(t)
                        /\ UNCHANGED body => Queued(t)' = Queued(t)
  BY <1>2 DEF Queued
<1>4. /\ \A q \in Requests \ {r} : q \in Underway(t)' <=> q \in Underway(t)
      /\ Underway(t) \subseteq Requests /\ Underway(t)' \subseteq Requests
  BY <1>2 DEF Underway, Requests
<1>5. UNCHANGED stock => CurrentStock(t)' = CurrentStock(t)
  BY DEF CurrentStock
<1>6. ASSUME NEW u \in Tickets, NEW raw \in RawEmails, Reserve(r, u, raw)
      PROVE  ClaimStep(t, r)
  <2>1. call[r] = "idle" /\ UNCHANGED jobs /\ body'[r].ticketId = u
    BY <1>6 DEF Reserve
  <2>2. r \notin Underway(t) /\ Queued(t)' = Queued(t)
    BY <1>3, <2>1, ClaimsPlaced DEF Underway, Queued, Requests
  <2>3. CASE UNCHANGED stock /\ call'[r] \in {"duplicate", "soldOut", "failed"}
    <3>1. r \notin Underway(t)'
      BY <2>3 DEF Underway
    <3>2. Underway(t)' \subseteq Underway(t)
      BY <1>4, <3>1
    <3> QED  BY <1>1, <1>5, <2>2, <2>3, <3>2 DEF ClaimStep
  <2>4. CASE BuyTicket(u, Normalized[raw], "reserved")
    <3>1. t # u => UNCHANGED <<stock[t]>>
      BY <2>4 DEF BuyTicket
    <3>2. t = u => CurrentStock(t)' = CurrentStock(t) - 1
      BY <1>1, <2>4, NoKeyAssumption DEF BuyTicket, CurrentStock
    <3>3. CurrentStock(t)' <= CurrentStock(t) /\ (t # u => CurrentStock(t)' = CurrentStock(t))
      BY <1>1, <3>1, <3>2 DEF CurrentStock
    <3>4. r \in Underway(t)' => t = u
      BY <2>1 DEF Underway
    <3>5. CASE r \in Underway(t)'
      <4>1. Underway(t)' = Underway(t) \cup {r}
        BY <1>4, <2>2, <3>5
      <4> QED  BY <1>1, <2>2, <3>2, <3>4, <3>5, <4>1 DEF ClaimStep, Takes
    <3>6. CASE r \notin Underway(t)'
      <4>1. Underway(t)' \subseteq Underway(t)
        BY <1>4, <3>6
      <4> QED  BY <2>2, <3>3, <4>1 DEF ClaimStep
    <3> QED  BY <3>5, <3>6
  <2>5. \/ UNCHANGED stock /\ call'[r] \in {"duplicate", "soldOut", "failed"}
        \/ BuyTicket(u, Normalized[raw], "reserved")
    BY <1>6 DEF Reserve, BuyTicketReplies, BuyTicket
  <2> QED  BY <2>3, <2>4, <2>5
<1>7. ASSUME UNCHANGED <<jobs, body>>, call'[r] \in {"mark", "enqueue", "release"} =>
               call[r] \in {"mark", "enqueue", "release"}
      PROVE  Queued(t)' = Queued(t) /\ Underway(t)' \subseteq Underway(t)
  BY <1>3, <1>4, <1>7 DEF Underway
<1>8. CASE ResendReserve(r)
  <2>1. call[r] = "mark" /\ UNCHANGED <<jobs, body>>
    BY <1>8 DEF ResendReserve
  <2>2. CurrentStock(t)' <= CurrentStock(t)
    <3>1. PICK reply : BuyTicket(body[r].ticketId, body[r].customerEmail, reply)
      BY <1>8 DEF ResendReserve
    <3>2. UNCHANGED stock \/ stock' = [stock EXCEPT ![body[r].ticketId] =
                                          CurrentStock(body[r].ticketId) - 1]
      BY <3>1 DEF BuyTicket
    <3> QED  BY <1>1, <1>5, <3>2, NoKeyAssumption DEF CurrentStock
  <2> QED  BY <1>7, <2>1, <2>2 DEF ClaimStep
<1>9. CASE MarkPending(r)
  BY <1>1, <1>5, <1>7, <1>9 DEF MarkPending, ClaimStep
<1>10. CASE ClearPendingOfFailedCall(r)
  BY <1>1, <1>5, <1>7, <1>10 DEF ClearPendingOfFailedCall, ClaimStep
<1>11. CASE GatewayCrash(r)
  BY <1>1, <1>5, <1>7, <1>11 DEF GatewayCrash, ClaimStep, redisVars
<1>12. CASE Enqueue(r)
  <2>1. /\ call[r] = "enqueue" /\ UNCHANGED <<stock, body>>
        /\ JobDataOf(r) \in OrderJobData /\ JobDataOf(r).orderId = r
    BY <1>12 DEF Enqueue, redisVars, JobDataOf, OrderJobData, Bodies, Requests
  <2>2. CurrentStock(t)' = CurrentStock(t)
    BY <1>5, <2>1
  <2>3. CASE UNCHANGED jobs
    BY <1>1, <1>7, <2>1, <2>2, <2>3 DEF ClaimStep
  <2>4. CASE AddJob(JobDataOf(r)) \/ AddJobTwice(JobDataOf(r))
    <3>1. /\ DOMAIN jobs \subseteq DOMAIN jobs' /\ DOMAIN jobs # DOMAIN jobs'
          /\ \A j \in DOMAIN jobs : jobs'[j] = jobs[j]
          /\ \A j \in DOMAIN jobs' \ DOMAIN jobs : jobs'[j].data = JobDataOf(r)
      BY <2>1, <2>4, AddKeeps
    <3>2. \A q \in Requests : (\E i \in DOMAIN jobs' : jobs'[i].data.orderId = q) <=>
            q = r \/ \E i \in DOMAIN jobs : jobs[i].data.orderId = q
      BY <2>1, <3>1
    <3>3. Queued(t)' = IF body[r].ticketId = t THEN Queued(t) \cup {r} ELSE Queued(t)
      <4>1. \A q \in Requests : q \in Queued(t)' <=>
              body[q].ticketId = t /\ (q = r \/ \E i \in DOMAIN jobs : jobs[i].data.orderId = q)
        BY <2>1, <3>2 DEF Queued
      <4>2. \A q \in Requests : q \in Queued(t)' <=> q \in Queued(t) \/ (q = r /\ body[r].ticketId = t)
        BY <4>1 DEF Queued
      <4>3. Queued(t) \subseteq Requests /\ Queued(t)' \subseteq Requests
        BY DEF Queued, Requests
      <4> QED  BY <4>2, <4>3
    <3>4. r \in Underway(t) <=> body[r].ticketId = t
      BY <2>1 DEF Underway
    <3>5. CASE body[r].ticketId # t
      <4>1. Underway(t)' = Underway(t)
        BY <1>4, <2>1, <3>5 DEF Underway
      <4> QED  BY <1>1, <2>2, <3>3, <3>5, <4>1 DEF ClaimStep
    <3>6. CASE body[r].ticketId = t /\ call'[r] = "accepted"
      <4>1. Underway(t)' = Underway(t) \ {r}
        BY <1>4, <3>6 DEF Underway
      <4> QED  BY <1>1, <2>2, <3>3, <3>4, <3>6, <4>1 DEF ClaimStep, Settles
    <3>7. CASE body[r].ticketId = t /\ call'[r] = "release" /\ faults' = faults + 1
      <4>1. Underway(t)' = Underway(t)
        BY <1>4, <2>1, <3>7 DEF Underway
      <4> QED  BY <1>1, <2>2, <3>3, <3>7, <4>1 DEF ClaimStep, Settles
    <3> QED  BY <1>12, <2>4, <3>1, <3>5, <3>6, <3>7 DEF Enqueue, Fault
  <2> QED  BY <1>12, <2>3, <2>4 DEF Enqueue
<1>13. CASE Release(r) \/ ResendRelease(r)
  <2>1. UNCHANGED <<jobs, body>> /\ Queued(t)' = Queued(t)
    BY <1>3, <1>13 DEF Release, ResendRelease, callVars
  <2>2. \/ CurrentStock(t)' = CurrentStock(t)
        \/ t = body[r].ticketId /\ CurrentStock(t)' = CurrentStock(t) + 1
    <3>1. \/ UNCHANGED stock
          \/ stock' = [stock EXCEPT ![body[r].ticketId] = CurrentStock(body[r].ticketId) + 1]
      BY <1>13 DEF Release, ResendRelease, ReleaseTicketReservation
    <3> QED  BY <1>1, <1>5, <3>1, NoKeyAssumption DEF CurrentStock
  <2>3. CASE ResendRelease(r)
    <3>1. Underway(t)' = Underway(t) /\ faults' = faults + 1
      BY <2>3 DEF ResendRelease, Underway, callVars, Fault
    <3> QED  BY <1>1, <2>1, <2>2, <3>1 DEF ClaimStep, Settles
  <2>4. CASE Release(r)
    <3>1. call[r] = "release" /\ call'[r] \in {"unmark", "stranded", "failed"}
      BY <2>4 DEF Release
    <3>2. Underway(t)' = Underway(t) \ {r}
      BY <1>4, <3>1 DEF Underway
    <3>3. r \in Underway(t) <=> body[r].ticketId = t
      BY <3>1 DEF Underway
    <3> QED  BY <1>1, <2>1, <2>2, <3>2, <3>3 DEF ClaimStep, Settles
  <2> QED  BY <1>13, <2>3, <2>4
<1> QED  BY <1>6, <1>8, <1>9, <1>10, <1>11, <1>12, <1>13 DEF RequestStep
LEMMA InitStepClaims ==
  ASSUME TypeInv, TypeInv', ClaimInv, NEW c \in InitCalls, InitStep(c),
         faults' \in Nat, faults' >= faults
  PROVE  ClaimInv'
<1> USE DEF TypeInv, TypeOK, RedisTypeOK, GateTypeOK
<1> SUFFICES ASSUME NEW t \in Tickets
             PROVE  /\ IsFiniteSet(Underway(t)') /\ IsFiniteSet(Queued(t)')
                    /\ Claims(t)' <= offered'[t] + faults'
  BY DEF ClaimInv
<1>1. UNCHANGED <<jobs, call, body>>
  BY InitStepKeys
<1>2. Underway(t)' = Underway(t) /\ Queued(t)' = Queued(t)
  BY <1>1 DEF Underway, Queued
<1>3. \/ CurrentStock(t)' <= CurrentStock(t) /\ offered'[t] = offered[t]
      \/ \E n \in Nat : CurrentStock(t)' = n /\ offered'[t] = offered[t] + n
  <2>1. CurrentStock(t) \in Nat
    BY DEF CurrentStock
  <2>2. CASE UNCHANGED <<stock, buyers, capacity, offered>>
    BY <2>1, <2>2 DEF CurrentStock
  <2>3. ASSUME NEW u \in Tickets, DeleteKeys(u), UNCHANGED offered
        PROVE  CurrentStock(t)' <= CurrentStock(t) /\ offered'[t] = offered[t]
    BY <2>1, <2>3 DEF DeleteKeys, CurrentStock
  <2>4. ASSUME NEW u \in Tickets, NEW n \in Nat, stock' = [stock EXCEPT ![u] = n],
               offered' = [offered EXCEPT ![u] = @ + n]
        PROVE  \/ CurrentStock(t)' <= CurrentStock(t) /\ offered'[t] = offered[t]
               \/ CurrentStock(t)' = n /\ offered'[t] = offered[t] + n
    <3>1. n # NoKey
      BY NoKeyAssumption
    <3> QED  BY <2>1, <2>4, <3>1 DEF CurrentStock
  <2> QED  BY <2>2, <2>3, <2>4, InitStepKeys
<1>4. /\ Cardinality(Underway(t)) \in Nat /\ Cardinality(Queued(t)) \in Nat
      /\ CurrentStock(t) \in Nat /\ CurrentStock(t)' \in Nat
      /\ offered[t] \in Nat /\ faults \in Nat
      /\ Claims(t) <= offered[t] + faults
  <2>1. CurrentStock(t) \in Nat /\ CurrentStock(t)' \in Nat /\ offered[t] \in Nat /\ faults \in Nat
    BY FaultsAssumption DEF CurrentStock
  <2> QED  BY <2>1, FS_CardinalityType DEF ClaimInv
<1>5. Claims(t)' <= offered'[t] + faults'
  <2>1. Claims(t)' = Cardinality(Underway(t)) + Cardinality(Queued(t)) + CurrentStock(t)'
    BY <1>2 DEF Claims
  <2>2. Claims(t) = Cardinality(Underway(t)) + Cardinality(Queued(t)) + CurrentStock(t)
    BY DEF Claims
  <2> DEFINE claimed == Cardinality(Underway(t)) + Cardinality(Queued(t))
             left == CurrentStock(t)
             leftNow == CurrentStock(t)'
             offer == offered[t]
             offerNow == offered'[t]
  <2>3. /\ claimed \in Nat /\ left \in Nat /\ leftNow \in Nat /\ offer \in Nat
        /\ claimed + left <= offer + faults
        /\ \/ leftNow <= left /\ offerNow = offer
           \/ \E n \in Nat : leftNow = n /\ offerNow = offer + n
        /\ faults \in Nat /\ faults' \in Nat /\ faults' >= faults
    BY <1>3, <1>4, <2>2
  <2> HIDE DEF claimed, left, leftNow, offer, offerNow
  <2>4. claimed + leftNow <= offerNow + faults'
    BY <2>3
  <2> QED  BY <2>1, <2>4 DEF claimed, leftNow, offerNow
<1> QED  BY <1>2, <1>5 DEF ClaimInv

(* The invariant survives every step, and every fault.                     *)
THEOREM ClaimInvariant == Spec => [](TypeInv /\ OrdersInv /\ ClaimInv /\ RowsQueued)
<1>1. ASSUME Init
      PROVE  ClaimInv /\ RowsQueued
  <2>1. \A t : Underway(t) = {} /\ Queued(t) = {}
    BY <1>1 DEF Init, GateInit, Underway, Queued
  <2>2. \A t \in Tickets : CurrentStock(t) = 0 /\ offered[t] = 0 /\ faults = 0
    BY <1>1 DEF Init, GateInit, RedisInit, CurrentStock
  <2> QED  BY <1>1, <2>1, <2>2, FS_EmptySet DEF Init, WorkerInit, ClaimInv, Claims, RowsQueued
<1>2. ASSUME TypeInv, OrdersInv, ClaimInv, RowsQueued, [Next]_vars
      PROVE  (TypeInv /\ OrdersInv /\ ClaimInv /\ RowsQueued)'
  <2>1. TypeInv' /\ OrdersInv'
    BY <1>2, FlowSteps, StepTypeInv, StepOrders
  <2>2. faults \in Nat /\ faults' \in Nat
    BY <1>2, <2>1, FaultsAssumption DEF TypeInv, TypeOK
  <2>3. ASSUME UNCHANGED <<stock, call, body, offered>>, faults' >= faults,
               DOMAIN jobs' = DOMAIN jobs, \A i \in DOMAIN jobs : jobs'[i].data = jobs[i].data
        PROVE  ClaimInv'
    <3>1. \A t \in Tickets : /\ Underway(t)' = Underway(t) /\ Queued(t)' = Queued(t)
                             /\ CurrentStock(t)' = CurrentStock(t)
      BY <2>3 DEF Underway, Queued, CurrentStock
    <3>2. ASSUME NEW t \in Tickets PROVE Claims(t)' <= offered'[t] + faults'
      <4>1. /\ Claims(t)' = Claims(t) /\ offered'[t] = offered[t]
        BY <2>3, <3>1 DEF Claims
      <4>2. /\ Cardinality(Underway(t)) \in Nat /\ Cardinality(Queued(t)) \in Nat
            /\ CurrentStock(t) \in Nat /\ offered[t] \in Nat
            /\ Claims(t) <= offered[t] + faults
        BY <1>2, FS_CardinalityType
           DEF ClaimInv, TypeInv, TypeOK, RedisTypeOK, GateTypeOK, CurrentStock
      <4> QED  BY <2>2, <2>3, <4>1, <4>2 DEF Claims
    <3> QED  BY <1>2, <3>1, <3>2 DEF ClaimInv
  <2>4. CASE Next
    <3>1. faults' >= faults
      BY <2>2, <2>4, FaultsMount
    <3>2. CASE WorkerStep
      <4>1. UNCHANGED <<stock, call, body, offered>>
        BY <1>2, <3>2, WorkerRows DEF WorkerStep, callVars, openingVars
      <4>2. /\ DOMAIN jobs' = DOMAIN jobs
            /\ \A i \in DOMAIN jobs : jobs'[i].data = jobs[i].data
        BY <1>2, <3>2, WorkerQueue DEF WorkerStep, TypeInv
      <4>3. UNCHANGED orders \/ \E i \in DOMAIN jobs : orders' = orders \cup {RowOf(jobs[i].data)}
        BY <1>2, <3>2, WorkerRows DEF WorkerStep
      <4>4. RowsQueued'
        BY <1>2, <4>2, <4>3 DEF RowsQueued, RowOf
      <4> QED  BY <2>1, <2>3, <3>1, <4>1, <4>2, <4>4
    <3>3. CASE GateStep
      <4>1. /\ DOMAIN jobs \subseteq DOMAIN jobs'
            /\ \A i \in DOMAIN jobs : jobs'[i].data = jobs[i].data
        <5>1. TypeOK /\ jobs \in Seq(JobType(OrderJobData)) /\ GateNext
          BY <1>2, <3>3 DEF GateStep, TypeInv, TypeOK
        <5>2. CASE UNCHANGED jobs
          BY <5>2
        <5>3. ASSUME NEW d \in OrderJobData, AddJob(d) \/ AddJobTwice(d)
              PROVE  /\ DOMAIN jobs \subseteq DOMAIN jobs'
                     /\ \A i \in DOMAIN jobs : jobs'[i].data = jobs[i].data
          BY <5>1, <5>3, AddKeeps
        <5> QED  BY <5>1, <5>2, <5>3, GateQueue
      <4>2. RowsQueued'
        BY <1>2, <3>3, <4>1 DEF RowsQueued, RowOf, GateStep, outcomeVars
      <4>3. CASE \E r \in Requests : RequestStep(r)
        <5>1. PICK r \in Requests : RequestStep(r)
          BY <4>3
        <5>2. UNCHANGED openingVars
          BY <5>1 DEF RequestStep, Reserve, ResendReserve, MarkPending, Enqueue, Release,
             ResendRelease, ClearPendingOfFailedCall, GatewayCrash
        <5>3. ASSUME NEW t \in Tickets
              PROVE  /\ IsFiniteSet(Underway(t)') /\ IsFiniteSet(Queued(t)')
                     /\ Claims(t)' <= offered'[t] + faults'
          <6>1. ClaimStep(t, r)
            BY <1>2, <5>1, RequestClaims
          <6>2. /\ CurrentStock(t) \in Nat /\ CurrentStock(t)' \in Nat
                /\ offered[t] \in Nat /\ offered'[t] = offered[t]
            BY <1>2, <2>1, <5>2
               DEF TypeInv, TypeOK, RedisTypeOK, GateTypeOK, CurrentStock, openingVars
          <6> QED  BY <1>2, <2>2, <3>1, <6>1, <6>2, ClaimStepKeeps DEF ClaimInv
        <5> QED  BY <2>1, <4>2, <5>3 DEF ClaimInv
      <4>4. CASE \E c \in InitCalls : InitStep(c)
        BY <1>2, <2>1, <2>2, <3>1, <4>2, <4>4, InitStepClaims
      <4>5. CASE Expire
        BY <2>1, <2>3, <3>1, <4>2, <4>5 DEF Expire, PendingExpires, callVars, openingVars
      <4> QED  BY <3>3, <4>3, <4>4, <4>5 DEF GateStep, GateNext
    <3> QED  BY <2>4, <3>2, <3>3 DEF Next
  <2>5. CASE UNCHANGED vars
    <3>1. UNCHANGED <<stock, call, body, offered, jobs, orders, faults>>
      BY <2>5 DEF vars, redisVars, callVars, openingVars, outcomeVars
    <3> QED  BY <1>2, <2>1, <2>2, <2>3, <3>1 DEF RowsQueued, RowOf
  <2> QED  BY <1>2, <2>4, <2>5
<1> QED  BY <1>1, <1>2, InitTypeInv, InitOrdersInv, PTL DEF Spec

(* The orders of a ticket and what is left of its stock are never more     *)
(* than the seats that were put on sale, by every run of a SET, and one    *)
(* for each fault (redis.service.ts:20-50, tickets.service.ts:44-65).      *)
THEOREM AFaultOversellsASeat == Spec => []OversellCostsFaults
<1>1. ASSUME TypeInv, OrdersInv, ClaimInv, RowsQueued, NEW t \in Tickets
      PROVE  Cardinality(SoldSeats(t)) + CurrentStock(t) <= offered[t] + faults
  <2> DEFINE purchase == [row \in SoldSeats(t) |-> row.id]
  <2>1. ASSUME NEW row \in SoldSeats(t) PROVE row.id \in Queued(t)
    <3>1. row \in orders /\ row.ticketId = t
      BY DEF SoldSeats
    <3>2. PICK i \in DOMAIN jobs : row = RowOf(jobs[i].data)
      BY <1>1, <3>1 DEF RowsQueued
    <3>3. jobs[i].data \in OrderJobData /\ jobs[i].data = JobDataOf(jobs[i].data.orderId)
      BY <1>1, JobData DEF OrdersInv, Origins, Placed, TypeInv, TypeOK
    <3>4. /\ row.id = jobs[i].data.orderId /\ row.id \in Requests
          /\ body[row.id].ticketId = t
      BY <3>1, <3>2, <3>3 DEF RowOf, JobDataOf, OrderJobData, Requests
    <3> QED  BY <3>4 DEF Queued
  <2>2. \A row1, row2 \in SoldSeats(t) : row1.id = row2.id => row1 = row2
    BY <1>1 DEF OrdersInv, UniqueRows, SoldSeats
  <2>3. purchase \in Injection(SoldSeats(t), Queued(t))
    BY <2>1, <2>2 DEF Injection, IsInjective
  <2>4. IsFiniteSet(Queued(t)) /\ IsFiniteSet(Underway(t)) /\ Claims(t) <= offered[t] + faults
    BY <1>1 DEF ClaimInv
  <2>5. IsFiniteSet(SoldSeats(t)) /\ Cardinality(SoldSeats(t)) <= Cardinality(Queued(t))
    BY <2>3, <2>4, FS_Injection
  <2>6. /\ Cardinality(SoldSeats(t)) \in Nat /\ Cardinality(Queued(t)) \in Nat
        /\ Cardinality(Underway(t)) \in Nat
    BY <2>4, <2>5, FS_CardinalityType
  <2>7. CurrentStock(t) \in Nat /\ offered[t] \in Nat /\ faults \in Nat
    BY <1>1, FaultsAssumption DEF TypeInv, TypeOK, RedisTypeOK, GateTypeOK, CurrentStock
  <2> QED  BY <2>4, <2>5, <2>6, <2>7 DEF Claims
<1>2. TypeInv /\ OrdersInv /\ ClaimInv /\ RowsQueued => OversellCostsFaults
  BY <1>1 DEF OversellCostsFaults
<1> QED  BY <1>2, ClaimInvariant, PTL
=============================================================================
