--------------------------- MODULE FlashSale_types --------------------------
(***************************************************************************)
(* Type correctness of the purchase flow, for every number of requests,    *)
(* workers, tickets, attempts and faults, and what each kind of step can   *)
(* change, which every other proof about the flow starts from.             *)
(***************************************************************************)
EXTENDS FlashSale, TLAPS

(* A worker goes on only with a row it has found or saved: what the names  *)
(* PersistedOrder(...) and Data(w) stand for then.                         *)
DuplicateFound ==
  \A w \in Workers : step[w] \in {"clearDuplicate", "publishDuplicate"} =>
    \E row \in orders : SamePurchase(row, Data(w))

TypeInv == TypeOK /\ DuplicateFound

(* The initial state has its types, and no worker has a duplicate.         *)
LEMMA InitTypeInv == Init => TypeInv
  BY FaultsAssumption
  DEF Init, GateInit, NoInitCalls, RedisInit, WorkerInit, TypeInv, TypeOK, RedisTypeOK,
         GateTypeOK, InitTypeOK, InitStates, WorkerTypeOK, DuplicateFound, CallStates, Requests, Steps

(* The queue after each of its operations: it keeps its jobs, with their data. *)
LEMMA ChangeKeeps ==
  ASSUME NEW D, jobs \in Seq(JobType(D)),
         NEW i \in DOMAIN jobs, NEW job \in JobType(D), job.data = jobs[i].data,
         Change(i, job)
  PROVE  /\ jobs' \in Seq(JobType(D))
         /\ DOMAIN jobs' = DOMAIN jobs
         /\ \A j \in DOMAIN jobs : jobs'[j].data = jobs[j].data
  BY DEF Change

(* An add, sent once or twice, keeps the jobs there are and puts new ones, *)
(* with the data given to it, behind them.                                 *)
LEMMA AddKeeps ==
  ASSUME NEW D, jobs \in Seq(JobType(D)), NEW d \in D, AddJob(d) \/ AddJobTwice(d)
  PROVE  /\ jobs' \in Seq(JobType(D))
         /\ DOMAIN jobs \subseteq DOMAIN jobs'
         /\ DOMAIN jobs # DOMAIN jobs'
         /\ \A j \in DOMAIN jobs : jobs'[j] = jobs[j]
         /\ \A j \in DOMAIN jobs' \ DOMAIN jobs : jobs'[j].data = d /\ jobs'[j].state = "wait"
<1>1. NewJob(d) \in JobType(D) /\ NewJob(d).data = d /\ NewJob(d).state = "wait"
  BY DEF NewJob, JobType, JobStates
<1>2. CASE AddJob(d)
  BY <1>1, <1>2 DEF AddJob
<1>3. CASE AddJobTwice(d)
  <2> DEFINE once == Append(jobs, NewJob(d))
  <2>1. once \in Seq(JobType(D)) /\ Len(once) = Len(jobs) + 1
    BY <1>1
  <2>2. jobs' = Append(once, NewJob(d))
    BY <1>3 DEF AddJobTwice
  <2>3. \A j \in 1 .. Len(jobs) : once[j] = jobs[j]
    OBVIOUS
  <2>4. once[Len(jobs) + 1] = NewJob(d)
    OBVIOUS
  <2> HIDE DEF once
  <2> QED  BY <1>1, <2>1, <2>2, <2>3, <2>4
<1> QED  BY <1>2, <1>3

(* A job that is taken, completed or failed keeps its place and its data.  *)
LEMMA QueueKeeps ==
  ASSUME NEW D, jobs \in Seq(JobType(D)), NEW w \in Workers, NEW i \in DOMAIN jobs,
         \/ TakeJob(w, i)
         \/ CompleteJob(w, i)
         \/ FailJob(w, i)
  PROVE  /\ jobs' \in Seq(JobType(D))
         /\ DOMAIN jobs' = DOMAIN jobs
         /\ \A j \in DOMAIN jobs : jobs'[j].data = jobs[j].data
<1>1. jobs[i] \in JobType(D)
  OBVIOUS
<1>2. CASE TakeJob(w, i)
  BY <1>1, <1>2, ChangeKeeps DEF TakeJob, JobType, JobStates
<1>3. CASE CompleteJob(w, i)
  BY <1>1, <1>3, ChangeKeeps DEF CompleteJob, JobType, JobStates
<1>4. CASE FailJob(w, i)
  <2> DEFINE next == IF jobs[i].attempts + 1 < Attempts THEN "wait" ELSE "failed"
             made == jobs[i].attempts + 1
             tried == [jobs[i] EXCEPT !.state = next, !.lock = NoWorker, !.attempts = made]
  <2>1. tried \in JobType(D) /\ tried.data = jobs[i].data
    <3>1. next \in JobStates /\ made \in Nat
      BY <1>1 DEF JobStates, JobType
    <3> HIDE DEF next, made
    <3> QED  BY <1>1, <3>1 DEF JobType
  <2>2. UNCHANGED jobs \/ Change(i, tried)
    BY <1>4 DEF FailJob
  <2> HIDE DEF tried
  <2> QED  BY <2>1, <2>2, ChangeKeeps
<1> QED  BY <1>2, <1>3, <1>4

(* So does a job whose lock has expired (the stalled checker).             *)
LEMMA RequeueKeeps ==
  ASSUME NEW D, jobs \in Seq(JobType(D)), NEW i \in DOMAIN jobs, RequeueStalled(i)
  PROVE  /\ jobs' \in Seq(JobType(D))
         /\ DOMAIN jobs' = DOMAIN jobs
         /\ \A j \in DOMAIN jobs : jobs'[j].data = jobs[j].data
<1> DEFINE next == IF jobs[i].stalls < MaxStalls THEN "wait" ELSE "failed"
           count == jobs[i].stalls + 1
           stalled == [jobs[i] EXCEPT !.state = next, !.lock = NoWorker, !.stalls = count]
<1>1. stalled \in JobType(D) /\ stalled.data = jobs[i].data
  <2>1. jobs[i] \in JobType(D)
    OBVIOUS
  <2>2. next \in JobStates /\ count \in Nat
    BY <2>1 DEF JobStates, JobType
  <2> HIDE DEF next, count
  <2> QED  BY <2>1, <2>2 DEF JobType
<1>2. Change(i, stalled)
  BY DEF RequeueStalled
<1> HIDE DEF stalled
<1> QED  BY <1>1, <1>2, ChangeKeeps

-----------------------------------------------------------------------------
(* The steps of the gateways *)

(* Every job in the queue has job data.                                    *)
LEMMA JobData ==
  ASSUME NEW D, jobs \in Seq(JobType(D))
  PROVE  \A i \in DOMAIN jobs : jobs[i].data \in D
<1>1. \A i \in DOMAIN jobs : jobs[i] \in JobType(D)
  OBVIOUS
<1> QED  BY <1>1 DEF JobType

(* The number of faults stays within its bound, whether a step takes one   *)
(* or not.                                                                 *)
LEMMA FaultType ==
  ASSUME faults \in 0 .. MaxFaults, NEW kind, NoFault \/ Fault(kind)
  PROVE  faults' \in 0 .. MaxFaults
  BY FaultsAssumption DEF NoFault, Fault

(* BUY_TICKET_LUA never makes the stock negative, and adds emails only.    *)
LEMMA BuyTicketType ==
  ASSUME RedisTypeOK, NEW t \in Tickets, NEW e \in Emails, NEW reply,
         BuyTicket(t, e, reply)
  PROVE  /\ stock' \in [Tickets -> Nat \cup {NoKey}]
         /\ buyers' \in [Tickets -> SUBSET Emails]
  BY NoKeyAssumption DEF RedisTypeOK, BuyTicket, CurrentStock

(* RELEASE_TICKET_RESERVATION_LUA keeps the types of both keys too.        *)
LEMMA ReleaseType ==
  ASSUME RedisTypeOK, NEW t \in Tickets, NEW e \in Emails,
         ReleaseTicketReservation(t, e)
  PROVE  /\ stock' \in [Tickets -> Nat \cup {NoKey}]
         /\ buyers' \in [Tickets -> SUBSET Emails]
  BY NoKeyAssumption DEF RedisTypeOK, ReleaseTicketReservation, CurrentStock

(* A request's step keeps the types of Redis and of the gateways, and adds *)
(* to the queue, at most, a job of its own purchase.                       *)
GateTypes == faults \in 0 .. MaxFaults /\ RedisTypeOK /\ GateTypeOK

(* The first step of buyTicket keeps the types, and gives the request its  *)
(* body.                                                                   *)
LEMMA ReserveType ==
  ASSUME GateTypes, NEW r \in Requests, NEW t \in Tickets, NEW raw \in RawEmails,
         Reserve(r, t, raw)
  PROVE  GateTypes'
<1> DEFINE e == Normalized[raw]
<1>1. e \in Emails
  BY GatewayAssumption
<1>2. faults' \in 0 .. MaxFaults
  BY FaultType DEF GateTypes, Reserve
<1>3. /\ body' \in [Requests -> Bodies \cup {NoBody}]
      /\ \A q \in Requests : (q = r \/ body[q] \in Bodies) => body'[q] \in Bodies
  BY <1>1 DEF GateTypes, GateTypeOK, Reserve, Bodies
<1>4. PICK state \in {"mark", "duplicate", "soldOut", "failed", "stranded"} : Goto(r, state)
  BY DEF Reserve, BuyTicketReplies
<1>5. /\ stock' \in [Tickets -> Nat \cup {NoKey}]
      /\ buyers' \in [Tickets -> SUBSET Emails]
  <2>1. (\E reply : BuyTicket(t, e, reply)) \/ UNCHANGED <<stock, buyers>>
    BY DEF Reserve
  <2> QED  BY <1>1, <2>1, BuyTicketType DEF GateTypes, RedisTypeOK
<1>6. pending' \in SUBSET OrderIds
  BY DEF GateTypes, RedisTypeOK, Reserve
<1>7. /\ call' \in [Requests -> CallStates]
      /\ \A q \in Requests : call'[q] # "idle" => q = r \/ call[q] # "idle"
  BY <1>4 DEF GateTypes, GateTypeOK, Goto, CallStates
<1> QED  BY <1>2, <1>3, <1>5, <1>6, <1>7 DEF GateTypes, RedisTypeOK, GateTypeOK, InitTypeOK, Reserve, openingVars, initVars

(* The other calls of buyTicket keep the request's body.                   *)
LaterStep(r) ==
  \/ ResendReserve(r) \/ MarkPending(r) \/ Enqueue(r) \/ Release(r)
  \/ ResendRelease(r) \/ ClearPendingOfFailedCall(r) \/ GatewayCrash(r)

LEMMA CallType ==
  ASSUME GateTypes, NEW r \in Requests, LaterStep(r)
  PROVE  GateTypes'
<1> USE DEF LaterStep
<1>1. call[r] # "idle"
  BY DEF ResendReserve, MarkPending, Enqueue, Release, ResendRelease,
     ClearPendingOfFailedCall, GatewayCrash
<1>2. UNCHANGED body /\ body[r] \in Bodies
  BY <1>1 DEF GateTypes, GateTypeOK, ResendReserve, MarkPending, Enqueue, Release,
     ResendRelease, ClearPendingOfFailedCall, GatewayCrash, callVars
<1>3. faults' \in 0 .. MaxFaults
  BY FaultType DEF GateTypes, ResendReserve, MarkPending, Enqueue, Release, ResendRelease,
     ClearPendingOfFailedCall, GatewayCrash, Answered
<1>4. UNCHANGED call \/ \E state \in CallStates \ {"idle"} : Goto(r, state)
  BY DEF ResendReserve, BuyTicketReplies, MarkPending, Enqueue, Release, ResendRelease,
     ClearPendingOfFailedCall, GatewayCrash, CallStates, callVars
<1>5. /\ stock' \in [Tickets -> Nat \cup {NoKey}]
      /\ buyers' \in [Tickets -> SUBSET Emails]
  <2>1. \/ ReleaseTicketReservation(body[r].ticketId, body[r].customerEmail)
        \/ \E reply : BuyTicket(body[r].ticketId, body[r].customerEmail, reply)
        \/ UNCHANGED <<stock, buyers>>
    BY DEF ResendReserve, MarkPending, Enqueue, Release, ResendRelease,
       ClearPendingOfFailedCall, GatewayCrash, redisVars
  <2> QED  BY <1>2, <2>1, ReleaseType, BuyTicketType DEF GateTypes, RedisTypeOK, Bodies
<1>6. pending' \in SUBSET OrderIds
  BY DEF GateTypes, RedisTypeOK, ResendReserve, MarkPending, Enqueue, Release, ResendRelease,
     ClearPendingOfFailedCall, GatewayCrash, redisVars, SetPendingOrderStatus,
     DeletePendingOrderStatus, Requests
<1>7. /\ call' \in [Requests -> CallStates]
      /\ \A q \in Requests : call'[q] # "idle" => call[q] # "idle"
  BY <1>1, <1>4 DEF GateTypes, GateTypeOK, Goto
<1>8. UNCHANGED openingVars
  BY DEF ResendReserve, MarkPending, Enqueue, Release, ResendRelease,
     ClearPendingOfFailedCall, GatewayCrash
<1> QED  BY <1>2, <1>3, <1>5, <1>6, <1>7, <1>8
         DEF GateTypes, RedisTypeOK, GateTypeOK, InitTypeOK, openingVars, initVars

(* Every step of initTickets keeps the types.                              *)
LEMMA InitTicketsType ==
  ASSUME RedisTypeOK, InitTypeOK, NEW c \in InitCalls, InitTickets(c)
  PROVE  RedisTypeOK' /\ InitTypeOK'
<1> USE DEF RedisTypeOK, InitTypeOK, InitStates
<1>1. ASSUME NEW t \in Tickets, NEW n \in Counts, InitDel(c, t, n)
      PROVE  RedisTypeOK' /\ InitTypeOK'
  BY <1>1 DEF InitDel, DeleteKeys, InitBodies
<1>2. ASSUME ResendDel(c)
      PROVE  RedisTypeOK' /\ InitTypeOK'
  BY <1>2 DEF ResendDel, DeleteKeys, initVars
<1>3. ASSUME InitSet(c)
      PROVE  RedisTypeOK' /\ InitTypeOK'
  <2> DEFINE t == initBody[c].ticketId
             n == initBody[c].count
  <2>1. t \in Tickets /\ n \in Nat
    BY <1>3, InitAssumption DEF InitSet, Initialising, InitBodies
  <2>2. /\ \E state \in {"setAgain", "done", "failed"} : initCall' = [initCall EXCEPT ![c] = state]
        /\ initCall[c] # "idle"
        /\ UNCHANGED <<buyers, pending, initBody>>
    BY <1>3 DEF InitSet, Initialising
  <2>3. \/ UNCHANGED <<stock, capacity>>
        \/ /\ stock' = [stock EXCEPT ![t] = n]
           /\ capacity' = [capacity EXCEPT ![t] = n]
    BY <1>3 DEF InitSet, SetKey
  <2> HIDE DEF t, n
  <2> QED  BY <2>1, <2>2, <2>3
<1> QED  BY <1>1, <1>2, <1>3 DEF InitTickets

(* So does what a gateway adds to it.                                      *)
LEMMA InitStepType ==
  ASSUME GateTypes, NEW c \in InitCalls, InitStep(c)
  PROVE  GateTypes'
<1>1. faults' \in 0 .. MaxFaults /\ UNCHANGED callVars
  BY FaultType DEF GateTypes, InitStep, InitTickets, InitDel, ResendDel, InitSet
<1>2. RedisTypeOK' /\ InitTypeOK'
  BY InitTicketsType DEF GateTypes, GateTypeOK, InitStep
<1>3. offered' \in [Tickets -> Nat]
  <2> DEFINE t == initBody[c].ticketId
             n == initBody[c].count
  <2>1. offered \in [Tickets -> Nat]
    BY DEF GateTypes, GateTypeOK
  <2>2. CASE UNCHANGED offered
    BY <2>1, <2>2
  <2>3. CASE initCall'[c] \in {"done", "setAgain"} /\ offered' = [offered EXCEPT ![t] = @ + n]
    <3>1. initCall[c] # "idle"
      BY <2>3 DEF GateTypes, GateTypeOK, InitTypeOK, InitStep, InitTickets, InitDel, ResendDel,
         InitSet, Initialising
    <3>2. t \in Tickets /\ n \in Nat
      BY <3>1, InitAssumption DEF GateTypes, GateTypeOK, InitTypeOK, InitBodies
    <3>3. offered' = [offered EXCEPT ![t] = @ + n]
      BY <2>3
    <3> HIDE DEF t, n
    <3>4. offered[t] + n \in Nat
      BY <2>1, <3>2
    <3> QED  BY <2>1, <3>2, <3>3, <3>4
  <2> QED  BY <2>2, <2>3 DEF InitStep
<1> QED  BY <1>1, <1>2, <1>3 DEF GateTypes, GateTypeOK, callVars

(* A pending key that expires leaves everything else as it is.             *)
LEMMA ExpireType ==
  ASSUME GateTypes, Expire
  PROVE  GateTypes'
  BY FaultType DEF GateTypes, RedisTypeOK, GateTypeOK, InitTypeOK, Expire, PendingExpires, callVars,
     openingVars, initVars

(* Every step of the gateways keeps the types of Redis and of the          *)
(* gateways.                                                               *)
LEMMA GateNextType ==
  ASSUME GateTypes, GateNext
  PROVE  GateTypes'
  BY ReserveType, CallType, InitStepType, ExpireType DEF GateNext, RequestStep, LaterStep

(* A step of the gateways leaves the queue alone, or adds the job of an    *)
(* accepted request.                                                       *)
LEMMA GateQueue ==
  ASSUME TypeOK, GateNext
  PROVE  UNCHANGED jobs \/ \E r \in Requests :
           /\ Enqueue(r)
           /\ JobDataOf(r) \in OrderJobData
           /\ AddJob(JobDataOf(r)) \/ AddJobTwice(JobDataOf(r))
<1>1. CASE \E r \in Requests : Enqueue(r)
  BY <1>1 DEF Enqueue, TypeOK, GateTypeOK, JobDataOf, OrderJobData, Bodies, Requests
<1>2. CASE ~\E r \in Requests : Enqueue(r)
  BY <1>2 DEF GateNext, RequestStep, InitStep, Expire, Reserve, ResendReserve, MarkPending,
     Release, ResendRelease, ClearPendingOfFailedCall, GatewayCrash
<1> QED  BY <1>1, <1>2

-----------------------------------------------------------------------------
(* The steps of the workers *)

(* A step of the workers adds no job, and keeps the data of those there    *)
(* are.                                                                    *)
LEMMA WorkerQueue ==
  ASSUME TypeOK, WorkerNext
  PROVE  /\ jobs' \in Seq(JobType(OrderJobData))
         /\ DOMAIN jobs' = DOMAIN jobs
         /\ \A j \in DOMAIN jobs : jobs'[j].data = jobs[j].data
<1> USE DEF TypeOK
<1>1. ASSUME NEW w \in Workers, NEW i \in DOMAIN jobs, Take(w, i)
      PROVE  TakeJob(w, i)
  BY <1>1 DEF Take
<1>2. ASSUME NEW w \in Workers, ProcessStep(w)
      PROVE  /\ current[w] \in DOMAIN jobs
             /\ CompleteJob(w, current[w]) \/ FailJob(w, current[w]) \/ UNCHANGED jobs
  <2>1. step[w] # "idle"
    BY <1>2 DEF ProcessStep, FindExisting, SaveSelect, SaveInsert, Refind, ClearPendingOfOrder,
       ClearPendingOfDuplicate, ClearPending, PublishOrder, PublishDuplicate, Notify
  <2>2. Return(w) \/ Throw(w) \/ UNCHANGED jobs
    BY <1>2 DEF ProcessStep, FindExisting, SaveSelect, SaveInsert, Refind, ClearPendingOfOrder,
       ClearPendingOfDuplicate, ClearPending, PublishOrder, PublishDuplicate, Notify, Continue
  <2> QED  BY <2>1, <2>2 DEF WorkerTypeOK, Return, Throw
<1>3. ASSUME NEW w \in Workers, WorkerCrash(w)
      PROVE  UNCHANGED jobs
  BY <1>3 DEF WorkerCrash
<1>4. ASSUME NEW i \in DOMAIN jobs, StalledCheck(i)
      PROVE  RequeueStalled(i)
  BY <1>4 DEF StalledCheck
<1>5. \/ \E w \in Workers, i \in DOMAIN jobs :
           TakeJob(w, i) \/ CompleteJob(w, i) \/ FailJob(w, i)
      \/ \E i \in DOMAIN jobs : RequeueStalled(i)
      \/ UNCHANGED jobs
  BY <1>1, <1>2, <1>3, <1>4 DEF WorkerNext
<1>6. CASE \E i \in DOMAIN jobs : RequeueStalled(i)
  BY <1>6, RequeueKeeps
<1> QED  BY <1>5, <1>6, QueueKeeps

(* What a step of process() can change, whichever it is.                   *)
ProcessFrame(w) ==
  /\ \E next \in Steps :
       /\ step' = [step EXCEPT ![w] = next]
       /\ current' = IF next = "idle" THEN [current EXCEPT ![w] = 0] ELSE current
       /\ next \in {"clearDuplicate", "publishDuplicate"} =>
            \E row \in orders : SamePurchase(row, Data(w))
  /\ UNCHANGED created \/ \E b \in BOOLEAN : created' = [created EXCEPT ![w] = b]
  /\ UNCHANGED orders \/ orders' = orders \cup {RowOf(Data(w))}
  /\ published' \subseteq published \cup {Data(w).orderId} \cup {row.id : row \in orders}
  /\ UNCHANGED notified \/ \E n \in 1 .. 2 :
       notified' = [notified EXCEPT ![Data(w).orderId] = @ + n]
  /\ pending' \subseteq pending
  /\ UNCHANGED <<stock, buyers>>

(* What a step of process() changes: at most one row is added, and the     *)
(* step, the history and the pending keys change as ProcessFrame says.     *)
LEMMA ProcessStepFrame ==
  ASSUME WorkerTypeOK, DuplicateFound, NEW w \in Workers, ProcessStep(w)
  PROVE  ProcessFrame(w)
<1> USE DEF ProcessFrame, Steps, redisVars, outcomeVars, Continue, Return, Throw, GoIdle
<1>1. CASE FindExisting(w)
  BY <1>1 DEF FindExisting
<1>2. CASE SaveSelect(w)
  BY <1>2 DEF SaveSelect
<1>3. CASE SaveInsert(w)
  BY <1>3 DEF SaveInsert
<1>4. CASE Refind(w)
  BY <1>4 DEF Refind, ExistingOrders
<1>5. CASE ClearPendingOfOrder(w)
  BY <1>5 DEF ClearPendingOfOrder, ClearPending, DeletePendingOrderStatus
<1>6. CASE ClearPendingOfDuplicate(w)
  <2>1. \E row \in orders : SamePurchase(row, Data(w))
    BY <1>6 DEF ClearPendingOfDuplicate, ClearPending, DuplicateFound
  <2> QED  BY <1>6, <2>1 DEF ClearPendingOfDuplicate, ClearPending, DeletePendingOrderStatus
<1>7. CASE PublishOrder(w)
  BY <1>7 DEF PublishOrder, PublishStatusUpdated
<1>8. CASE PublishDuplicate(w)
  <2>1. PersistedOrder(Data(w)) \in orders
    BY <1>8 DEF PublishDuplicate, DuplicateFound, PersistedOrder
  <2> QED  BY <1>8, <2>1 DEF PublishDuplicate, PublishStatusUpdated
<1>9. CASE Notify(w)
  BY <1>9 DEF Notify
<1> QED  BY <1>1, <1>2, <1>3, <1>4, <1>5, <1>6, <1>7, <1>8, <1>9 DEF ProcessStep

(* The steps of the workers keep all types, and what a worker takes for a  *)
(* duplicate is one.                                                       *)
LEMMA WorkerTypeInv ==
  ASSUME TypeInv, WorkerStep
  PROVE  TypeInv'
<1> USE DEF TypeInv, TypeOK
<1>1. /\ jobs' \in Seq(JobType(OrderJobData))
      /\ DOMAIN jobs' = DOMAIN jobs
      /\ \A j \in DOMAIN jobs : jobs'[j].data = jobs[j].data
  BY WorkerQueue DEF WorkerStep
<1>2. faults' \in 0 .. MaxFaults
  BY FaultType DEF WorkerStep, WorkerNext, Take, ProcessStep, FindExisting,
     SaveSelect, SaveInsert, Refind, ClearPendingOfOrder, ClearPendingOfDuplicate, ClearPending,
     PublishOrder, PublishDuplicate, Notify, WorkerCrash, StalledCheck, Answered
<1>3. \A v \in Workers : step[v] # "idle" =>
        current[v] \in DOMAIN jobs /\ Data(v) \in OrderJobData /\ jobs'[current[v]].data = Data(v)
  <2>1. \A i \in DOMAIN jobs : jobs[i].data \in OrderJobData
    BY JobData
  <2> QED  BY <1>1, <2>1 DEF WorkerTypeOK, Data
<1>4. ASSUME NEW w \in Workers, NEW i \in DOMAIN jobs, Take(w, i)
      PROVE  WorkerTypeOK' /\ DuplicateFound' /\ RedisTypeOK'
  <2>1. WorkerTypeOK' /\ RedisTypeOK'
    BY <1>1, <1>4 DEF WorkerTypeOK, RedisTypeOK, Take, Steps, outcomeVars, redisVars
  <2>2. ASSUME NEW v \in Workers, step'[v] \in {"clearDuplicate", "publishDuplicate"}
        PROVE  \E row \in orders' : SamePurchase(row, Data(v))'
    <3>1. v # w /\ step[v] = step'[v] /\ current'[v] = current[v]
      BY <1>4, <2>2 DEF WorkerTypeOK, Take
    <3>2. jobs'[current[v]].data = jobs[current[v]].data
      BY <1>1, <2>2, <3>1 DEF WorkerTypeOK
    <3> QED  BY <1>4, <2>2, <3>1, <3>2 DEF DuplicateFound, Take, outcomeVars, Data, SamePurchase
  <2> QED  BY <2>1, <2>2 DEF DuplicateFound
<1>5. ASSUME NEW w \in Workers, ProcessStep(w)
      PROVE  WorkerTypeOK' /\ DuplicateFound' /\ RedisTypeOK'
  <2>1. ProcessFrame(w)
    BY <1>5, ProcessStepFrame
  <2>2. Data(w) \in OrderJobData
    BY <1>3, <1>5 DEF ProcessStep, FindExisting, SaveSelect, SaveInsert, Refind,
       ClearPendingOfOrder, ClearPendingOfDuplicate, ClearPending, PublishOrder,
       PublishDuplicate, Notify
  <2>3. /\ orders' \in SUBSET Rows /\ orders \subseteq orders'
        /\ published' \in SUBSET OrderIds
    BY <2>1, <2>2 DEF ProcessFrame, WorkerTypeOK, Rows, RowOf, OrderJobData
  <2>4. /\ notified' \in [OrderIds -> Nat]
        /\ created' \in [Workers -> BOOLEAN]
    <3>1. Data(w).orderId \in OrderIds
      BY <2>2 DEF OrderJobData
    <3>2. notified \in [OrderIds -> Nat] /\ created \in [Workers -> BOOLEAN]
      BY DEF WorkerTypeOK
    <3>3. ASSUME NEW n \in 1 .. 2, notified' = [notified EXCEPT ![Data(w).orderId] = @ + n]
          PROVE  notified' \in [OrderIds -> Nat]
      BY <3>1, <3>2, <3>3
    <3> QED  BY <2>1, <3>2, <3>3 DEF ProcessFrame
  <2>5. PICK next \in Steps :
          /\ step' = [step EXCEPT ![w] = next]
          /\ current' = IF next = "idle" THEN [current EXCEPT ![w] = 0] ELSE current
          /\ next \in {"clearDuplicate", "publishDuplicate"} =>
               \E row \in orders : SamePurchase(row, Data(w))
    BY <2>1 DEF ProcessFrame
  <2>6. /\ step' \in [Workers -> Steps]
        /\ current' \in [Workers -> Nat]
        /\ \A v \in Workers : step'[v] # "idle" => current'[v] = current[v] /\ step[v] # "idle"
    BY <1>5, <2>5 DEF WorkerTypeOK, ProcessStep, FindExisting, SaveSelect, SaveInsert, Refind,
       ClearPendingOfOrder, ClearPendingOfDuplicate, ClearPending, PublishOrder,
       PublishDuplicate, Notify
  <2>7. \A v \in Workers : step'[v] \in {"clearDuplicate", "publishDuplicate"} =>
          \E row \in orders : SamePurchase(row, Data(v))
    BY <2>5 DEF WorkerTypeOK, DuplicateFound
  <2>8. DuplicateFound'
    BY <1>3, <2>3, <2>6, <2>7 DEF DuplicateFound, SamePurchase, Data
  <2>9. RedisTypeOK'
    BY <2>1 DEF ProcessFrame, RedisTypeOK
  <2> QED  BY <1>1, <2>3, <2>4, <2>6, <2>8, <2>9 DEF WorkerTypeOK
<1>6. ASSUME NEW w \in Workers, WorkerCrash(w)
      PROVE  WorkerTypeOK' /\ DuplicateFound' /\ RedisTypeOK'
  BY <1>6 DEF WorkerCrash, WorkerTypeOK, RedisTypeOK, DuplicateFound, GoIdle, Steps,
     outcomeVars, redisVars, Data
<1>7. ASSUME NEW i \in DOMAIN jobs, StalledCheck(i)
      PROVE  WorkerTypeOK' /\ DuplicateFound' /\ RedisTypeOK'
  BY <1>1, <1>3, <1>7 DEF StalledCheck, WorkerTypeOK, RedisTypeOK, DuplicateFound, processVars,
     outcomeVars, redisVars, Data, SamePurchase
<1>8. GateTypeOK'
  BY DEF WorkerStep, GateTypeOK, InitTypeOK, callVars, openingVars, initVars
<1> QED  BY <1>1, <1>2, <1>4, <1>5, <1>6, <1>7, <1>8 DEF WorkerStep, WorkerNext

(* The steps of the gateways do as well.                                   *)
LEMMA GateTypeInv ==
  ASSUME TypeInv, GateStep
  PROVE  TypeInv'
<1> USE DEF TypeInv, TypeOK, GateStep
<1>1. GateTypes'
  BY GateNextType DEF GateTypes
<1>2. /\ jobs' \in Seq(JobType(OrderJobData))
      /\ DOMAIN jobs \subseteq DOMAIN jobs'
      /\ \A j \in DOMAIN jobs : jobs'[j].data = jobs[j].data
  BY GateQueue, AddKeeps
<1>3. WorkerTypeOK' /\ DuplicateFound'
  BY <1>2 DEF WorkerTypeOK, DuplicateFound, processVars, outcomeVars, Data, SamePurchase
<1> QED  BY <1>1, <1>2, <1>3 DEF GateTypes

(* A step of the flow, or one beside it that costs a fault at most.        *)
FlowStep ==
  \/ Next
  \/ /\ UNCHANGED <<redisVars, jobs, callVars, openingVars, processVars, outcomeVars>>
     /\ faults' \in 0 .. MaxFaults

LEMMA FlowSteps ==
  ASSUME TypeInv, [Next]_vars
  PROVE  FlowStep
  BY DEF FlowStep, vars, TypeInv, TypeOK

(* All of them keep the types.                                             *)
LEMMA StepTypeInv ==
  ASSUME TypeInv, FlowStep
  PROVE  TypeInv'
<1>1. CASE Next
  BY <1>1, GateTypeInv, WorkerTypeInv DEF Next
<1>2. CASE /\ UNCHANGED <<redisVars, jobs, callVars, openingVars, processVars, outcomeVars>>
           /\ faults' \in 0 .. MaxFaults
  BY <1>2 DEF TypeInv, TypeOK, DuplicateFound, RedisTypeOK, GateTypeOK, InitTypeOK,
     WorkerTypeOK, redisVars, callVars, openingVars, initVars, processVars, outcomeVars, Data
<1> QED  BY <1>1, <1>2 DEF FlowStep

(* No step takes a fault back.                                             *)
LEMMA FaultsMount ==
  ASSUME faults \in Nat, Next
  PROVE  faults' >= faults
<1>1. ASSUME NEW r \in Requests, RequestStep(r)
      PROVE  faults' >= faults
  BY <1>1 DEF RequestStep, Reserve, ResendReserve, MarkPending, Enqueue, Release, ResendRelease,
     ClearPendingOfFailedCall, GatewayCrash, BuyTicketReplies, Answered, Fault, NoFault
<1>2. ASSUME NEW c \in InitCalls, InitStep(c)
      PROVE  faults' >= faults
  BY <1>2 DEF InitStep, InitTickets, InitDel, ResendDel, InitSet, Fault, NoFault
<1>3. ASSUME NEW w \in Workers, ProcessStep(w)
      PROVE  faults' >= faults
  BY <1>3 DEF ProcessStep, FindExisting, SaveSelect, SaveInsert, Refind, ClearPendingOfOrder,
     ClearPendingOfDuplicate, ClearPending, PublishOrder, PublishDuplicate, Notify,
     Answered, Fault, NoFault
<1>4. ASSUME NEW w \in Workers, (\E i \in DOMAIN jobs : Take(w, i)) \/ WorkerCrash(w)
      PROVE  faults' >= faults
  BY <1>4 DEF Take, WorkerCrash, Fault, NoFault
<1>5. ASSUME NEW i \in DOMAIN jobs, StalledCheck(i)
      PROVE  faults' >= faults
  BY <1>5 DEF StalledCheck, Fault, NoFault
<1>6. Expire => faults' >= faults
  BY DEF Expire, PendingExpires, Fault
<1> QED  BY <1>1, <1>2, <1>3, <1>4, <1>5, <1>6 DEF Next, GateStep, GateNext, WorkerStep, WorkerNext

(* Every variable keeps its type: the Redis keys, the queue, the calls of  *)
(* the gateways and what the workers know and have written.                *)
THEOREM TypeCorrect == Spec => []TypeOK
<1>1. Init => TypeInv
  BY InitTypeInv
<1>2. TypeInv /\ [Next]_vars => TypeInv'
  BY FlowSteps, StepTypeInv
<1>3. TypeInv => TypeOK
  BY DEF TypeInv
<1> QED  BY <1>1, <1>2, <1>3, PTL DEF Spec
=============================================================================
