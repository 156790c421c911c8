-------------------------- MODULE FlashSale_proofs --------------------------
(***************************************************************************)
(* The safety of the sale, for every number of requests, workers, tickets, *)
(* attempts and faults; and that it is the sale of TicketSale.             *)
(***************************************************************************)
EXTENDS FlashSale_types, FiniteSetTheorems

(* Each property survives any number of any faults but those that can      *)
(* break it: "reinit", a ticket initialised while it is on sale;           *)
(* "resentStock", a stock key set again after its sale began;              *)
(* "resentRelease", a seat given back again when its customer holds        *)
(* another; "lostAdd", an order in the queue whose request failed.         *)

CountFaults == {"reinit", "resentStock"} \cap Faults = {}

SeatFaults == {"reinit", "resentRelease"} \cap Faults = {}

BackFaults == SeatFaults /\ "lostAdd" \notin Faults

SaleFaults == BackFaults /\ CountFaults

(* What each of the first two protects.  No SET runs twice without the     *)
(* fault "resentStock".                                                    *)
SetOnce == \A c \in InitCalls : initCall[c] # "setAgain"

CountInv == Openings /\ SetOnce /\ Conservation

SeatInv == Seats /\ Openings

BackInv == SeatInv /\ Backing

(* A request takes a seat of a ticket from its stock, or gives one back.   *)
Sells(t, e) ==
  /\ t \in Tickets /\ e \in Emails \ buyers[t]
  /\ stock[t] \in Nat \ {0}
  /\ stock' = [stock EXCEPT ![t] = stock[t] - 1]
  /\ buyers' = [buyers EXCEPT ![t] = @ \cup {e}]

Frees(t, e) ==
  /\ t \in Tickets /\ e \in Emails \cap buyers[t]
  /\ stock' = [stock EXCEPT ![t] = CurrentStock(t) + 1]
  /\ buyers' = [buyers EXCEPT ![t] = @ \ {e}]

(* That is what the two scripts do.                                        *)
LEMMA ScriptMoves ==
  ASSUME RedisTypeOK, NEW t \in Tickets, NEW e \in Emails
  PROVE  /\ BuyTicket(t, e, "reserved") => Sells(t, e)
         /\ \A reply \in {"duplicate", "soldOut"} :
              BuyTicket(t, e, reply) => UNCHANGED <<stock, buyers>>
         /\ ReleaseTicketReservation(t, e) => Frees(t, e) \/ UNCHANGED <<stock, buyers>>
<1>1. stock[t] \in Nat \/ stock[t] = NoKey
  BY DEF RedisTypeOK
<1>2. BuyTicket(t, e, "reserved") => Sells(t, e)
  BY <1>1 DEF BuyTicket, Sells, CurrentStock
<1>3. ReleaseTicketReservation(t, e) => Frees(t, e) \/ UNCHANGED <<stock, buyers>>
  BY DEF ReleaseTicketReservation, Frees
<1> QED  BY <1>2, <1>3 DEF BuyTicket

(* A step of buyTicket does one of the two to a ticket, or neither.        *)
Moves == \/ UNCHANGED <<stock, buyers>>
         \/ \E t \in Tickets, e \in Emails : Sells(t, e) \/ Frees(t, e)

LEMMA RequestMoves ==
  ASSUME TypeOK, NEW r \in Requests, RequestStep(r)
  PROVE  Moves /\ UNCHANGED openingVars
<1> USE DEF TypeOK, GateTypeOK
<1>1. ASSUME NEW t \in Tickets, NEW raw \in RawEmails, Reserve(r, t, raw)
      PROVE  Moves /\ UNCHANGED openingVars
  <2>1. Normalized[raw] \in Emails
    BY GatewayAssumption
  <2> QED  BY <1>1, <2>1, ScriptMoves DEF Reserve, BuyTicketReplies, Moves
<1>2. ASSUME LaterStep(r)
      PROVE  Moves /\ UNCHANGED openingVars
  <2>1. call[r] # "idle"
    BY <1>2 DEF LaterStep, ResendReserve, MarkPending, Enqueue, Release, ResendRelease,
       ClearPendingOfFailedCall, GatewayCrash
  <2>2. body[r].ticketId \in Tickets /\ body[r].customerEmail \in Emails
    BY <2>1 DEF Bodies
  <2>3. /\ \/ ReleaseTicketReservation(body[r].ticketId, body[r].customerEmail)
           \/ \E reply \in BuyTicketReplies :
                BuyTicket(body[r].ticketId, body[r].customerEmail, reply)
           \/ UNCHANGED <<stock, buyers>>
        /\ UNCHANGED openingVars
    BY <1>2 DEF LaterStep, ResendReserve, MarkPending, Enqueue, Release, ResendRelease,
       ClearPendingOfFailedCall, GatewayCrash, redisVars
  <2> QED  BY <2>2, <2>3, ScriptMoves DEF BuyTicketReplies, Moves
<1> QED  BY <1>1, <1>2 DEF RequestStep, LaterStep

(* The buyers of a ticket can be counted.                                  *)
LEMMA BuyersFinite ==
  ASSUME TypeOK, NEW t \in Tickets
  PROVE  IsFiniteSet(buyers[t]) /\ Cardinality(buyers[t]) \in Nat
  BY GatewayAssumption, FS_Subset, FS_CardinalityType DEF TypeOK, RedisTypeOK

(* Neither changes what there is of a ticket, left and held together.      *)
LEMMA MoveCounts ==
  ASSUME TypeOK, NoStockNoBuyers, NEW t \in Tickets, NEW e \in Emails, Sells(t, e) \/ Frees(t, e)
  PROVE  /\ stock[t] \in Nat /\ stock'[t] \in Nat
         /\ stock'[t] + Cardinality(buyers'[t]) = stock[t] + Cardinality(buyers[t])
         /\ \A u \in Tickets \ {t} : stock'[u] = stock[u] /\ buyers'[u] = buyers[u]
<1> USE DEF TypeOK, RedisTypeOK
<1> DEFINE n == Cardinality(buyers[t])
<1>1. IsFiniteSet(buyers[t]) /\ n \in Nat
  BY BuyersFinite
<1>2. stock[t] \in Nat
  BY DEF Sells, Frees, NoStockNoBuyers
<1>3. CASE Sells(t, e)
  <2>1. Cardinality(buyers[t] \cup {e}) = n + 1
    BY <1>1, <1>3, FS_AddElement DEF Sells
  <2>2. stock'[t] = stock[t] - 1 /\ stock[t] # 0 /\ buyers'[t] = buyers[t] \cup {e}
    BY <1>3 DEF Sells
  <2>3. \A u \in Tickets \ {t} : stock'[u] = stock[u] /\ buyers'[u] = buyers[u]
    BY <1>3 DEF Sells
  <2> HIDE DEF n
  <2> QED  BY <1>1, <1>2, <2>1, <2>2, <2>3 DEF n
<1>4. CASE Frees(t, e)
  <2>1. Cardinality(buyers[t] \ {e}) = n - 1
    <3>1. e \in buyers[t]
      BY <1>4 DEF Frees
    <3> QED  BY <1>1, <3>1, FS_RemoveElement
  <2>2. stock'[t] = stock[t] + 1 /\ buyers'[t] = buyers[t] \ {e}
    BY <1>2, <1>4, NoKeyAssumption DEF Frees, CurrentStock
  <2>3. \A u \in Tickets \ {t} : stock'[u] = stock[u] /\ buyers'[u] = buyers[u]
    BY <1>4 DEF Frees
  <2> HIDE DEF n
  <2> QED  BY <1>1, <1>2, <2>1, <2>2, <2>3 DEF n
<1> QED  BY <1>3, <1>4

(* So a request disturbs no initialisation, and no count.                  *)
LEMMA RequestKeepsCount ==
  ASSUME TypeOK, TypeOK', Openings, NEW r \in Requests, RequestStep(r)
  PROVE  Openings' /\ (Conservation => Conservation')
<1> USE NoKeyAssumption DEF TypeOK, RedisTypeOK
<1>1. Moves /\ UNCHANGED <<initCall, initBody, capacity>>
  BY RequestMoves DEF openingVars, initVars
<1>2. \A c \in InitCalls : initCall[c] = "set" => initBody[c].ticketId \in Tickets
  BY DEF GateTypeOK, InitTypeOK, InitBodies
<1>3. CASE UNCHANGED <<stock, buyers>>
  BY <1>1, <1>3 DEF Openings, NoStockNoBuyers, Initialising, Conservation
<1>4. ASSUME NEW t \in Tickets, NEW e \in Emails, Sells(t, e) \/ Frees(t, e)
      PROVE  Openings' /\ (Conservation => Conservation')
  <2>1. /\ stock[t] \in Nat /\ stock'[t] \in Nat
        /\ stock'[t] + Cardinality(buyers'[t]) = stock[t] + Cardinality(buyers[t])
        /\ \A u \in Tickets \ {t} : stock'[u] = stock[u] /\ buyers'[u] = buyers[u]
    BY <1>4, MoveCounts DEF Openings
  <2>2. Openings'
    BY <1>1, <1>2, <2>1 DEF Openings, NoStockNoBuyers, Initialising
  <2>3. ASSUME Conservation, NEW u \in Tickets, stock'[u] # NoKey
        PROVE  stock'[u] + Cardinality(buyers'[u]) = capacity'[u]
    BY <1>1, <2>1, <2>3 DEF Conservation
  <2> QED  BY <2>2, <2>3 DEF Conservation
<1> QED  BY <1>1, <1>3, <1>4 DEF Moves

(* A step of a request that is not sent again takes a seat for it, gives   *)
(* its seat back, or does neither ...                                      *)
TakesSeat(r) ==
  /\ ~Holding(r) /\ Holding(r)'
  /\ Sells(body'[r].ticketId, body'[r].customerEmail)

GivesSeatBack(r) ==
  /\ Holding(r) /\ ~Holding(r)'
  /\ Frees(body[r].ticketId, body[r].customerEmail)
  /\ UNCHANGED body

KeepsSeats(r) ==
  /\ Holding(r) <=> Holding(r)'
  /\ Holding(r) => UNCHANGED body
  /\ UNCHANGED <<stock, buyers>>

(* ... and leaves every other request, and every initialisation, alone.    *)
RequestFrame(r) ==
  /\ \A q \in Requests \ {r} : call'[q] = call[q] /\ body'[q] = body[q]
  /\ UNCHANGED openingVars
  /\ TakesSeat(r) \/ GivesSeatBack(r) \/ KeepsSeats(r)

(* Every step of buyTicket is of one of these three kinds: a script that   *)
(* is sent again finds the seat that it has reserved.                      *)
LEMMA RequestStepFrame ==
  ASSUME SeatFaults, TypeOK, Seats, NEW r \in Requests, RequestStep(r)
  PROVE  RequestFrame(r)
<1> USE DEF TypeOK, GateTypeOK, RequestFrame, Holding, Goto
<1>1. UNCHANGED openingVars
  BY RequestMoves
<1>2. ASSUME NEW t \in Tickets, NEW raw \in RawEmails, Reserve(r, t, raw)
      PROVE  RequestFrame(r)
  <2> DEFINE e == Normalized[raw]
  <2>1. body'[r].ticketId = t /\ body'[r].customerEmail = e /\ e \in Emails
    BY <1>2, GatewayAssumption DEF Reserve
  <2>2. \A q \in Requests \ {r} : call'[q] = call[q] /\ body'[q] = body[q]
    BY <1>2 DEF Reserve
  <2>3. call[r] = "idle"
    BY <1>2 DEF Reserve
  <2>4. CASE \E reply \in {"duplicate", "soldOut"} :
               BuyTicket(t, e, reply) /\ Goto(r, reply)
    BY <1>1, <2>2, <2>3, <2>4 DEF KeepsSeats, BuyTicket
  <2>5. CASE UNCHANGED <<stock, buyers>> /\ Goto(r, "failed")
    BY <1>1, <2>2, <2>3, <2>5 DEF KeepsSeats
  <2>6. CASE BuyTicket(t, e, "reserved") /\ (Goto(r, "mark") \/ Goto(r, "stranded"))
    <3>1. Sells(t, e)
      BY <2>1, <2>6, ScriptMoves
    <3> QED  BY <1>1, <2>1, <2>2, <2>3, <2>6, <3>1 DEF TakesSeat
  <2>7. \/ \E reply \in {"duplicate", "soldOut"} : BuyTicket(t, e, reply) /\ Goto(r, reply)
        \/ UNCHANGED <<stock, buyers>> /\ Goto(r, "failed")
        \/ BuyTicket(t, e, "reserved") /\ (Goto(r, "mark") \/ Goto(r, "stranded"))
    BY <1>2 DEF Reserve, BuyTicketReplies
  <2> QED  BY <2>4, <2>5, <2>6, <2>7
<1>3. CASE ResendReserve(r)
  <2>1. body[r].customerEmail \in buyers[body[r].ticketId]
    BY <1>3 DEF ResendReserve, Seats
  <2>2. UNCHANGED <<stock, buyers, body>> /\ Goto(r, "selfRefused")
    BY <1>3, <2>1 DEF ResendReserve, BuyTicket
  <2> QED  BY <1>1, <1>3, <2>2 DEF ResendReserve, KeepsSeats
<1>4. CASE MarkPending(r)
  BY <1>1, <1>4 DEF MarkPending, KeepsSeats
<1>5. CASE Enqueue(r)
  BY <1>1, <1>5 DEF Enqueue, KeepsSeats, redisVars
<1>6. CASE Release(r)
  <2> DEFINE t == body[r].ticketId
             e == body[r].customerEmail
  <2>1. t \in Tickets /\ e \in Emails /\ e \in buyers[t]
    BY <1>6 DEF Release, Seats, Bodies
  <2>2. ReleaseTicketReservation(t, e) => Frees(t, e)
    BY <2>1 DEF ReleaseTicketReservation, Frees
  <2> QED  BY <1>1, <1>6, <2>2 DEF Release, KeepsSeats, GivesSeatBack
<1>7. CASE ResendRelease(r)
  BY <1>7 DEF ResendRelease, Fault, SeatFaults
<1>8. CASE ClearPendingOfFailedCall(r)
  BY <1>1, <1>8 DEF ClearPendingOfFailedCall, KeepsSeats
<1>9. CASE GatewayCrash(r)
  BY <1>1, <1>9 DEF GatewayCrash, KeepsSeats, redisVars
<1> QED  BY <1>2, <1>3, <1>4, <1>5, <1>6, <1>7, <1>8, <1>9 DEF RequestStep

(* Of a request's step: seats stay somebody's.                             *)
LEMMA RequestKeepsSeats ==
  ASSUME TypeOK, Seats, NEW r \in Requests, RequestFrame(r),
         Holding(r)' => body'[r] \in Bodies
  PROVE  Seats'
<1>0. \A q \in Requests \ {r} : (Holding(q) <=> Holding(q)') /\ body'[q] = body[q]
  BY DEF RequestFrame, Holding
<1>1. CASE TakesSeat(r)
  <2> DEFINE t == body'[r].ticketId
             e == body'[r].customerEmail
  <2>1. /\ t \in Tickets /\ e \in Emails
        /\ body'[r] = [ticketId |-> t, customerEmail |-> e]
    BY <1>1 DEF TakesSeat, Bodies
  <2>2. e \notin buyers[t] /\ buyers' = [buyers EXCEPT ![t] = @ \cup {e}]
    BY <1>1 DEF TakesSeat, Sells
  <2>3. \A q \in Requests : Holding(q)' => body'[q].customerEmail \in buyers'[body'[q].ticketId]
    BY <1>0, <2>1, <2>2 DEF Seats, TypeOK, RedisTypeOK
  <2>4. \A q \in Requests \ {r} : Holding(q)' => body'[q] # body'[r]
    BY <1>0, <2>1, <2>2 DEF Seats
  <2>5. \A q1, q2 \in Requests :
          (Holding(q1)' /\ Holding(q2)' /\ body'[q1] = body'[q2]) => q1 = q2
    BY <1>0, <2>4 DEF Seats
  <2>6. ASSUME NEW u \in Tickets, NEW f \in buyers'[u]
        PROVE  \E q \in Requests :
                 Holding(q)' /\ body'[q] = [ticketId |-> u, customerEmail |-> f]
    <3>1. CASE u = t /\ f = e
      BY <1>1, <2>1, <3>1 DEF TakesSeat
    <3>2. CASE ~(u = t /\ f = e)
      <4>1. f \in buyers[u]
        BY <2>2, <2>6, <3>2 DEF TypeOK, RedisTypeOK
      <4>2. PICK q \in Requests :
              Holding(q) /\ body[q] = [ticketId |-> u, customerEmail |-> f]
        BY <4>1 DEF Seats
      <4>3. q # r
        BY <1>1, <4>2 DEF TakesSeat
      <4> QED  BY <1>0, <4>2, <4>3
    <3> QED  BY <3>1, <3>2
  <2> QED  BY <2>3, <2>5, <2>6 DEF Seats
<1>2. CASE GivesSeatBack(r)
  <2> DEFINE b == body[r]
             u == b.ticketId
             f == b.customerEmail
  <2>1. u \in Tickets /\ f \in Emails /\ b = [ticketId |-> u, customerEmail |-> f]
    BY <1>2 DEF GivesSeatBack, TypeOK, GateTypeOK, Holding, Bodies
  <2>2. buyers' = [buyers EXCEPT ![u] = @ \ {f}]
    BY <1>2 DEF GivesSeatBack, Frees
  <2>3. \A q \in Requests : Holding(q)' => Holding(q) /\ q # r /\ body'[q] = body[q]
    BY <1>0, <1>2 DEF GivesSeatBack
  <2>4. ASSUME NEW q \in Requests, Holding(q)'
        PROVE  body'[q].customerEmail \in buyers'[body'[q].ticketId]
    <3>1. /\ body[q] \in Bodies /\ body[q] # body[r]
          /\ body[q].customerEmail \in buyers[body[q].ticketId]
      BY <1>2, <2>3, <2>4 DEF Seats, GivesSeatBack, TypeOK, GateTypeOK, Holding
    <3>2. body[q].ticketId # u \/ body[q].customerEmail # f
      BY <2>1, <3>1 DEF Bodies
    <3> QED  BY <2>2, <2>3, <2>4, <3>1, <3>2 DEF Bodies, TypeOK, RedisTypeOK
  <2>5. \A q1, q2 \in Requests :
          (Holding(q1)' /\ Holding(q2)' /\ body'[q1] = body'[q2]) => q1 = q2
    BY <2>3 DEF Seats
  <2>6. ASSUME NEW v \in Tickets, NEW g \in buyers'[v]
        PROVE  \E q \in Requests :
                 Holding(q)' /\ body'[q] = [ticketId |-> v, customerEmail |-> g]
    <3>1. g \in buyers[v] /\ ~(v = u /\ g = f)
      BY <2>1, <2>2, <2>6 DEF TypeOK, RedisTypeOK
    <3>2. PICK q \in Requests :
            Holding(q) /\ body[q] = [ticketId |-> v, customerEmail |-> g]
      BY <3>1 DEF Seats
    <3>3. q # r
      BY <3>1, <3>2
    <3> QED  BY <1>0, <3>2, <3>3
  <2> QED  BY <2>4, <2>5, <2>6 DEF Seats
<1>3. CASE KeepsSeats(r)
  <2>1. \A q \in Requests : (Holding(q) <=> Holding(q)') /\ (Holding(q) => body'[q] = body[q])
    BY <1>0, <1>3 DEF KeepsSeats
  <2>2. UNCHANGED buyers
    BY <1>3 DEF KeepsSeats
  <2> QED  BY <2>1, <2>2 DEF Seats
<1> QED  BY <1>1, <1>2, <1>3 DEF RequestFrame

(* An accepted request is done, so what it backs stays backed; and the     *)
(* only job a request adds is its own, when it is accepted.                *)
LEMMA RequestKeepsBacking ==
  ASSUME BackFaults, TypeOK, Seats, Backing, NEW r \in Requests, RequestStep(r),
         UNCHANGED orders
  PROVE  Backing'
<1>1. RequestFrame(r)
  BY RequestStepFrame DEF BackFaults
<1>2. call[r] # "accepted"
  BY DEF RequestStep, Reserve, ResendReserve, MarkPending, Enqueue, Release, ResendRelease,
     ClearPendingOfFailedCall, GatewayCrash
<1>3. ASSUME NEW data \in OrderJobData, Backed(data)
      PROVE  Backed(data)'
  <2>1. data.orderId \in Requests \ {r}
    BY <1>2, <1>3 DEF Backed, OrderJobData, Requests
  <2> QED  BY <1>1, <1>3, <2>1 DEF Backed, JobDataOf, RequestFrame
<1>4. \A i \in DOMAIN jobs : jobs[i].data \in OrderJobData
  BY JobData DEF TypeOK
<1>5. CASE Enqueue(r)
  <2>1. /\ JobDataOf(r) \in OrderJobData
        /\ JobDataOf(r).orderId = r
    BY <1>5 DEF Enqueue, TypeOK, GateTypeOK, JobDataOf, OrderJobData, Bodies, Requests
  <2>2. UNCHANGED jobs \/ ((AddJob(JobDataOf(r)) \/ AddJobTwice(JobDataOf(r))) /\ Goto(r, "accepted"))
    BY <1>5 DEF Enqueue, BackFaults, Fault
  <2>3. CASE UNCHANGED jobs
    BY <1>3, <1>4, <2>3 DEF Backing
  <2>4. CASE (AddJob(JobDataOf(r)) \/ AddJobTwice(JobDataOf(r))) /\ Goto(r, "accepted")
    <3>1. /\ DOMAIN jobs \subseteq DOMAIN jobs'
          /\ \A j \in DOMAIN jobs : jobs'[j].data = jobs[j].data
          /\ \A j \in DOMAIN jobs' \ DOMAIN jobs : jobs'[j].data = JobDataOf(r)
      BY <2>1, <2>4, AddKeeps DEF TypeOK
    <3>2. Backed(JobDataOf(r))'
      BY <1>5, <2>1, <2>4 DEF Backed, Goto, Enqueue, TypeOK, GateTypeOK, JobDataOf, Requests
    <3>3. UNCHANGED body
      BY <1>5 DEF Enqueue
    <3>4. JobDataOf(r)' = JobDataOf(r)
      BY <3>3 DEF JobDataOf
    <3>5. (\A j \in DOMAIN jobs : Backed(jobs[j].data))'
      <4> SUFFICES ASSUME NEW j \in DOMAIN jobs'
                   PROVE  Backed(jobs[j].data)'
        OBVIOUS
      <4>1. CASE j \in DOMAIN jobs
        <5>1. Backed(jobs[j].data) /\ jobs[j].data \in OrderJobData
          BY <1>4, <4>1 DEF Backing
        <5>2. PICK data \in OrderJobData : data = jobs[j].data
          BY <5>1
        <5>3. Backed(data)'
          BY <1>3, <5>1, <5>2
        <5> QED  BY <3>1, <4>1, <5>2, <5>3 DEF Backed
      <4>2. CASE j \notin DOMAIN jobs
        BY <3>1, <3>2, <3>4, <4>2 DEF Backed
      <4> QED  BY <4>1, <4>2
    <3>6. (\A row \in orders : \E data \in OrderJobData : Backed(data) /\ row = RowOf(data))'
      BY <1>3 DEF Backing, RowOf
    <3> QED  BY <3>5, <3>6 DEF Backing
  <2> QED  BY <2>2, <2>3, <2>4
<1>6. CASE ~Enqueue(r)
  <2>1. UNCHANGED jobs
    BY <1>6 DEF RequestStep, Reserve, ResendReserve, MarkPending, Release, ResendRelease,
       ClearPendingOfFailedCall, GatewayCrash
  <2> QED  BY <1>3, <1>4, <2>1 DEF Backing, RowOf
<1> QED  BY <1>5, <1>6

(* initTickets, called for tickets that are not on sale, disturbs no sale. *)
LEMMA InitStepKeeps ==
  ASSUME "reinit" \notin Faults, TypeOK, Openings, NEW c \in InitCalls, InitStep(c)
  PROVE  /\ Openings'
         /\ Seats => Seats'
         /\ CountFaults /\ SetOnce /\ Conservation => SetOnce' /\ Conservation'
<1>1. UNCHANGED <<body, call, jobs>>
  BY DEF InitStep, callVars
<1>2. UNCHANGED buyers => (Seats => Seats')
  BY <1>1 DEF Seats, Holding
<1>3. ASSUME NEW t \in Tickets, NEW n \in Counts, InitDel(c, t, n)
      PROVE  /\ UNCHANGED <<stock, buyers, capacity>> /\ (SetOnce => SetOnce')
             /\ Openings'
  <2>1. Unsold(t) /\ initCall[c] = "idle"
    BY <1>3 DEF InitDel, Fault
  <2>2. stock[t] = NoKey /\ buyers[t] = {}
    BY <2>1 DEF Unsold, Openings, NoStockNoBuyers
  <2>3. UNCHANGED <<stock, buyers, capacity>>
    BY <1>3, <2>2 DEF InitDel, DeleteKeys, TypeOK, RedisTypeOK
  <2>4. /\ initCall' = [initCall EXCEPT ![c] = "set"] /\ initBody'[c].ticketId = t
        /\ \A d \in InitCalls \ {c} : initBody'[d] = initBody[d]
    BY <1>3 DEF InitDel, TypeOK, GateTypeOK, InitTypeOK
  <2>5. Openings'
    BY <2>1, <2>2, <2>3, <2>4 DEF Openings, NoStockNoBuyers, Unsold, Initialising, TypeOK,
       GateTypeOK, InitTypeOK
  <2>6. SetOnce => SetOnce'
    BY <2>4 DEF SetOnce, TypeOK, GateTypeOK, InitTypeOK
  <2> QED  BY <2>3, <2>5, <2>6
<1>4. ASSUME ResendDel(c)
      PROVE  UNCHANGED <<stock, buyers, initVars>>
  <2> DEFINE t == initBody[c].ticketId
  <2>1. stock[t] = NoKey /\ t \in Tickets
    BY <1>4 DEF ResendDel, Openings, TypeOK, GateTypeOK, InitTypeOK, InitBodies
  <2>2. buyers[t] = {}
    BY <2>1 DEF Openings, NoStockNoBuyers
  <2> QED  BY <1>4, <2>1, <2>2 DEF ResendDel, DeleteKeys, TypeOK, RedisTypeOK
<1>5. ASSUME InitSet(c)
      PROVE  /\ UNCHANGED buyers
             /\ Openings'
             /\ CountFaults /\ SetOnce /\ Conservation => SetOnce' /\ Conservation'
  <2> DEFINE t == initBody[c].ticketId
             n == initBody[c].count
  <2>1. t \in Tickets /\ n \in Nat
    BY <1>5, InitAssumption DEF InitSet, Initialising, TypeOK, GateTypeOK, InitTypeOK, InitBodies
  <2>2. /\ UNCHANGED <<buyers, initBody>>
        /\ c \in Initialising /\ Initialising' \subseteq Initialising
        /\ \A d \in InitCalls : initCall'[d] = "set" => d # c /\ initCall[d] = "set"
    BY <1>5 DEF InitSet, Initialising, TypeOK, GateTypeOK, InitTypeOK
  <2>3. \/ UNCHANGED <<stock, capacity>>
        \/ /\ stock' = [stock EXCEPT ![t] = n]
           /\ capacity' = [capacity EXCEPT ![t] = n]
    BY <1>5 DEF InitSet, SetKey
  <2>4. \A d \in InitCalls : initCall'[d] = "set" =>
           initBody[d].ticketId # t /\ initBody[d].ticketId \in Tickets
    BY <2>2 DEF Openings, Initialising, TypeOK, GateTypeOK, InitTypeOK, InitBodies
  <2>5. n # NoKey
    BY <2>1, NoKeyAssumption
  <2> HIDE DEF n, t
  <2>6. Openings'
    <3>1. NoStockNoBuyers'
      BY <2>1, <2>2, <2>3, <2>5 DEF Openings, NoStockNoBuyers, TypeOK, RedisTypeOK
    <3>2. \A d \in InitCalls : initCall'[d] = "set" => stock'[initBody'[d].ticketId] = NoKey
      BY <2>1, <2>2, <2>3, <2>4 DEF Openings, TypeOK, RedisTypeOK
    <3> QED  BY <2>2, <3>1, <3>2 DEF Openings
  <2>7. ASSUME CountFaults, SetOnce, Conservation
        PROVE  SetOnce' /\ Conservation'
    <3>1. buyers[t] = {}
      BY <2>1, <2>2, <2>7 DEF SetOnce, Openings, NoStockNoBuyers, Initialising, t
    <3>2. n + Cardinality({}) = n
      BY <2>1, FS_EmptySet
    <3>3. Conservation'
      BY <2>1, <2>2, <2>3, <2>7, <3>1, <3>2 DEF Conservation, TypeOK, RedisTypeOK, GateTypeOK,
         InitTypeOK
    <3>4. SetOnce'
      BY <1>5, <2>7 DEF InitSet, SetOnce, CountFaults, Fault, TypeOK, GateTypeOK, InitTypeOK
    <3> QED  BY <3>3, <3>4
  <2> QED  BY <2>2, <2>6, <2>7
<1>6. ASSUME UNCHANGED <<stock, buyers, capacity>>
      PROVE  Conservation => Conservation'
  BY <1>6 DEF Conservation
<1>7. UNCHANGED <<stock, buyers, initVars>> => Openings' /\ (SetOnce => SetOnce')
  BY DEF Openings, NoStockNoBuyers, Initialising, SetOnce, initVars
<1> QED  BY <1>2, <1>3, <1>4, <1>5, <1>6, <1>7 DEF InitStep, InitTickets, initVars

(* No step of the gateways touches a seat that is another's, ...           *)
LEMMA GateKeepsSeats ==
  ASSUME SeatFaults, TypeOK, TypeOK', SeatInv, GateNext
  PROVE  SeatInv'
<1> USE DEF SeatInv
<1>1. ASSUME NEW r \in Requests, RequestStep(r)
      PROVE  SeatInv'
  <2>1. RequestFrame(r)
    BY <1>1, RequestStepFrame
  <2>2. Holding(r)' => body'[r] \in Bodies
    BY DEF TypeOK, GateTypeOK, Holding
  <2> QED  BY <1>1, <2>1, <2>2, RequestKeepsSeats, RequestKeepsCount
<1>2. ASSUME Expire
      PROVE  SeatInv'
  BY <1>2 DEF Expire, PendingExpires, Seats, Openings, NoStockNoBuyers, Initialising, Holding,
     callVars, openingVars, initVars
<1> QED  BY <1>1, <1>2, InitStepKeeps DEF GateNext, SeatFaults

(* ... or the count.                                                       *)
LEMMA GateKeepsCount ==
  ASSUME CountFaults, TypeOK, TypeOK', CountInv, GateNext
  PROVE  CountInv'
<1> USE DEF CountInv
<1>1. ASSUME NEW r \in Requests, RequestStep(r)
      PROVE  CountInv'
  <2>1. UNCHANGED initCall
    BY <1>1, RequestMoves DEF openingVars, initVars
  <2> QED  BY <1>1, <2>1, RequestKeepsCount DEF SetOnce
<1>2. ASSUME Expire
      PROVE  CountInv'
  BY <1>2 DEF Expire, PendingExpires, Openings, NoStockNoBuyers, Initialising, Conservation,
     SetOnce, openingVars, initVars
<1> QED  BY <1>1, <1>2, InitStepKeeps DEF GateNext, CountFaults

(* None takes back what a job or an order rests on.                        *)
LEMMA GateKeepsBacking ==
  ASSUME BackFaults, TypeOK, Seats, Backing, GateStep
  PROVE  Backing'
<1>1. UNCHANGED orders
  BY DEF GateStep, outcomeVars
<1>2. ASSUME \/ \E c \in InitCalls : InitStep(c)
             \/ Expire
      PROVE  Backing'
  <2>1. UNCHANGED <<body, call, jobs>>
    BY <1>2 DEF InitStep, Expire, callVars
  <2> QED  BY <1>1, <2>1 DEF Backing, Backed, JobDataOf
<1> QED  BY <1>1, <1>2, RequestKeepsBacking DEF GateStep, GateNext

(* A worker turns a job into a row, and touches nobody's seat.             *)
LEMMA WorkerRows ==
  ASSUME TypeInv, WorkerNext
  PROVE  /\ UNCHANGED <<stock, buyers>>
         /\ UNCHANGED orders \/ \E i \in DOMAIN jobs : orders' = orders \cup {RowOf(jobs[i].data)}
<1>1. ASSUME NEW w \in Workers, ProcessStep(w)
      PROVE  /\ UNCHANGED <<stock, buyers>>
             /\ \/ UNCHANGED orders
                \/ \E i \in DOMAIN jobs : orders' = orders \cup {RowOf(jobs[i].data)}
  <2>1. ProcessFrame(w)
    BY <1>1, ProcessStepFrame DEF TypeInv, TypeOK
  <2>2. current[w] \in DOMAIN jobs
    BY <1>1 DEF TypeInv, TypeOK, WorkerTypeOK, ProcessStep, FindExisting, SaveSelect, SaveInsert,
       Refind, ClearPendingOfOrder, ClearPendingOfDuplicate, ClearPending, PublishOrder,
       PublishDuplicate, Notify
  <2> QED  BY <2>1, <2>2 DEF ProcessFrame, Data
<1> QED  BY <1>1 DEF WorkerNext, Take, WorkerCrash, StalledCheck, redisVars, outcomeVars

(* No step of the workers touches a seat, or an order that is backed.      *)
LEMMA WorkerKeepsSale ==
  ASSUME TypeInv, WorkerStep
  PROVE  /\ SeatInv => SeatInv'
         /\ CountInv => CountInv'
         /\ Backing => Backing'
<1>1. /\ UNCHANGED <<stock, buyers, call, body, initCall, initBody, capacity>>
      /\ DOMAIN jobs' = DOMAIN jobs
      /\ \A j \in DOMAIN jobs : jobs'[j].data = jobs[j].data
  BY WorkerRows, WorkerQueue DEF WorkerStep, callVars, openingVars, initVars, TypeInv
<1>2. Openings => Openings'
  BY <1>1 DEF Openings, NoStockNoBuyers, Initialising
<1>3. Seats => Seats'
  BY <1>1 DEF Seats, Holding
<1>4. SetOnce /\ Conservation => SetOnce' /\ Conservation'
  BY <1>1 DEF SetOnce, Conservation
<1>5. \A data : Backed(data) => Backed(data)'
  BY <1>1 DEF Backed, JobDataOf
<1>6. ASSUME Backing
      PROVE  (\A i \in DOMAIN jobs : Backed(jobs[i].data))'
  BY <1>1, <1>6 DEF Backing, Backed, JobDataOf
<1>7. ASSUME Backing
      PROVE  (\A row \in orders : \E data \in OrderJobData : Backed(data) /\ row = RowOf(data))'
  <2>1. UNCHANGED orders \/ \E i \in DOMAIN jobs : orders' = orders \cup {RowOf(jobs[i].data)}
    BY WorkerRows DEF WorkerStep
  <2>2. \A i \in DOMAIN jobs : jobs[i].data \in OrderJobData
    BY JobData DEF TypeInv, TypeOK
  <2> QED  BY <1>5, <1>7, <2>1, <2>2 DEF Backing, RowOf
<1> QED  BY <1>2, <1>3, <1>4, <1>6, <1>7 DEF SeatInv, CountInv, Backing

(* Before the first ticket is initialised the invariants hold.             *)
LEMMA InitSale == Init => BackInv /\ CountInv
  BY DEF Init, GateInit, NoInitCalls, RedisInit, WorkerInit, BackInv, SeatInv, CountInv, Seats,
     Openings, NoStockNoBuyers, Initialising, SetOnce, Conservation, Backing, Holding

(* No step of the flow breaks them: not what they say of the count, ...    *)
LEMMA StepCount ==
  ASSUME CountFaults, TypeInv, CountInv, FlowStep
  PROVE  CountInv'
<1>1. CASE Next
  BY <1>1, GateTypeInv, GateKeepsCount, WorkerKeepsSale DEF Next, GateStep, TypeInv
<1>2. CASE UNCHANGED <<redisVars, jobs, callVars, openingVars, processVars, outcomeVars>>
  BY <1>2 DEF CountInv, Openings, NoStockNoBuyers, Initialising, SetOnce, Conservation,
     redisVars, openingVars, initVars
<1> QED  BY <1>1, <1>2 DEF FlowStep

(* ... nor of the seats of customers, jobs and orders.                     *)
LEMMA StepBacking ==
  ASSUME BackFaults, TypeInv, BackInv, FlowStep
  PROVE  BackInv'
<1> USE DEF BackInv
<1>1. CASE GateStep
  <2>1. SeatInv'
    BY <1>1, GateTypeInv, GateKeepsSeats DEF GateStep, TypeInv, BackFaults
  <2>2. Backing'
    BY <1>1, GateKeepsBacking DEF TypeInv, SeatInv
  <2> QED  BY <2>1, <2>2
<1>2. CASE WorkerStep
  BY <1>2, WorkerKeepsSale
<1>3. CASE UNCHANGED <<redisVars, jobs, callVars, openingVars, processVars, outcomeVars>>
  BY <1>3 DEF SeatInv, Seats, Holding, Openings, NoStockNoBuyers, Initialising, Backing, Backed,
     JobDataOf, redisVars, callVars, openingVars, initVars, outcomeVars
<1> QED  BY <1>1, <1>2, <1>3 DEF FlowStep, Next

(* The inductive invariant of the count, which needs to know nothing of    *)
(* who holds the seats.                                                    *)
THEOREM CountInvariant ==
  ASSUME CountFaults
  PROVE  Spec => [](TypeInv /\ CountInv)
<1>1. Init => TypeInv /\ CountInv
  BY InitTypeInv, InitSale
<1>2. TypeInv /\ CountInv /\ [Next]_vars => (TypeInv /\ CountInv)'
  BY FlowSteps, StepTypeInv, StepCount
<1> QED  BY <1>1, <1>2, PTL DEF Spec

(* The inductive invariant of the seats, which needs to know nothing of    *)
(* how many there are.                                                     *)
THEOREM BackInvariant ==
  ASSUME BackFaults
  PROVE  Spec => [](TypeInv /\ BackInv)
<1>1. Init => TypeInv /\ BackInv
  BY InitTypeInv, InitSale
<1>2. TypeInv /\ BackInv /\ [Next]_vars => (TypeInv /\ BackInv)'
  BY FlowSteps, StepTypeInv, StepBacking
<1> QED  BY <1>1, <1>2, PTL DEF Spec

(* Together they are the inductive invariant of the sale.                  *)
THEOREM SaleInvariant ==
  ASSUME SaleFaults
  PROVE  Spec => []SaleInv
<1>1. BackInv /\ CountInv => SaleInv
  BY DEF BackInv, SeatInv, CountInv, SaleInv
<1>2. BackFaults /\ CountFaults
  BY DEF SaleFaults
<1> QED  BY <1>1, <1>2, BackInvariant, CountInvariant, PTL

-----------------------------------------------------------------------------
(* What follows from the inductive invariants                              *)

(* No seat appears or vanishes, however the calls of all gateways and the  *)
(* faults they meet interleave.                                            *)
THEOREM StockConserved ==
  ASSUME CountFaults
  PROVE  Spec => []Conservation
<1>1. CountInv => Conservation
  BY DEF CountInv
<1> QED  BY <1>1, CountInvariant, PTL

(* A row, and a job, is that of a request that holds its seat.             *)
LEMMA BackedHolds ==
  ASSUME TypeInv, BackInv, NEW data \in OrderJobData, Backed(data)
  PROVE  /\ data.orderId \in Requests
         /\ Holding(data.orderId)
         /\ body[data.orderId] = [ticketId |-> data.ticketId, customerEmail |-> data.customerEmail]
         /\ data.customerEmail \in buyers[data.ticketId]
<1>1. data.orderId \in Requests /\ Holding(data.orderId)
  BY DEF OrderJobData, Requests, Backed, Holding
<1>2. body[data.orderId] \in Bodies
  BY <1>1 DEF TypeInv, TypeOK, GateTypeOK, Holding
<1>3. /\ body[data.orderId].ticketId = data.ticketId
      /\ body[data.orderId].customerEmail = data.customerEmail
  BY DEF Backed, JobDataOf
<1> QED  BY <1>1, <1>2, <1>3 DEF Bodies, BackInv, SeatInv, Seats

(* An order is that of an accepted request, whose customer is a buyer.     *)
LEMMA RowBacked ==
  ASSUME TypeInv, BackInv, NEW row \in orders
  PROVE  /\ row.id \in Requests
         /\ call[row.id] = "accepted"
         /\ body[row.id] = [ticketId |-> row.ticketId, customerEmail |-> row.customerEmail]
         /\ row.customerEmail \in buyers[row.ticketId]
<1>1. PICK data \in OrderJobData : Backed(data) /\ row = RowOf(data)
  BY DEF BackInv, Backing
<1>2. /\ row.id = data.orderId
      /\ row.ticketId = data.ticketId
      /\ row.customerEmail = data.customerEmail
  BY <1>1 DEF RowOf
<1> QED  BY <1>1, <1>2, BackedHolds DEF Backed

(* Two orders of one customer for one ticket are the same order.           *)
LEMMA OneRowPerPurchase ==
  ASSUME TypeInv, BackInv, NEW row1 \in orders, NEW row2 \in orders,
         row1.ticketId = row2.ticketId, row1.customerEmail = row2.customerEmail
  PROVE  row1 = row2
<1>1. row1 \in Rows /\ row2 \in Rows
  BY DEF TypeInv, TypeOK, WorkerTypeOK
<1>2. /\ row1.id \in Requests
      /\ call[row1.id] = "accepted"
      /\ body[row1.id] = [ticketId |-> row1.ticketId, customerEmail |-> row1.customerEmail]
  BY RowBacked
<1>3. /\ row2.id \in Requests
      /\ call[row2.id] = "accepted"
      /\ body[row2.id] = [ticketId |-> row2.ticketId, customerEmail |-> row2.customerEmail]
  BY RowBacked
<1>4. Holding(row1.id) /\ Holding(row2.id) /\ body[row1.id] = body[row2.id]
  BY <1>2, <1>3 DEF Holding
<1>5. row1.id = row2.id
  BY <1>2, <1>3, <1>4 DEF BackInv, SeatInv, Seats
<1> QED  BY <1>1, <1>5 DEF Rows

(* What the invariant says of the orders.                                  *)
LEMMA SeatsBackOrders ==
  ASSUME TypeInv, BackInv
  PROVE  OrdersBackedBySeats
<1>1. \A i \in DOMAIN jobs : jobs[i].data \in OrderJobData
  BY JobData DEF TypeInv, TypeOK
<1>2. \A i \in DOMAIN jobs : Backed(jobs[i].data)
  BY DEF BackInv, Backing
<1> QED  BY <1>1, <1>2, BackedHolds, RowBacked DEF OrdersBackedBySeats

(* Every order, and every job that may become one, has its seat reserved.  *)
THEOREM EveryOrderBacked ==
  ASSUME BackFaults
  PROVE  Spec => []OrdersBackedBySeats
<1>1. TypeInv /\ BackInv => OrdersBackedBySeats
  BY SeatsBackOrders
<1> QED  BY <1>1, BackInvariant, PTL

(* A ticket never has more orders than seats.                              *)
THEOREM NeverOversold ==
  ASSUME SaleFaults
  PROVE  Spec => []NoOversell
<1>1. ASSUME TypeInv, BackInv, CountInv, NEW t \in Tickets
      PROVE  Cardinality(SoldSeats(t)) <= capacity[t]
  <2> DEFINE customer == [row \in SoldSeats(t) |-> row.customerEmail]
  <2>1. customer \in Injection(SoldSeats(t), buyers[t])
    <3>1. \A row \in SoldSeats(t) : row.customerEmail \in buyers[t]
      BY <1>1, RowBacked DEF SoldSeats
    <3>2. \A row1, row2 \in SoldSeats(t) : customer[row1] = customer[row2] => row1 = row2
      BY <1>1, OneRowPerPurchase DEF SoldSeats
    <3> QED  BY <3>1, <3>2 DEF Injection, IsInjective
  <2>2. IsFiniteSet(buyers[t]) /\ Cardinality(buyers[t]) \in Nat
    BY <1>1, BuyersFinite DEF TypeInv
  <2>3. Cardinality(SoldSeats(t)) <= Cardinality(buyers[t]) /\ IsFiniteSet(SoldSeats(t))
    BY <2>1, <2>2, FS_Injection
  <2>4. Cardinality(SoldSeats(t)) \in Nat /\ capacity[t] \in Nat
    BY <1>1, <2>3, FS_CardinalityType DEF TypeInv, TypeOK, GateTypeOK, InitTypeOK
  <2>5. Cardinality(buyers[t]) <= capacity[t]
    <3>1. CASE stock[t] = NoKey
      <4>1. buyers[t] = {}
        BY <1>1, <3>1 DEF CountInv, Openings, NoStockNoBuyers
      <4>2. Cardinality(buyers[t]) = 0
        BY <4>1, FS_EmptySet
      <4> QED  BY <2>4, <4>2
    <3>2. CASE stock[t] # NoKey
      <4>1. stock[t] \in Nat /\ stock[t] + Cardinality(buyers[t]) = capacity[t]
        BY <1>1, <3>2 DEF CountInv, Conservation, TypeInv, TypeOK, RedisTypeOK
      <4> QED  BY <2>2, <2>4, <4>1
    <3> QED  BY <3>1, <3>2
  <2> QED  BY <2>2, <2>3, <2>4, <2>5
<1>2. TypeInv /\ BackInv /\ CountInv => NoOversell
  BY <1>1 DEF NoOversell
<1>3. BackFaults /\ CountFaults
  BY DEF SaleFaults
<1> QED  BY <1>2, <1>3, BackInvariant, CountInvariant, PTL

(* A seat that no order and no job relies on.                              *)
NobodyRelies(t, e) ==
  /\ \A row \in orders : ~(row.ticketId = t /\ row.customerEmail = e)
  /\ \A i \in DOMAIN jobs : ~(jobs[i].data.ticketId = t /\ jobs[i].data.customerEmail = e)

(* A request gives back its own seat only while it is not accepted, and so *)
(* has no job and no row.                                                  *)
LEMMA GivenBackUnsold ==
  ASSUME TypeInv, BackInv, NEW r \in Requests, RequestStep(r), GivesSeatBack(r)
  PROVE  NobodyRelies(body[r].ticketId, body[r].customerEmail)
<1> DEFINE b == body[r]
<1>0. call[r] # "accepted"
  BY DEF RequestStep, Reserve, ResendReserve, MarkPending, Enqueue, Release, ResendRelease,
     ClearPendingOfFailedCall, GatewayCrash
<1>1. b = [ticketId |-> b.ticketId, customerEmail |-> b.customerEmail]
  BY DEF GivesSeatBack, TypeInv, TypeOK, GateTypeOK, Holding, Bodies
<1>2. ASSUME NEW data \in OrderJobData, Backed(data),
             data.ticketId = b.ticketId, data.customerEmail = b.customerEmail
      PROVE  FALSE
  <2>1. /\ data.orderId \in Requests /\ Holding(data.orderId)
        /\ body[data.orderId] = b
    BY <1>1, <1>2, BackedHolds
  <2>2. data.orderId = r
    BY <2>1 DEF BackInv, SeatInv, Seats, GivesSeatBack
  <2> QED  BY <1>0, <1>2, <2>2 DEF Backed
<1>3. \A i \in DOMAIN jobs : jobs[i].data \in OrderJobData /\ Backed(jobs[i].data)
  BY JobData DEF TypeInv, TypeOK, BackInv, Backing
<1>4. \A row \in orders : \E data \in OrderJobData : Backed(data) /\ row = RowOf(data)
  BY DEF BackInv, Backing
<1> QED  BY <1>2, <1>3, <1>4 DEF RowOf, NobodyRelies

-----------------------------------------------------------------------------
(* The sale.  It is opened once: a ticket that has no stock yet has not    *)
(* been given a capacity either.                                           *)
Unopened == \A t \in Tickets : stock[t] = NoKey => capacity[t] = 0

(* A key that exists is never deleted, but by an operator's second call.   *)
LEMMA UnopenedKept ==
  ASSUME CountFaults, TypeInv, TypeInv', CountInv, Unopened, Next
  PROVE  Unopened'
<1> USE NoKeyAssumption DEF TypeInv, TypeOK, RedisTypeOK
<1>1. ASSUME NEW r \in Requests, RequestStep(r)
      PROVE  UNCHANGED capacity /\ \A t \in Tickets : stock'[t] = NoKey => stock[t] = NoKey
  <2>1. Moves /\ UNCHANGED capacity
    BY <1>1, RequestMoves DEF openingVars, initVars
  <2>2. ASSUME NEW t \in Tickets, NEW e \in Emails, Sells(t, e) \/ Frees(t, e)
        PROVE  \A u \in Tickets : stock'[u] = NoKey => stock[u] = NoKey
    BY <2>2, MoveCounts DEF CountInv, Openings
  <2> QED  BY <2>1, <2>2 DEF Moves
<1>2. ASSUME NEW c \in InitCalls, InitStep(c)
      PROVE  Unopened'
  <2>1. ASSUME NEW t \in Tickets, NEW n \in Counts, InitDel(c, t, n)
        PROVE  UNCHANGED <<stock, capacity>>
    BY <2>1 DEF InitDel, DeleteKeys, CountFaults, Fault, Unsold
  <2>0. ~ResendDel(c)
    BY DEF ResendDel, CountFaults, Fault
  <2>2. ASSUME InitSet(c)
        PROVE  Unopened'
    <3> DEFINE u == initBody[c].ticketId
               n == initBody[c].count
    <3>1. initBody[c] \in InitBodies
      BY <2>2 DEF InitSet, Initialising, GateTypeOK, InitTypeOK
    <3>2. u \in Tickets /\ n # NoKey
      <4>1. u \in Tickets /\ n \in Counts
        BY <3>1 DEF InitBodies
      <4> HIDE DEF n
      <4>2. n \in Nat
        BY <4>1, InitAssumption
      <4> QED  BY <4>1, <4>2, NoKeyAssumption
    <3>3. \/ UNCHANGED <<stock, capacity>>
          \/ stock' = [stock EXCEPT ![u] = n] /\ capacity' = [capacity EXCEPT ![u] = n]
      BY <2>2 DEF InitSet, SetKey
    <3>4. capacity \in [Tickets -> Nat]
      BY DEF GateTypeOK, InitTypeOK
    <3> HIDE DEF u, n
    <3> QED  BY <3>2, <3>3, <3>4 DEF Unopened
  <2> QED  BY <1>2, <2>0, <2>1, <2>2 DEF InitStep, InitTickets, Unopened
<1>3. CASE GateStep
  BY <1>1, <1>2, <1>3 DEF GateStep, GateNext, Expire, PendingExpires, Unopened, openingVars, initVars
<1>4. CASE WorkerStep
  BY <1>4, WorkerRows DEF WorkerStep, Unopened, openingVars, initVars
<1> QED  BY <1>3, <1>4 DEF Next

(* TicketSale counts as the flow does.                                     *)
LEMMA SameCount ==
  ASSUME NEW S
  PROVE  Sale!Cardinality(S) = Cardinality(S)
  BY DEF Sale!Cardinality, Cardinality

(* Of a request's step: it reserves a seat while one is left, gives one up *)
(* that is not sold, or does neither.                                      *)
LEMMA RequestSale ==
  ASSUME SaleFaults, TypeInv, TypeInv', BackInv, CountInv, NEW r \in Requests, RequestStep(r),
         UNCHANGED orders
  PROVE  [Sale!Next]_(Sale!saleVars)
<1> USE DEF TypeInv, TypeOK, RedisTypeOK
<1>1. RequestFrame(r) /\ UNCHANGED capacity
  BY RequestStepFrame DEF RequestFrame, SaleFaults, BackFaults, BackInv, SeatInv, openingVars, initVars
<1> DEFINE sold == [t \in Tickets |-> {row.customerEmail : row \in SoldSeats(t)}]
<1>2. sold' = sold
  BY DEF SoldSeats
<1>3. CASE TakesSeat(r)
  <2> DEFINE t == body'[r].ticketId
             e == body'[r].customerEmail
  <2>1. t \in Tickets /\ e \in Emails
    BY <1>3 DEF TakesSeat, GateTypeOK, Holding, Bodies
  <2>2. /\ stock[t] \in Nat \ {0} /\ stock[t] # NoKey /\ e \notin buyers[t]
        /\ buyers' = [buyers EXCEPT ![t] = @ \cup {e}]
    BY <1>3, <2>1, NoKeyAssumption DEF TakesSeat, Sells
  <2>3. Cardinality(buyers[t]) < capacity[t]
    <3>1. stock[t] + Cardinality(buyers[t]) = capacity[t]
      BY <2>1, <2>2 DEF CountInv, Conservation
    <3>2. Cardinality(buyers[t]) \in Nat
      BY <2>1, BuyersFinite
    <3> QED  BY <2>2, <3>1, <3>2
  <2>4. Sale!Reserve(t, e)
    BY <1>1, <1>2, <2>2, <2>3, SameCount DEF Sale!Reserve
  <2> QED  BY <2>1, <2>4 DEF Sale!Next
<1>4. CASE GivesSeatBack(r)
  <2> DEFINE t == body[r].ticketId
             e == body[r].customerEmail
  <2>1. t \in Tickets /\ e \in Emails /\ e \in buyers[t]
    BY <1>4 DEF GivesSeatBack, Frees
  <2>2. buyers' = [buyers EXCEPT ![t] = @ \ {e}]
    BY <1>4 DEF GivesSeatBack, Frees
  <2>3. e \notin sold[t]
    BY <1>4, <2>1, GivenBackUnsold DEF NobodyRelies, SoldSeats
  <2>4. Sale!GiveUp(t, e)
    BY <1>1, <1>2, <2>1, <2>2, <2>3 DEF Sale!GiveUp
  <2> QED  BY <2>1, <2>4 DEF Sale!Next
<1>5. CASE KeepsSeats(r)
  BY <1>1, <1>2, <1>5 DEF KeepsSeats, Sale!saleVars
<1> QED  BY <1>1, <1>3, <1>4, <1>5 DEF RequestFrame

(* The first initTickets that succeeds opens the sale of its ticket.       *)
LEMMA InitStepSale ==
  ASSUME CountFaults, TypeInv, CountInv, Unopened, NEW c \in InitCalls, InitStep(c),
         UNCHANGED orders
  PROVE  [Sale!Next]_(Sale!saleVars)
<1> USE DEF TypeInv, TypeOK, RedisTypeOK
<1> DEFINE sold == [t \in Tickets |-> {row.customerEmail : row \in SoldSeats(t)}]
<1>1. sold' = sold
  BY DEF SoldSeats
<1>2. ASSUME NEW t \in Tickets, NEW n \in Counts, InitDel(c, t, n)
      PROVE  UNCHANGED Sale!saleVars
  <2>1. buyers[t] = {}
    BY <1>2 DEF InitDel, CountFaults, Fault, Unsold, CountInv, Openings, NoStockNoBuyers
  <2>2. UNCHANGED <<buyers, capacity>>
    BY <1>2, <2>1 DEF InitDel, DeleteKeys
  <2> QED  BY <1>1, <2>2 DEF Sale!saleVars
<1>3. CASE InitSet(c)
  <2> DEFINE t == initBody[c].ticketId
             n == initBody[c].count
  <2>1. t \in Tickets /\ n \in Counts
    BY <1>3 DEF InitSet, Initialising, GateTypeOK, InitTypeOK, InitBodies
  <2>2. capacity[t] = 0
    BY <1>3, <2>1 DEF InitSet, Initialising, CountInv, SetOnce, Openings, Unopened
  <2>3. UNCHANGED buyers /\ (UNCHANGED capacity \/ capacity' = [capacity EXCEPT ![t] = n])
    BY <1>3 DEF InitSet, SetKey
  <2>4. CASE UNCHANGED capacity
    BY <1>1, <2>3, <2>4 DEF Sale!saleVars
  <2>5. CASE capacity' = [capacity EXCEPT ![t] = n]
    <3>1. Sale!Open(t, n)
      BY <1>1, <2>2, <2>3, <2>5 DEF Sale!Open
    <3> QED  BY <2>1, <3>1 DEF Sale!Next
  <2> QED  BY <2>3, <2>4, <2>5
<1>4. ~ResendDel(c)
  BY DEF ResendDel, CountFaults, Fault
<1> QED  BY <1>2, <1>3, <1>4 DEF InitStep, InitTickets

(* A row that a worker inserts confirms a seat that its customer holds.    *)
LEMMA RowSale ==
  ASSUME TypeInv, BackInv, UNCHANGED <<capacity, buyers>>, NEW i \in DOMAIN jobs,
         orders' = orders \cup {RowOf(jobs[i].data)}
  PROVE  [Sale!Next]_(Sale!saleVars)
<1> DEFINE sold == [t \in Tickets |-> {row.customerEmail : row \in SoldSeats(t)}]
           t == jobs[i].data.ticketId
           e == jobs[i].data.customerEmail
<1>1. jobs[i].data \in OrderJobData /\ Backed(jobs[i].data)
  BY JobData DEF TypeInv, TypeOK, BackInv, Backing
<1>2. t \in Tickets /\ e \in Emails /\ e \in buyers[t]
  BY <1>1, BackedHolds DEF OrderJobData
<1>3. RowOf(jobs[i].data).ticketId = t /\ RowOf(jobs[i].data).customerEmail = e
  BY DEF RowOf
<1>4. \A u \in Tickets : sold'[u] = IF u = t THEN sold[u] \cup {e} ELSE sold[u]
  <2> HIDE DEF t, e
  <2> QED  BY <1>3 DEF SoldSeats
<1>5. sold' = [sold EXCEPT ![t] = @ \cup {e}]
  BY <1>4
<1>6. CASE e \in sold[t]
  <2>1. sold' = sold
    BY <1>2, <1>5, <1>6
  <2> QED  BY <2>1 DEF Sale!saleVars
<1>7. CASE e \notin sold[t]
  <2>1. PICK u \in Tickets, f \in Emails : u = t /\ f = e
    BY <1>2
  <2>2. Sale!Confirm(u, f)
    BY <1>2, <1>5, <1>7, <2>1 DEF Sale!Confirm
  <2> QED  BY <2>2 DEF Sale!Next
<1> QED  BY <1>6, <1>7

(* The purchase flow is the flash sale it promises to be.                  *)
THEOREM TheSaleIsKept ==
  ASSUME SaleFaults
  PROVE  Spec => RefinesTicketSale
<1>1. Init => Sale!Init /\ Unopened
  BY DEF Init, GateInit, RedisInit, WorkerInit, SoldSeats, Unopened, Sale!Init
<1>0. BackFaults /\ CountFaults
  BY DEF SaleFaults
<1>2. TypeInv /\ TypeInv' /\ BackInv /\ CountInv /\ Unopened /\ [Next]_vars => Unopened'
  <2>1. ASSUME Unopened, UNCHANGED vars
        PROVE  Unopened'
    BY <2>1 DEF vars, Unopened, redisVars, openingVars, initVars
  <2> QED  BY <1>0, <2>1, UnopenedKept
<1>3. TypeInv /\ TypeInv' /\ BackInv /\ CountInv /\ Unopened /\ [Next]_vars => [Sale!Next]_(Sale!saleVars)
  <2>1. ASSUME UNCHANGED <<buyers, capacity, orders>>
        PROVE  UNCHANGED Sale!saleVars
    BY <2>1 DEF SoldSeats, Sale!saleVars
  <2>2. ASSUME TypeInv, TypeInv', BackInv, CountInv, Unopened, GateStep
        PROVE  [Sale!Next]_(Sale!saleVars)
    <3>1. UNCHANGED orders
      BY <2>2 DEF GateStep, outcomeVars
    <3>2. CASE Expire
      BY <2>1, <3>1, <3>2 DEF Expire, PendingExpires, openingVars, initVars
    <3> QED  BY <1>0, <2>2, <3>1, <3>2, RequestSale, InitStepSale DEF GateStep, GateNext
  <2>3. ASSUME TypeInv, BackInv, WorkerStep
        PROVE  [Sale!Next]_(Sale!saleVars)
    <3>1. UNCHANGED <<capacity, buyers>>
      BY <2>3, WorkerRows DEF WorkerStep, openingVars, initVars
    <3> QED  BY <2>1, <2>3, <3>1, WorkerRows, RowSale DEF WorkerStep
  <2>4. ASSUME UNCHANGED vars
        PROVE  UNCHANGED Sale!saleVars
    BY <2>1, <2>4 DEF vars, redisVars, openingVars, initVars, outcomeVars
  <2> QED  BY <2>2, <2>3, <2>4 DEF Next
<1>4. Spec => [](TypeInv /\ BackInv /\ CountInv)
  BY <1>0, BackInvariant, CountInvariant, PTL
<1> QED  BY <1>1, <1>2, <1>3, <1>4, PTL DEF Spec, RefinesTicketSale, Sale!Spec
=============================================================================
