--------------------------- MODULE TicketsService ---------------------------
(***************************************************************************)
(* The write side of the API gateway: TicketsService.buyTicket             *)
(* (apps/api-gateway/src/tickets/tickets.service.ts), beside initTickets.  *)
(* A call of buyTicket is a sequence of awaited calls to Redis and BullMQ; *)
(* each is a step, and the calls of all gateways interleave between them.  *)
(*                                                                         *)
(* A request to buy is named by the order id that randomUUID gives it.     *)
(***************************************************************************)
EXTENDS TicketInit, OrderQueue

CONSTANTS RawEmails,        \* what customers type
          Normalized        \* trim and lower-case, tickets.dto.ts:19

ASSUME GatewayAssumption ==
  /\ Normalized \in [RawEmails -> Emails]
  /\ IsFiniteSet(Emails)

VARIABLES
  call,         \* where each request stands in buyTicket
  body,         \* its ticketId and normalised customerEmail
  offered       \* history: the seats of each ticket that were ever put on sale

callVars == <<call, body>>
openingVars == <<initVars, offered>>

Requests == OrderIds

(* "mark" to "unmark" name the step a request takes next; the others are   *)
(* outcomes.  A stranded request failed and left its seat reserved; a      *)
(* selfRefused one was answered "duplicate" because of its own.            *)
CallStates == {"idle", "mark", "enqueue", "release", "unmark", "accepted",
               "duplicate", "selfRefused", "soldOut", "failed", "stranded"}

Bodies == [ticketId : Tickets, customerEmail : Emails]

OrderJobData == [orderId : OrderIds, ticketId : Tickets, customerEmail : Emails]

JobDataOf(r) == [orderId |-> r, ticketId |-> body[r].ticketId,
                 customerEmail |-> body[r].customerEmail]

GateTypeOK == /\ call \in [Requests -> CallStates]
              /\ body \in [Requests -> Bodies \cup {NoBody}]
              /\ \A r \in Requests : call[r] # "idle" => body[r] \in Bodies
              /\ InitTypeOK
              /\ offered \in [Tickets -> Nat]

GateInit ==
  /\ RedisInit
  /\ faults = 0
  /\ jobs = << >>
  /\ call = [r \in Requests |-> "idle"]
  /\ body = [r \in Requests |-> NoBody]
  /\ NoInitCalls
  /\ capacity = [t \in Tickets |-> 0]
  /\ offered = [t \in Tickets |-> 0]

-----------------------------------------------------------------------------
(* buyTicket *)

Goto(r, state) == call' = [call EXCEPT ![r] = state]

(* Wrong: the rejection of a duplicate is thrown inside the try block.     *)
ReserveInsideTry(r, t, raw) ==
  LET e == Normalized[raw]
  IN  /\ call[r] = "idle"
      /\ body' = [body EXCEPT ![r] = [ticketId |-> t, customerEmail |-> e]]
      /\ NoFault
      /\ \E reply \in BuyTicketReplies :
           /\ BuyTicket(t, e, reply)
           /\ Goto(r, IF reply = "reserved" THEN "mark" ELSE "release")
      /\ UNCHANGED <<pending, jobs, openingVars>>

(* The request arrives and awaits tryBuyTicket, outside the try block.     *)
Reserve(r, t, raw) ==
  LET e == Normalized[raw]
  IN  /\ call[r] = "idle"
      /\ body' = [body EXCEPT ![r] = [ticketId |-> t, customerEmail |-> e]]
      /\ \/ /\ NoFault
            /\ \E reply \in BuyTicketReplies :
                 /\ BuyTicket(t, e, reply)
                 /\ Goto(r, IF reply = "reserved" THEN "mark" ELSE reply)
         \/ /\ Fault("refused")
            /\ UNCHANGED <<stock, buyers>>
            /\ Goto(r, "failed")
         \/ /\ Fault("lost")
            /\ BuyTicket(t, e, "reserved")
            /\ Goto(r, "stranded")
      /\ UNCHANGED <<pending, jobs, openingVars>>

(* The client sends the script again after it has reserved a seat.  The    *)
(* second run answers, as a rule "duplicate", which rejects the purchase.  *)
ResendReserve(r) ==
  /\ call[r] = "mark"
  /\ Fault("resent")
  /\ \E reply \in BuyTicketReplies :
       /\ BuyTicket(body[r].ticketId, body[r].customerEmail, reply)
       /\ Goto(r, CASE reply = "reserved" -> "mark"
                    [] reply = "duplicate" -> "selfRefused"
                    [] reply = "soldOut" -> "soldOut")
  /\ UNCHANGED <<pending, jobs, body, openingVars>>

(* Wrong: markPending is called before the try block.                      *)
MarkPendingOutsideTry(r) ==
  /\ call[r] = "mark"
  /\ \E a \in Answers :
       /\ Answered(a)
       /\ SetPendingOrderStatus(r, a)
       /\ Goto(r, IF a = "ok" THEN "enqueue" ELSE "stranded")
  /\ UNCHANGED <<stock, buyers, jobs, body, openingVars>>

MarkPending(r) ==
  /\ call[r] = "mark"
  /\ \E a \in Answers :
       /\ Answered(a)
       /\ SetPendingOrderStatus(r, a)
       /\ Goto(r, IF a = "ok" THEN "enqueue" ELSE "release")
  /\ UNCHANGED <<stock, buyers, jobs, body, openingVars>>

(* Wrong: an add that meets its own first copy is reported as an error.    *)
EnqueueRejectsResent(r) ==
  /\ call[r] = "enqueue"
  /\ \/ NoFault /\ AddJob(JobDataOf(r)) /\ Goto(r, "accepted")
     \/ Fault("resent") /\ AddJob(JobDataOf(r)) /\ Goto(r, "release")
  /\ UNCHANGED <<redisVars, body, openingVars>>

(* orderQueue.add.  BullMQ numbers every job it adds, so a command that is *)
(* sent twice adds two jobs with the same data; the later one is a job     *)
(* that no worker has taken yet.                                           *)
Enqueue(r) ==
  /\ call[r] = "enqueue"
  /\ \/ NoFault /\ AddJob(JobDataOf(r)) /\ Goto(r, "accepted")
     \/ Fault("resent") /\ AddJobTwice(JobDataOf(r)) /\ Goto(r, "accepted")
     \/ Fault("refused") /\ UNCHANGED jobs /\ Goto(r, "release")
     \/ Fault("lostAdd") /\ AddJob(JobDataOf(r)) /\ Goto(r, "release")
  /\ UNCHANGED <<redisVars, body, openingVars>>

(* The catch block: a release that itself rejects skips clearPending.      *)
Release(r) ==
  /\ call[r] = "release"
  /\ \/ /\ NoFault
        /\ ReleaseTicketReservation(body[r].ticketId, body[r].customerEmail)
        /\ Goto(r, "unmark")
     \/ /\ Fault("refused")
        /\ UNCHANGED <<stock, buyers>>
        /\ Goto(r, "stranded")
     \/ /\ Fault("lost")
        /\ ReleaseTicketReservation(body[r].ticketId, body[r].customerEmail)
        /\ Goto(r, "failed")
  /\ UNCHANGED <<pending, jobs, body, openingVars>>

(* The client sends the release again.  Its second run gives back whatever *)
(* seat the customer holds by then.                                        *)
ResendRelease(r) ==
  /\ call[r] = "unmark"
  /\ Fault("resentRelease")
  /\ ReleaseTicketReservation(body[r].ticketId, body[r].customerEmail)
  /\ UNCHANGED <<pending, jobs, callVars, openingVars>>

ClearPendingOfFailedCall(r) ==
  /\ call[r] = "unmark"
  /\ \E a \in Answers : Answered(a) /\ DeletePendingOrderStatus(r, a)
  /\ Goto(r, "failed")
  /\ UNCHANGED <<stock, buyers, jobs, body, openingVars>>

(* The gateway dies while it awaits one of these calls.                    *)
GatewayCrash(r) ==
  /\ Fault("crash")
  /\ \/ call[r] \in {"mark", "enqueue", "release"} /\ Goto(r, "stranded")
     \/ call[r] = "unmark" /\ Goto(r, "failed")
  /\ UNCHANGED <<redisVars, jobs, body, openingVars>>

-----------------------------------------------------------------------------
RequestStep(r) ==
  \/ \E t \in Tickets, raw \in RawEmails : Reserve(r, t, raw)
  \/ ResendReserve(r)
  \/ MarkPending(r)
  \/ Enqueue(r)
  \/ Release(r)
  \/ ResendRelease(r)
  \/ ClearPendingOfFailedCall(r)
  \/ GatewayCrash(r)

(* What an event loop owes a request: to go on with the call it is in.     *)
CallProgress(r) == \/ MarkPending(r) \/ Enqueue(r)
                   \/ Release(r) \/ ClearPendingOfFailedCall(r)

(* Each run of a SET puts its whole count on sale.                         *)
InitStep(c) ==
  /\ InitTickets(c)
  /\ offered' = IF initCall'[c] \in {"done", "setAgain"}
                  THEN [offered EXCEPT ![initBody[c].ticketId] = @ + initBody[c].count]
                  ELSE offered
  /\ UNCHANGED <<jobs, callVars>>

Expire == \E o \in OrderIds : PendingExpires(o) /\ UNCHANGED <<jobs, callVars, openingVars>>

GateNext == \/ \E r \in Requests : RequestStep(r)
            \/ \E c \in InitCalls : InitStep(c)
            \/ Expire

-----------------------------------------------------------------------------
(* A request that holds a seat, whether or not its customer knows.         *)
Holding(r) ==
  call[r] \in {"mark", "enqueue", "release", "accepted", "selfRefused", "stranded"}

(* No seat appears or vanishes: what is left of a ticket's stock and what  *)
(* its buyers hold always add up to the count it was initialised with,     *)
(* although DECR and SADD, SREM and INCR, DEL and SET run interleaved with *)
(* the calls of every other gateway, as long as no DEL or SET comes when   *)
(* the ticket is on sale already (redis.service.ts:20-50).                 *)
Conservation ==
  \A t \in Tickets : stock[t] # NoKey =>
    stock[t] + Cardinality(buyers[t]) = capacity[t]
=============================================================================
