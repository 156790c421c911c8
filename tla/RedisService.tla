---------------------------- MODULE RedisService ----------------------------
(***************************************************************************)
(* The Redis keys the services share, and the commands of                  *)
(* libs/redis/src/redis.service.ts on them.  A command, a Lua script       *)
(* included, is one atomic step of the server.                             *)
(***************************************************************************)
EXTENDS Integers, FiniteSets, Infrastructure

CONSTANTS Tickets, Emails, OrderIds,
          NoKey             \* what GET returns for a key that does not exist

ASSUME NoKeyAssumption == NoKey \notin Int

VARIABLES stock,            \* stock:<ticketId>, an integer or NoKey
          buyers,           \* buyers:<ticketId>, a set of normalised emails
          pending           \* the orders whose order-status key exists

redisVars == <<stock, buyers, pending>>

RedisTypeOK == /\ stock \in [Tickets -> Nat \cup {NoKey}]
               /\ buyers \in [Tickets -> SUBSET Emails]
               /\ pending \in SUBSET OrderIds

RedisInit == /\ stock = [t \in Tickets |-> NoKey]
             /\ buyers = [t \in Tickets |-> {}]
             /\ pending = {}

-----------------------------------------------------------------------------
(* tonumber(redis.call("GET", stockKey) or "0")                            *)
CurrentStock(t) == IF stock[t] = NoKey THEN 0 ELSE stock[t]

(* BUY_TICKET_LUA; the replies -1, 0 and 1 have their meaning as a name.   *)
BuyTicketReplies == {"duplicate", "soldOut", "reserved"}

(* Wrong: the script without its SISMEMBER check.                          *)
BuyTicketUnchecked(t, e, reply) ==
  \/ /\ CurrentStock(t) <= 0
     /\ reply = "soldOut"
     /\ UNCHANGED <<stock, buyers>>
  \/ /\ CurrentStock(t) > 0
     /\ reply = "reserved"
     /\ stock' = [stock EXCEPT ![t] = CurrentStock(t) - 1]
     /\ buyers' = [buyers EXCEPT ![t] = @ \cup {e}]

(* Wrong: the script sells the seat after the last one.                    *)
BuyTicketOffByOne(t, e, reply) ==
  \/ /\ e \in buyers[t] \/ CurrentStock(t) < 0
     /\ reply = IF e \in buyers[t] THEN "duplicate" ELSE "soldOut"
     /\ UNCHANGED <<stock, buyers>>
  \/ /\ e \notin buyers[t] /\ CurrentStock(t) >= 0
     /\ reply = "reserved"
     /\ stock' = [stock EXCEPT ![t] = CurrentStock(t) - 1]
     /\ buyers' = [buyers EXCEPT ![t] = @ \cup {e}]

BuyTicket(t, e, reply) ==
  \/ /\ e \in buyers[t]
     /\ reply = "duplicate"
     /\ UNCHANGED <<stock, buyers>>
  \/ /\ e \notin buyers[t]
     /\ CurrentStock(t) <= 0
     /\ reply = "soldOut"
     /\ UNCHANGED <<stock, buyers>>
  \/ /\ e \notin buyers[t]
     /\ CurrentStock(t) > 0
     /\ reply = "reserved"
     /\ stock' = [stock EXCEPT ![t] = CurrentStock(t) - 1]
     /\ buyers' = [buyers EXCEPT ![t] = @ \cup {e}]

(* RELEASE_TICKET_RESERVATION_LUA                                          *)
ReleaseTicketReservation(t, e) ==
  \/ /\ e \in buyers[t]
     /\ stock' = [stock EXCEPT ![t] = CurrentStock(t) + 1]
     /\ buyers' = [buyers EXCEPT ![t] = @ \ {e}]
  \/ /\ e \notin buyers[t]
     /\ UNCHANGED <<stock, buyers>>

(* setPendingOrderStatus and deletePendingOrderStatus, which reach the     *)
(* server unless they are refused.                                         *)
SetPendingOrderStatus(o, a) ==
  pending' = IF Applied(a) THEN pending \cup {o} ELSE pending

DeletePendingOrderStatus(o, a) ==
  pending' = IF Applied(a) THEN pending \ {o} ELSE pending

(* The time to live of a pending key (900 s unless configured) runs out.   *)
PendingExpires(o) ==
  /\ o \in pending
  /\ Fault("expired")
  /\ pending' = pending \ {o}
  /\ UNCHANGED <<stock, buyers>>
=============================================================================
