--------------------------- MODULE OrdersService ----------------------------
(***************************************************************************)
(* The read side of the API gateway: getOrderStatus                        *)
(* (apps/api-gateway/src/orders/orders.service.ts) looks for the order's   *)
(* row in PostgreSQL and, when there is none, for its pending key in       *)
(* Redis.  These are two reads at two times, and the worker goes on        *)
(* between them, along the life OrderLifecycle gives an order.  Either     *)
(* read may fail, which rejects the whole call.                            *)
(***************************************************************************)
EXTENDS OrderLifecycle, Infrastructure

CONSTANTS Readers,      \* the calls of getOrderStatus
          NoOrder

VARIABLE read           \* what each call has read, and answered

(* "redis": no row was found, and the pending key is read next.            *)
StatusAnswers == {"completed", "pending", "notFound", "error"}

(* The types                                                               *)
ReadTypeOK ==
  read \in [Readers -> [at : {"idle", "redis"} \cup StatusAnswers,
                        order : OrderIds \cup {NoOrder},
                        known : BOOLEAN]]

Idle == [at |-> "idle", order |-> NoOrder, known |-> FALSE]

ReadInit == LifecycleInit /\ read = [r \in Readers |-> Idle]

(* orderRepository.findOne({ id }).  History: known says whether the order *)
(* had been accepted when it was asked for.                                *)
FindOne(r, o) ==
  LET Finds(at) == read' = [read EXCEPT ![r] = [at |-> at,
                                                order |-> o,
                                                known |-> o \in accepted]]
  IN  /\ read[r].at = "idle"
      /\ \/ o \in rows /\ NoFault /\ Finds("completed")
         \/ o \notin rows /\ NoFault /\ Finds("redis")
         \/ Fault("refused") /\ Finds("error")

(* orderStatusService.isPending, or else a NotFoundException               *)
IsPending(r) ==
  LET Finds(at) == read' = [read EXCEPT ![r].at = at]
  IN  /\ read[r].at = "redis"
      /\ \/ read[r].order \in pending /\ NoFault /\ Finds("pending")
         \/ read[r].order \notin pending /\ NoFault /\ Finds("notFound")
         \/ Fault("refused") /\ Finds("error")

(* The caller goes on, and may ask again.                                  *)
Forget(r) == read' = [read EXCEPT ![r] = Idle]

-----------------------------------------------------------------------------
(* The two reads are no snapshot: an accepted order that is saved and      *)
(* cleared between them is answered with 404.  But only then: the order    *)
(* has its row by now, and the next call finds it                          *)
(* (orders.service.ts:16-37).                                              *)
NotFoundOnlyInPassing ==
  \A r \in Readers :
    (read[r].known /\ read[r].at = "notFound") => read[r].order \in rows
=============================================================================
