------------------------- MODULE OrderEventsService -------------------------
(***************************************************************************)
(* The live updates of one gateway: OrderEventsService                     *)
(* (apps/api-gateway/src/orders/order-events.service.ts) on top of the     *)
(* Redis Pub/Sub channel of OrderEventsBusService.  A stream is a          *)
(* browser's connection to /orders/:orderId/events.  It first asks         *)
(* getOrderStatus, and only then registers itself with the gateway's       *)
(* orderStreams, whose listeners a message from the channel is broadcast   *)
(* to.  Gateways do not share orderStreams, so one gateway stands for all. *)
(***************************************************************************)
EXTENDS OrdersService, Sequences, FiniteSets

CONSTANT BusBound       \* bounds the messages on their way to the gateway

Streams == Readers      \* each stream makes one call of getOrderStatus

VARIABLES
  stream,       \* where each stream stands, seen from the gateway
  orderStreams, \* the Map: a function from some orders to their entry
  bus,          \* published messages the subscriber has not handled yet
  missed        \* history: the orders a message of which was dropped

eventVars == <<stream, orderStreams, bus>>
streamVars == <<lifecycleVars, read, faults, eventVars, missed>>

(* "attaching" awaits getOrderStatus; "abandoned" does so although the     *)
(* browser has gone (closed = true); "completed" and "errored" have ended. *)
StreamStates == {"closed", "attaching", "abandoned", "attached", "completed", "errored"}

Entries == [observers : Nat, listeners : SUBSET Streams]

(* The types; every entry and every message is of an order.                *)
StreamTypeOK ==
  /\ ReadTypeOK
  /\ stream \in [Streams -> StreamStates]
  /\ DOMAIN orderStreams \subseteq OrderIds
  /\ \A o \in DOMAIN orderStreams : orderStreams[o] \in Entries
  /\ bus \in Seq(OrderIds)
  /\ missed \subseteq OrderIds

StreamInit == /\ ReadInit
              /\ stream = [s \in Streams |-> "closed"]
              /\ orderStreams = << >>
              /\ bus = << >>
              /\ missed = {}
              /\ faults = 0

Turn(s, state) == stream' = [stream EXCEPT ![s] = state]

Has(o) == o \in DOMAIN orderStreams

Put(o, entry) == [p \in DOMAIN orderStreams \cup {o} |->
                    IF p = o THEN entry ELSE orderStreams[p]]

Drop(o) == [p \in DOMAIN orderStreams \ {o} |-> orderStreams[p]]

-----------------------------------------------------------------------------
(* streamOrderStatus: the browser connects, getOrderStatus is called.      *)
Connect(s, o) ==
  /\ stream[s] = "closed"
  /\ FindOne(s, o)
  /\ Turn(s, "attaching")
  /\ UNCHANGED <<lifecycleVars, orderStreams, bus>>

ReadPending(s) ==
  /\ IsPending(s)
  /\ UNCHANGED <<lifecycleVars, eventVars>>

(* getOrCreateEntry, then observers += 1 and listeners.add                 *)
Register(s, o) ==
  LET entry == IF Has(o) THEN orderStreams[o] ELSE [observers |-> 0, listeners |-> {}]
  IN  orderStreams' = Put(o, [observers |-> entry.observers + 1,
                              listeners |-> entry.listeners \cup {s}])

(* The teardown that attachSubscriber returns; the entry goes with its     *)
(* last observer.                                                          *)
Teardown(s, o) ==
  LET entry == [observers |-> orderStreams[o].observers - 1,
                listeners |-> orderStreams[o].listeners \ {s}]
  IN  orderStreams' = IF ~Has(o) THEN orderStreams
                      ELSE IF entry.observers <= 0 THEN Drop(o)
                      ELSE Put(o, entry)

(* attachSubscriber goes on with the answer of getOrderStatus; if that     *)
(* rejects, with a 404 or because a read failed, so does the stream.       *)
Attach(s) ==
  /\ stream[s] = "attaching"
  /\ \/ /\ read[s].at = "completed"
        /\ Turn(s, "completed")
        /\ UNCHANGED orderStreams
     \/ /\ read[s].at = "pending"
        /\ Turn(s, "attached")
        /\ Register(s, read[s].order)
     \/ /\ read[s].at \in {"notFound", "error"}
        /\ Turn(s, "errored")
        /\ UNCHANGED orderStreams
  /\ UNCHANGED <<lifecycleVars, read, faults, bus>>

(* Wrong: attachSubscriber's caller does not look at closed.               *)
AttachAbandonedUnchecked(s) ==
  /\ stream[s] = "abandoned"
  /\ read[s].at \in StatusAnswers
  /\ Turn(s, "closed")
  /\ Forget(s)
  /\ IF read[s].at = "pending" THEN Register(s, read[s].order) ELSE UNCHANGED orderStreams
  /\ UNCHANGED <<lifecycleVars, faults, bus>>

(* The browser has gone by then: what was registered is torn down at once. *)
AttachAbandoned(s) ==
  /\ stream[s] = "abandoned"
  /\ read[s].at \in StatusAnswers
  /\ Turn(s, "closed")
  /\ Forget(s)
  /\ UNCHANGED <<lifecycleVars, faults, orderStreams, bus>>

(* The browser closes the connection, or has seen it end.                  *)
Disconnect(s) ==
  /\ \/ /\ stream[s] = "attaching"
        /\ Turn(s, "abandoned")
        /\ UNCHANGED <<read, orderStreams>>
     \/ /\ stream[s] = "attached"
        /\ Turn(s, "closed")
        /\ Forget(s)
        /\ Teardown(s, read[s].order)
     \/ /\ stream[s] \in {"completed", "errored"}
        /\ Turn(s, "closed")
        /\ Forget(s)
        /\ UNCHANGED orderStreams
  /\ UNCHANGED <<lifecycleVars, faults, bus>>

-----------------------------------------------------------------------------
(* Wrong: the payload of the event lacks the order id.                     *)
PublishAnonymously(o) ==
  /\ Publish(o)
  /\ NoFault /\ Len(bus) < BusBound /\ bus' = Append(bus, NoOrder)
  /\ UNCHANGED <<read, stream, orderStreams, missed>>

(* publishStatusUpdated, as the gateway's subscriber meets it              *)
PublishToBus(o) ==
  /\ Publish(o)
  /\ \/ NoFault /\ Len(bus) < BusBound /\ bus' = Append(bus, o) /\ UNCHANGED missed
     \/ Fault("dropped") /\ UNCHANGED bus /\ missed' = missed \cup {o}
  /\ UNCHANGED <<read, stream, orderStreams>>

(* Wrong: the entry is deleted while its listeners are being called.       *)
BroadcastToOne ==
  LET o == Head(bus)
      listeners == IF Has(o) THEN orderStreams[o].listeners ELSE {}
  IN  /\ bus # << >>
      /\ bus' = Tail(bus)
      /\ stream' = IF listeners = {} THEN stream
                   ELSE [stream EXCEPT ![CHOOSE s \in listeners : TRUE] = "completed"]
      /\ orderStreams' = Drop(o)
      /\ UNCHANGED <<lifecycleVars, read, faults>>

(* The subscriber's message handler calls broadcast: every listener sends  *)
(* the event and completes its stream, which tears it down, and the entry  *)
(* is deleted.                                                             *)
Broadcast ==
  LET o == Head(bus)
      listeners == IF Has(o) THEN orderStreams[o].listeners ELSE {}
  IN  /\ bus # << >>
      /\ bus' = Tail(bus)
      /\ stream' = [s \in Streams |-> IF s \in listeners THEN "completed" ELSE stream[s]]
      /\ orderStreams' = Drop(o)
      /\ UNCHANGED <<lifecycleVars, read, faults>>

(* The gateway restarts: its connections and its Map are gone.             *)
GatewayRestart ==
  /\ Fault("crash")
  /\ stream' = [s \in Streams |-> "closed"]
  /\ read' = [s \in Streams |-> Idle]
  /\ orderStreams' = << >>
  /\ bus' = << >>
  /\ UNCHANGED lifecycleVars

WriteStep(o) == /\ Mark(o) \/ Unmark(o) \/ Accept(o) \/ Persist(o) \/ Clear(o)
                /\ UNCHANGED <<read, faults, eventVars>>

StreamStep(s) == \/ \E o \in OrderIds : Connect(s, o)
                 \/ ReadPending(s)
                 \/ Attach(s)
                 \/ AttachAbandoned(s)
                 \/ Disconnect(s)

StreamNext == \/ \E o \in OrderIds : PublishToBus(o)
              \/ /\ \/ \E o \in OrderIds : WriteStep(o)
                    \/ \E s \in Streams : StreamStep(s)
                    \/ Broadcast
                    \/ GatewayRestart
                 /\ UNCHANGED missed

StreamSpec == StreamInit /\ [][StreamNext]_streamVars

-----------------------------------------------------------------------------
ListenersTo(o) == {s \in Streams : stream[s] = "attached" /\ read[s].order = o}

(* However streams connect, vanish and complete, orderStreams is exact:    *)
(* an order has an entry when somebody listens to it, with all of them and *)
(* the right count, so none is missed and no entry leaks                   *)
(* (order-events.service.ts:82-106, 115-146).                              *)
RegistryExact ==
  \A o \in OrderIds :
    IF ListenersTo(o) = {} THEN ~Has(o)
    ELSE /\ Has(o)
         /\ orderStreams[o] = [observers |-> Cardinality(ListenersTo(o)),
                               listeners |-> ListenersTo(o)]

(* No stream tells a browser that an order is completed before its row is  *)
(* committed, and none ends in an error for an order that was accepted     *)
(* when it connected, unless that order is done or a read of its status    *)
(* failed (orders.service.ts:16-37, order-events.service.ts:73-130).       *)
StreamsTruthful ==
  \A s \in Streams :
    \/ stream[s] \notin {"completed", "errored"}
    \/ read[s].order \in rows
    \/ stream[s] = "errored" /\ (~read[s].known \/ read[s].at = "error")

(* The worker goes on with an accepted order, and the gateway's event loop *)
(* with its messages and answers.  Strong fairness of the publish makes up *)
(* for BusBound: Redis never keeps a publisher waiting.                    *)
StreamFairness ==
  /\ \A o \in OrderIds : /\ WF_streamVars((Persist(o) \/ Clear(o))
                                            /\ UNCHANGED <<read, faults, eventVars, missed>>)
                         /\ SF_streamVars(o \notin published /\ PublishToBus(o))
  /\ \A s \in Streams : WF_streamVars(/\ ReadPending(s) \/ Attach(s) \/ AttachAbandoned(s)
                                      /\ UNCHANGED missed)
  /\ WF_streamVars(Broadcast /\ UNCHANGED missed)

FairStreamSpec == StreamSpec /\ StreamFairness

WaitsFor(s, o) == stream[s] = "attached" /\ read[s].order = o

(* A stream that is registered before its order is announced is told, if   *)
(* the message is not dropped (order-events.service.ts:82-112, 115-130).   *)
AttachedInTimeIsTold ==
  \A s \in Streams, o \in OrderIds :
    (WaitsFor(s, o) /\ o \in accepted \ published) ~> (~WaitsFor(s, o) \/ o \in missed)

(* What the documents say: re-checking the status on connection makes up   *)
(* for an event missed before the subscription                             *)
(* (docs/adr/0010-redis-pub-sub-for-order-status-sse-fan-out.md:71-74).    *)
(* So no stream of an accepted order waits for ever.                       *)
NoStreamLeftWaiting ==
  \A s \in Streams, o \in OrderIds :
    (WaitsFor(s, o) /\ o \in accepted) ~> ~WaitsFor(s, o)
=============================================================================
