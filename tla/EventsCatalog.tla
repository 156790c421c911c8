--------------------------- MODULE EventsCatalog ----------------------------
(***************************************************************************)
(* The event catalog of the gateways: EventsBootstrapService, which fills  *)
(* the events table and the stock keys whenever a gateway starts, and what *)
(* EventsService reads back from both                                      *)
(* (apps/api-gateway/src/events).  Gateways start, die and start again     *)
(* while those that are ready sell tickets, and an operator may initialise *)
(* an event's tickets again with initTickets.                              *)
(***************************************************************************)
EXTENDS TicketInit

CONSTANTS Gateways,
          InitialInventory, \* of the DEFAULT_EVENTS, which are the Tickets
          MaxBooting,       \* how many gateways boot at a time
          NoEvent

ASSUME CatalogAssumption == /\ InitialInventory \in [Tickets -> Nat \ {0}]
                            /\ MaxBooting \in Nat \ {0}
                            /\ NoEvent \notin Tickets

VARIABLES
  events,       \* the rows of the events table
  boot,         \* where each gateway stands in onModuleInit
  unseeded,     \* the events its loop has not come to yet
  seeding,      \* the event whose stock key it has found missing
  overlap       \* history: two have given out stock at a time, or one twice

bootVars == <<boot, unseeded, seeding>>
catalogVars == <<redisVars, faults, events, bootVars, initVars, overlap>>

(* The events that every gateway brings along; all tickets are of one.     *)
DefaultEvents == Tickets

Booting == {"count", "select", "insert", "find", "seed"}

(* The types; in particular no stock is ever sold below zero.              *)
CatalogTypeOK == /\ RedisTypeOK
                 /\ InitTypeOK
                 /\ events \in SUBSET Tickets
                 /\ boot \in [Gateways -> Booting \cup {"down", "ready"}]
                 /\ unseeded \in [Gateways -> SUBSET Tickets]
                 /\ seeding \in [Gateways -> Tickets \cup {NoEvent}]
                 /\ overlap \in BOOLEAN

CatalogInit == /\ RedisInit
               /\ faults = 0
               /\ NoInitCalls
               /\ capacity = InitialInventory
               /\ events = {}
               /\ boot = [g \in Gateways |-> "down"]
               /\ unseeded = [g \in Gateways |-> {}]
               /\ seeding = [g \in Gateways |-> NoEvent]
               /\ overlap = FALSE

-----------------------------------------------------------------------------
Enter(g, state) == /\ boot' = [boot EXCEPT ![g] = state]
                   /\ UNCHANGED <<unseeded, seeding>>

(* A gateway that does not start, or dies; what it had read is gone.       *)
GoDown(g) == /\ boot' = [boot EXCEPT ![g] = "down"]
             /\ unseeded' = [unseeded EXCEPT ![g] = {}]
             /\ seeding' = [seeding EXCEPT ![g] = NoEvent]

BootingGateways == {g \in Gateways : boot[g] \in Booting}

Start(g) ==
  /\ boot[g] = "down"
  /\ Cardinality(BootingGateways) < MaxBooting
  /\ Enter(g, "count")
  /\ overlap' = (overlap \/ BootingGateways # {} \/ Initialising # {})
  /\ UNCHANGED <<redisVars, faults, events, initVars>>

(* Wrong: a gateway that finds a catalog leaves the stock keys alone too.  *)
CountAndSkip(g) ==
  /\ boot[g] = "count"
  /\ NoFault
  /\ Enter(g, IF events = {} THEN "select" ELSE "ready")
  /\ UNCHANGED <<redisVars, events>>

(* eventRepository.count()                                                 *)
Count(g) ==
  /\ boot[g] = "count"
  /\ \/ NoFault /\ Enter(g, IF events = {} THEN "select" ELSE "find")
     \/ Fault("refused") /\ GoDown(g)
  /\ UNCHANGED <<redisVars, events>>

(* save(demoEntities): a transaction that selects the rows there are, ...  *)
Select(g) ==
  /\ boot[g] = "select"
  /\ \/ NoFault /\ Enter(g, IF events = {} THEN "insert" ELSE "find")
     \/ Fault("refused") /\ GoDown(g)
  /\ UNCHANGED <<redisVars, events>>

(* ... and inserts the others.  When another gateway was faster, the       *)
(* primary key rejects them and the gateway does not start.                *)
Insert(g) ==
  /\ boot[g] = "insert"
  /\ \/ events = {} /\ NoFault /\ events' = DefaultEvents /\ Enter(g, "find")
     \/ events = {} /\ Fault("lost") /\ events' = DefaultEvents /\ GoDown(g)
     \/ events # {} /\ NoFault /\ UNCHANGED events /\ GoDown(g)
     \/ Fault("refused") /\ UNCHANGED events /\ GoDown(g)
  /\ UNCHANGED redisVars

(* eventRepository.find()                                                  *)
Find(g) ==
  /\ boot[g] = "find"
  /\ \/ /\ NoFault
        /\ boot' = [boot EXCEPT ![g] = "seed"]
        /\ unseeded' = [unseeded EXCEPT ![g] = events]
        /\ UNCHANGED seeding
     \/ Fault("refused") /\ GoDown(g)
  /\ UNCHANGED <<redisVars, events>>

(* Wrong: ensureTicketStock rejects when the key exists.                   *)
ExistsRejecting(g, t) ==
  /\ boot[g] = "seed" /\ seeding[g] = NoEvent
  /\ t \in unseeded[g]
  /\ NoFault
  /\ \/ /\ stock[t] = NoKey
        /\ seeding' = [seeding EXCEPT ![g] = t]
        /\ unseeded' = [unseeded EXCEPT ![g] = @ \ {t}]
        /\ UNCHANGED boot
     \/ stock[t] # NoKey /\ GoDown(g)
  /\ UNCHANGED <<redisVars, events>>

(* ensureTicketStock: EXISTS, and a SET of its own if there is no key.     *)
Exists(g, t) ==
  /\ boot[g] = "seed" /\ seeding[g] = NoEvent
  /\ t \in unseeded[g]
  /\ \/ /\ NoFault
        /\ seeding' = [seeding EXCEPT ![g] = IF stock[t] = NoKey THEN t ELSE NoEvent]
        /\ unseeded' = [unseeded EXCEPT ![g] = @ \ {t}]
        /\ UNCHANGED boot
     \/ Fault("refused") /\ GoDown(g)
  /\ UNCHANGED <<redisVars, events>>

SeedKey(t) == /\ stock' = [stock EXCEPT ![t] = InitialInventory[t]]
              /\ capacity' = [capacity EXCEPT ![t] = InitialInventory[t]]

(* A SET that the client sends again runs a second time later.             *)
SetStock(g, t) ==
  /\ boot[g] = "seed" /\ seeding[g] = t
  /\ \/ /\ NoFault
        /\ SeedKey(t)
        /\ seeding' = [seeding EXCEPT ![g] = NoEvent]
        /\ UNCHANGED <<boot, unseeded, overlap>>
     \/ /\ Fault("resentStock")
        /\ SeedKey(t)
        /\ overlap' = TRUE
        /\ UNCHANGED bootVars
     \/ Fault("lost") /\ SeedKey(t) /\ GoDown(g) /\ UNCHANGED overlap
     \/ Fault("refused") /\ GoDown(g) /\ UNCHANGED <<stock, capacity, overlap>>
  /\ UNCHANGED <<buyers, pending, events, initCall, initBody>>

(* onModuleInit is done, and the gateway listens.                          *)
Listen(g) ==
  /\ boot[g] = "seed" /\ seeding[g] = NoEvent /\ unseeded[g] = {}
  /\ Enter(g, "ready")
  /\ UNCHANGED <<redisVars, faults, events>>

Crash(g) == /\ boot[g] # "down"
            /\ Fault("crash")
            /\ GoDown(g)
            /\ UNCHANGED <<redisVars, events>>

(* A gateway that is ready reserves a seat, or gives it back (see          *)
(* TicketsService).                                                        *)
Sell(t, e) ==
  /\ \E g \in Gateways : boot[g] = "ready"
  /\ \/ BuyTicket(t, e, "reserved")
     \/ e \in buyers[t] /\ ReleaseTicketReservation(t, e)
  /\ UNCHANGED <<pending, faults, events, bootVars>>

(* A call of initTickets in a gateway that is ready.                       *)
Initialise(c) ==
  /\ initCall[c] = "idle" => \E g \in Gateways : boot[g] = "ready"
  /\ InitTickets(c)
  /\ overlap' = (\/ overlap
                 \/ BootingGateways # {} \/ Initialising \ {c} # {}
                 \/ initCall'[c] = "setAgain")
  /\ UNCHANGED <<events, bootVars>>

BootStep(g) == \/ /\ \/ Count(g)
                     \/ Select(g)
                     \/ Insert(g)
                     \/ Find(g)
                     \/ \E t \in Tickets : Exists(g, t)
                     \/ Listen(g)
                  /\ UNCHANGED <<initVars, overlap>>
               \/ \E t \in Tickets : SetStock(g, t)

CatalogNext == \/ \E g \in Gateways : Start(g)
               \/ \E g \in Gateways : BootStep(g)
               \/ /\ \/ \E g \in Gateways : Crash(g)
                     \/ \E t \in Tickets, e \in Emails : Sell(t, e)
                  /\ UNCHANGED <<initVars, overlap>>
               \/ \E c \in InitCalls : Initialise(c)

CatalogSpec == CatalogInit /\ [][CatalogNext]_catalogVars

-----------------------------------------------------------------------------
(* Wrong: "||" for "??", which takes an inventory of 0 for a missing one.  *)
RemainingInventoryIfAny(t) ==
  IF stock[t] \in {NoKey, 0} THEN InitialInventory[t] ELSE stock[t]

(* EventsService.getRemainingInventory                                     *)
RemainingInventory(t) == IF stock[t] = NoKey THEN InitialInventory[t] ELSE stock[t]

(* A ticket whose keys initTickets has deleted and not set again, yet or   *)
(* ever: nobody can buy it, but it is shown as if it had not been sold.    *)
Torn(t) == /\ stock[t] = NoKey
           /\ \E c \in InitCalls : /\ initCall[c] \in {"set", "failed"}
                                  /\ initBody[c].ticketId = t

(* Customers are always shown the seats that are really left: also those   *)
(* of an event whose stock key is not there yet or was set again, whatever *)
(* gateways crash and start again, as long as no two have ever been giving *)
(* out stock at a time, in a start or in initTickets, and no SET of theirs *)
(* was sent twice (events.service.ts:57-60, redis.service.ts:127-134).     *)
InventoryShownIsTrue ==
  ~overlap => \A t \in events : ~Torn(t) =>
    RemainingInventory(t) + Cardinality(buyers[t]) = capacity[t]

(* A gateway only listens when every event has a row and its stock, even   *)
(* if an earlier start died between the two                                *)
(* (events.bootstrap.service.ts:17-42).                                    *)
ReadyIsStocked ==
  \A g \in Gateways : boot[g] = "ready" =>
    /\ events = DefaultEvents
    /\ \A t \in DefaultEvents : stock[t] # NoKey \/ Torn(t)

(* The start of a gateway mends what a call of initTickets that died has   *)
(* torn: when it is over every ticket can be bought again, unless two have *)
(* been giving out stock at a time, or a SET was sent twice                *)
(* (events.bootstrap.service.ts:38-42).                                    *)
StartRestocks ==
  [][\A g \in Gateways : (boot[g] # "ready" /\ boot'[g] = "ready" /\ ~overlap) =>
       \A t \in DefaultEvents : stock[t] # NoKey]_catalogVars

(* What the documents say: stock is only seeded when it is missing, and    *)
(* an existing stock key is never overwritten during catalog bootstrap     *)
(* (docs/adr/0011-event-catalog-read-model-for-frontend-selection.md:80).  *)
StockNeverOverwritten ==
  [][\A t \in Tickets : (bootVars' # bootVars /\ stock[t] # NoKey) => stock'[t] = stock[t]]_catalogVars

-----------------------------------------------------------------------------
(* Kubernetes starts what is down, and a gateway goes on with its start.   *)
CatalogFairness == \A g \in Gateways : /\ WF_catalogVars(Start(g))
                                       /\ WF_catalogVars(BootStep(g))

FairCatalogSpec == CatalogSpec /\ CatalogFairness

(* Gateways that start together get in each other's way at most for a      *)
(* time: in the end all of them listen (events.bootstrap.service.ts:17-43).*)
EveryGatewayListens == \A g \in Gateways : <>[](boot[g] = "ready")
=============================================================================
