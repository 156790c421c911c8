------------------------ MODULE EventsCatalog_proofs ------------------------
(***************************************************************************)
(* The event catalog, for every number of gateways and events, and         *)
(* whatever fails: a gateway that listens has its catalog; and, as long as *)
(* no two give out stock at a time and no SET is sent twice, a start mends *)
(* what a failed initTickets has torn, and the inventory shown is the one  *)
(* there is.                                                               *)
(***************************************************************************)
EXTENDS EventsCatalog, TLAPS, FiniteSetTheorems

(* The events table is empty or full, and full from the insert on.         *)
EventsInv ==
  /\ events = {} \/ events = DefaultEvents
  /\ \A g \in Gateways : boot[g] \in {"find", "seed", "ready"} => events = DefaultEvents

(* A ticket without a stock key has no buyers; and, unless it is torn, it  *)
(* was never given any stock, so its capacity is still its initial one.    *)
KeyInv ==
  \A t \in Tickets :
    /\ IsFiniteSet(buyers[t])
    /\ stock[t] = NoKey => buyers[t] = {}
    /\ stock[t] = NoKey /\ ~Torn(t) => capacity[t] = InitialInventory[t]

Stocked(t) == stock[t] # NoKey \/ Torn(t)

(* What a start has done with the events it no longer has to come to.      *)
SeedInv ==
  \A g \in Gateways :
    /\ seeding[g] # NoEvent => boot[g] = "seed"
    /\ boot[g] = "seed" =>
         \A t \in Tickets : t \in unseeded[g] \/ seeding[g] = t \/ Stocked(t)
    /\ boot[g] = "ready" => \A t \in Tickets : Stocked(t)

(* While nobody has been in another's way, nor has set a key twice: at     *)
(* most one gives out stock, which it has found missing or has deleted     *)
(* itself, and no seat is sold or shown twice.                             *)
AloneInv ==
  /\ \A g, h \in BootingGateways : g = h
  /\ \A c, d \in Initialising : c = d
  /\ BootingGateways = {} \/ Initialising = {}
  /\ \A g \in Gateways, t \in Tickets :
       /\ boot[g] = "seed" => t \in unseeded[g] \/ seeding[g] = t \/ stock[t] # NoKey
       /\ seeding[g] = t => stock[t] = NoKey
  /\ \A c \in InitCalls : /\ initCall[c] # "setAgain"
                          /\ initCall[c] = "set" => stock[initBody[c].ticketId] = NoKey
  /\ \A t \in Tickets : stock[t] # NoKey => stock[t] + Cardinality(buyers[t]) = capacity[t]

CatalogInv ==
  CatalogTypeOK /\ EventsInv /\ KeyInv /\ SeedInv /\ (~overlap => AloneInv)

(* What the runs check follows.                                            *)
LEMMA ShownIsTrue == CatalogInv => InventoryShownIsTrue
<1> SUFFICES ASSUME CatalogInv, ~overlap, NEW t \in events, ~Torn(t)
             PROVE  RemainingInventory(t) + Cardinality(buyers[t]) = capacity[t]
  BY DEF InventoryShownIsTrue
<1>1. t \in Tickets /\ KeyInv /\ AloneInv
  BY DEF CatalogInv, CatalogTypeOK
<1>2. CASE stock[t] = NoKey
  <2>1. buyers[t] = {} /\ capacity[t] = InitialInventory[t]
    BY <1>1, <1>2 DEF KeyInv
  <2> QED  BY <1>1, <1>2, <2>1, FS_EmptySet, CatalogAssumption DEF RemainingInventory
<1>3. CASE stock[t] # NoKey
  BY <1>1, <1>3 DEF AloneInv, RemainingInventory
<1> QED  BY <1>2, <1>3

LEMMA ListensWithStock == CatalogInv => ReadyIsStocked
  BY DEF CatalogInv, EventsInv, SeedInv, Stocked, ReadyIsStocked, DefaultEvents

-----------------------------------------------------------------------------
(* The steps of a start *)

(* A gateway's start goes on from one command to the next, without         *)
(* touching a key: what has to hold of where it stands then.               *)
LEMMA BootKeeps ==
  ASSUME CatalogInv, NEW g \in Gateways,
         NEW state \in Booting \cup {"down", "ready"},
         NEW left \in SUBSET Tickets, NEW found \in Tickets \cup {NoEvent},
         boot' = [boot EXCEPT ![g] = state],
         unseeded' = [unseeded EXCEPT ![g] = left],
         seeding' = [seeding EXCEPT ![g] = found],
         UNCHANGED <<redisVars, initVars>>,
         events' = events \/ events' = DefaultEvents,
         state \in {"find", "seed", "ready"} => events' = DefaultEvents,
         found # NoEvent => state = "seed" /\ stock[found] = NoKey,
         state = "seed" => \A t \in Tickets : t \in left \/ found = t \/ Stocked(t),
         state = "seed" /\ ~overlap =>
           \A t \in Tickets : t \in left \/ found = t \/ stock[t] # NoKey,
         state = "ready" => \A t \in Tickets : Stocked(t),
         overlap' \in BOOLEAN, overlap => overlap',
         state \in Booting /\ boot[g] \notin Booting =>
           overlap' \/ (BootingGateways = {} /\ Initialising = {})
  PROVE  CatalogInv'
<1>1. /\ boot' \in [Gateways -> Booting \cup {"down", "ready"}]
      /\ unseeded' \in [Gateways -> SUBSET Tickets]
      /\ seeding' \in [Gateways -> Tickets \cup {NoEvent}]
      /\ boot'[g] = state /\ unseeded'[g] = left /\ seeding'[g] = found
      /\ \A h \in Gateways \ {g} :
           boot'[h] = boot[h] /\ unseeded'[h] = unseeded[h] /\ seeding'[h] = seeding[h]
  BY DEF CatalogInv, CatalogTypeOK
<1>2. UNCHANGED <<stock, buyers, pending, initCall, initBody, capacity>>
  BY DEF redisVars, initVars
<1>3. /\ \A t \in Tickets : Torn(t)' <=> Torn(t)
      /\ \A t \in Tickets : Stocked(t)' <=> Stocked(t)
  BY <1>2 DEF Torn, Stocked
<1>4. CatalogTypeOK'
  BY <1>1, <1>2 DEF CatalogInv, CatalogTypeOK, RedisTypeOK, InitTypeOK, DefaultEvents
<1>5. EventsInv'
  BY <1>1 DEF CatalogInv, EventsInv, DefaultEvents
<1>6. KeyInv'
  BY <1>2, <1>3 DEF CatalogInv, KeyInv
<1>7. SeedInv'
  BY <1>1, <1>3 DEF CatalogInv, SeedInv
<1>8. ASSUME ~overlap' PROVE AloneInv'
  <2>1. AloneInv /\ ~overlap
    BY <1>8 DEF CatalogInv
  <2>2. \A h \in BootingGateways' : h = g \/ h \in BootingGateways
    BY <1>1 DEF BootingGateways
  <2>3. g \in BootingGateways' =>
          g \in BootingGateways \/ (BootingGateways = {} /\ Initialising = {})
    BY <1>1, <1>8 DEF BootingGateways
  <2>4. /\ \A h, k \in BootingGateways' : h = k
        /\ BootingGateways' = {} \/ Initialising = {}
    BY <2>1, <2>2, <2>3 DEF AloneInv
  <2>5. Initialising' = Initialising
    BY <1>2 DEF Initialising
  <2>6. \A h \in Gateways, t \in Tickets :
          /\ boot'[h] = "seed" => t \in unseeded'[h] \/ seeding'[h] = t \/ stock[t] # NoKey
          /\ seeding'[h] = t => stock[t] = NoKey
    BY <1>1, <2>1, CatalogAssumption DEF AloneInv
  <2> QED  BY <1>2, <2>1, <2>4, <2>5, <2>6 DEF AloneInv
<1> QED  BY <1>4, <1>5, <1>6, <1>7, <1>8 DEF CatalogInv

(* Most steps only enter the next state.                                   *)
LEMMA EnterKeeps ==
  ASSUME CatalogInv, NEW g \in Gateways,
         NEW state \in {"count", "select", "insert", "find", "ready"},
         Enter(g, state), seeding[g] = NoEvent,
         UNCHANGED <<redisVars, initVars>>,
         events' = events \/ events' = DefaultEvents,
         state \in {"find", "ready"} => events' = DefaultEvents,
         state = "ready" => \A t \in Tickets : Stocked(t),
         overlap' \in BOOLEAN, overlap => overlap',
         boot[g] \notin Booting =>
           overlap' \/ (BootingGateways = {} /\ Initialising = {})
  PROVE  CatalogInv'
<1> DEFINE left == unseeded[g]
<1>1. /\ boot' = [boot EXCEPT ![g] = state]
      /\ unseeded' = [unseeded EXCEPT ![g] = left]
      /\ seeding' = [seeding EXCEPT ![g] = NoEvent]
      /\ left \in SUBSET Tickets
  BY DEF CatalogInv, CatalogTypeOK, Enter
<1> HIDE DEF left
<1>2. state \in Booting \cup {"down", "ready"} /\ state # "seed"
  BY DEF Booting
<1> QED  BY <1>1, <1>2, BootKeeps

(* Whoever goes down leaves what others rest on as it is.                  *)
LEMMA DownKeeps ==
  ASSUME CatalogInv, NEW g \in Gateways, GoDown(g),
         UNCHANGED <<redisVars, initVars, overlap>>,
         events' = events \/ events' = DefaultEvents
  PROVE  CatalogInv'
<1>1. /\ boot' = [boot EXCEPT ![g] = "down"]
      /\ unseeded' = [unseeded EXCEPT ![g] = {}]
      /\ seeding' = [seeding EXCEPT ![g] = NoEvent]
  BY DEF GoDown
<1>2. /\ overlap' \in BOOLEAN /\ (overlap => overlap')
      /\ "down" \notin Booting
  BY DEF CatalogInv, CatalogTypeOK, Booting
<1> QED  BY <1>1, <1>2, BootKeeps

LEMMA StartKeeps ==
  ASSUME CatalogInv, NEW g \in Gateways, Start(g)
  PROVE  CatalogInv'
<1>1. /\ boot[g] = "down" /\ Enter(g, "count")
      /\ overlap' = (overlap \/ BootingGateways # {} \/ Initialising # {})
      /\ UNCHANGED <<redisVars, initVars, events>>
  BY DEF Start
<1>2. seeding[g] = NoEvent /\ overlap' \in BOOLEAN
  BY <1>1 DEF CatalogInv, CatalogTypeOK, SeedInv
<1>3. overlap => overlap'
  BY <1>1
<1> QED  BY <1>1, <1>2, <1>3, EnterKeeps

(* The steps before the loop                                               *)
LEMMA CatalogStepKeeps ==
  ASSUME CatalogInv, NEW g \in Gateways, Count(g) \/ Select(g) \/ Insert(g) \/ Find(g),
         UNCHANGED <<initVars, overlap>>
  PROVE  CatalogInv'
<1>1. /\ boot[g] \in Booting /\ boot[g] # "seed" /\ UNCHANGED redisVars
      /\ seeding[g] = NoEvent
  BY DEF Count, Select, Insert, Find, Booting, CatalogInv, SeedInv
<1>2. events = {} \/ events = DefaultEvents
  BY DEF CatalogInv, EventsInv
<1>3. overlap' \in BOOLEAN /\ (overlap => overlap')
  BY DEF CatalogInv, CatalogTypeOK
<1>4. CASE GoDown(g)
  <2>1. events' = events \/ events' = DefaultEvents
    BY DEF Count, Select, Insert, Find
  <2> QED  BY <1>1, <1>4, <2>1, DownKeeps
<1>5. ASSUME NEW state \in {"select", "insert", "find"}, Enter(g, state),
             events' = events \/ events' = DefaultEvents,
             state = "find" => events' = DefaultEvents
      PROVE  CatalogInv'
  BY <1>1, <1>3, <1>5, EnterKeeps
<1>6. CASE boot' = [boot EXCEPT ![g] = "seed"]
             /\ unseeded' = [unseeded EXCEPT ![g] = events] /\ UNCHANGED <<seeding, events>>
             /\ boot[g] = "find"
  <2>1. events = Tickets /\ events \in SUBSET Tickets
    BY <1>6 DEF CatalogInv, EventsInv, DefaultEvents
  <2>2. seeding' = [seeding EXCEPT ![g] = NoEvent]
    BY <1>1, <1>6 DEF CatalogInv, CatalogTypeOK
  <2>3. "seed" \in Booting
    BY DEF Booting
  <2> QED  BY <1>1, <1>3, <1>6, <2>1, <2>2, <2>3, BootKeeps DEF DefaultEvents
<1>7. CASE Count(g) /\ ~GoDown(g)
  BY <1>2, <1>5, <1>7 DEF Count
<1>8. CASE Select(g) /\ ~GoDown(g)
  BY <1>2, <1>5, <1>8 DEF Select
<1>9. CASE Insert(g) /\ ~GoDown(g)
  BY <1>2, <1>5, <1>9 DEF Insert
<1>10. CASE Find(g) /\ ~GoDown(g)
  BY <1>6, <1>10 DEF Find
<1> QED  BY <1>4, <1>7, <1>8, <1>9, <1>10

(* The loop, as far as it changes no key                                   *)
LEMMA LoopKeeps ==
  ASSUME CatalogInv, NEW g \in Gateways, (\E t \in Tickets : Exists(g, t)) \/ Listen(g),
         UNCHANGED <<initVars, overlap>>
  PROVE  CatalogInv'
<1>1. /\ boot[g] = "seed" /\ seeding[g] = NoEvent
      /\ UNCHANGED <<redisVars, events>>
      /\ events = DefaultEvents
      /\ \A t \in Tickets : t \in unseeded[g] \/ Stocked(t)
      /\ ~overlap => \A t \in Tickets : t \in unseeded[g] \/ stock[t] # NoKey
  BY CatalogAssumption DEF Exists, Listen, CatalogInv, EventsInv, SeedInv, AloneInv
<1>2. /\ overlap' \in BOOLEAN /\ (overlap => overlap')
      /\ "seed" \in Booting /\ "ready" \notin Booting
  BY DEF CatalogInv, CatalogTypeOK, Booting
<1>3. CASE Listen(g)
  <2>1. unseeded[g] = {} /\ Enter(g, "ready")
    BY <1>3 DEF Listen
  <2> QED  BY <1>1, <1>2, <2>1, EnterKeeps
<1>4. CASE GoDown(g)
  BY <1>1, <1>4, DownKeeps
<1>5. ASSUME NEW t \in Tickets, Exists(g, t), ~GoDown(g)
      PROVE  CatalogInv'
  <2> DEFINE found == IF stock[t] = NoKey THEN t ELSE NoEvent
             left == unseeded[g] \ {t}
  <2>1. /\ boot' = [boot EXCEPT ![g] = "seed"]
        /\ unseeded' = [unseeded EXCEPT ![g] = left]
        /\ seeding' = [seeding EXCEPT ![g] = found]
        /\ left \in SUBSET Tickets
    BY <1>1, <1>5 DEF Exists, CatalogInv, CatalogTypeOK
  <2>2. /\ found \in Tickets \cup {NoEvent}
        /\ found # NoEvent => stock[found] = NoKey
        /\ found = t \/ stock[t] # NoKey
    OBVIOUS
  <2>3. /\ \A u \in Tickets : u \in left \/ found = u \/ Stocked(u)
        /\ ~overlap => \A u \in Tickets : u \in left \/ found = u \/ stock[u] # NoKey
    BY <1>1, <2>2 DEF Stocked
  <2> HIDE DEF found, left
  <2> QED  BY <1>1, <1>2, <2>1, <2>2, <2>3, BootKeeps
<1> QED  BY <1>3, <1>4, <1>5

(* Under ~overlap the key that is set is still missing, so nobody has      *)
(* bought from it.                                                         *)
LEMMA SetStockKeeps ==
  ASSUME CatalogInv, NEW g \in Gateways, NEW t \in Tickets, SetStock(g, t)
  PROVE  CatalogInv'
<1>1. /\ CatalogTypeOK /\ EventsInv /\ KeyInv /\ SeedInv
      /\ boot[g] = "seed" /\ seeding[g] = t /\ t # NoEvent
      /\ UNCHANGED <<buyers, pending, events, initCall, initBody>>
      /\ overlap' = overlap \/ overlap' = TRUE
  BY CatalogAssumption DEF CatalogInv, SetStock
<1>2. InitialInventory[t] \in Nat \ {0} /\ InitialInventory[t] # NoKey
  BY CatalogAssumption, NoKeyAssumption
<1>3. /\ SeedKey(t) \/ UNCHANGED <<stock, capacity>>
      /\ \/ /\ SeedKey(t) /\ UNCHANGED <<boot, unseeded>>
            /\ seeding' = [seeding EXCEPT ![g] = NoEvent]
         \/ SeedKey(t) /\ overlap' /\ UNCHANGED <<boot, unseeded, seeding>>
         \/ GoDown(g)
  BY DEF SetStock, bootVars
<1>4. /\ stock' \in [Tickets -> Nat \cup {NoKey}] /\ capacity' \in [Tickets -> Nat]
      /\ \A u \in Tickets \ {t} : stock'[u] = stock[u] /\ capacity'[u] = capacity[u]
      /\ \/ stock'[t] = InitialInventory[t] /\ capacity'[t] = InitialInventory[t]
         \/ GoDown(g) /\ stock'[t] = stock[t] /\ capacity'[t] = capacity[t]
  BY <1>1, <1>2, <1>3 DEF CatalogTypeOK, RedisTypeOK, InitTypeOK, SeedKey
<1>5. /\ boot' \in [Gateways -> Booting \cup {"down", "ready"}]
      /\ unseeded' \in [Gateways -> SUBSET Tickets]
      /\ seeding' \in [Gateways -> Tickets \cup {NoEvent}]
      /\ seeding'[g] = NoEvent \/ (overlap' /\ seeding'[g] = t /\ boot'[g] = "seed")
      /\ \/ boot'[g] = "seed" /\ unseeded'[g] = unseeded[g] /\ stock'[t] # NoKey
         \/ boot'[g] = "down"
      /\ \A h \in Gateways \ {g} :
           boot'[h] = boot[h] /\ unseeded'[h] = unseeded[h] /\ seeding'[h] = seeding[h]
  <2>1. SeedKey(t) => stock'[t] # NoKey
    BY <1>1, <1>2 DEF CatalogTypeOK, RedisTypeOK, SeedKey
  <2> QED  BY <1>1, <1>3, <2>1 DEF CatalogTypeOK, GoDown
<1>6. /\ \A u \in Tickets : Stocked(u) => Stocked(u)'
      /\ stock'[t] # NoKey => Stocked(t)'
      /\ \A u \in Tickets : stock'[u] = NoKey =>
           /\ stock[u] = NoKey /\ capacity'[u] = capacity[u]
           /\ Torn(u)' <=> Torn(u)
  BY <1>1, <1>2, <1>4 DEF Stocked, Torn
<1>7. CatalogTypeOK'
  BY <1>1, <1>4, <1>5 DEF CatalogTypeOK, RedisTypeOK, InitTypeOK, InitStates
<1>8. EventsInv'
  BY <1>1, <1>5 DEF EventsInv
<1>9. KeyInv'
  BY <1>1, <1>6 DEF KeyInv
<1>10. SeedInv'
  BY <1>1, <1>5, <1>6 DEF SeedInv
<1>11. ASSUME ~overlap' PROVE AloneInv'
  <2>1. AloneInv /\ seeding'[g] = NoEvent /\ stock[t] = NoKey /\ buyers[t] = {}
    BY <1>1, <1>5, <1>11 DEF CatalogInv, AloneInv, KeyInv
  <2>2. /\ BootingGateways' \subseteq BootingGateways /\ g \in BootingGateways
        /\ Initialising' = Initialising /\ Initialising = {}
    <3>1. g \in BootingGateways /\ Initialising' = Initialising
      BY <1>1 DEF BootingGateways, Booting, Initialising
    <3>2. BootingGateways' \subseteq BootingGateways
      BY <1>1, <1>5, <3>1 DEF BootingGateways
    <3> QED  BY <2>1, <3>1, <3>2 DEF AloneInv
  <2>3. \A h \in Gateways \ {g} : boot[h] # "seed" /\ seeding[h] = NoEvent
    BY <1>1, <2>1, <2>2 DEF AloneInv, BootingGateways, Booting, SeedInv
  <2>4. \A h \in Gateways, u \in Tickets :
          /\ boot'[h] = "seed" => u \in unseeded'[h] \/ seeding'[h] = u \/ stock'[u] # NoKey
          /\ seeding'[h] = u => stock'[u] = NoKey
    BY <1>1, <1>2, <1>4, <1>5, <2>1, <2>3, CatalogAssumption DEF AloneInv
  <2>5. \A u \in Tickets : stock'[u] # NoKey => stock'[u] + Cardinality(buyers'[u]) = capacity'[u]
    <3>1. \A u \in Tickets \ {t} : /\ stock'[u] = stock[u] /\ buyers'[u] = buyers[u]
                                  /\ capacity'[u] = capacity[u]
      BY <1>1, <1>4
    <3>2. \A u \in Tickets \ {t} :
            stock'[u] # NoKey => stock'[u] + Cardinality(buyers'[u]) = capacity'[u]
      BY <2>1, <3>1 DEF AloneInv
    <3>3. Cardinality(buyers'[t]) = 0
      BY <1>1, <2>1, FS_EmptySet
    <3>4. stock'[t] # NoKey => stock'[t] = capacity'[t] /\ capacity'[t] \in Nat
      BY <1>2, <1>4, <2>1
    <3>5. stock'[t] # NoKey => stock'[t] + Cardinality(buyers'[t]) = capacity'[t]
      <4> HIDE <1>1, <1>2, <1>4, <2>1
      <4> QED  BY <3>3, <3>4
    <3> QED  BY <3>2, <3>5
  <2>6. \A c \in InitCalls : initCall'[c] \notin {"set", "setAgain"}
    BY <1>1, <2>2 DEF Initialising
  <2>7. (\A h, k \in BootingGateways' : h = k) /\ Initialising' = {}
    BY <2>1, <2>2 DEF AloneInv
  <2> QED  BY <2>4, <2>5, <2>6, <2>7 DEF AloneInv
<1> QED  BY <1>7, <1>8, <1>9, <1>10, <1>11 DEF CatalogInv

-----------------------------------------------------------------------------
(* The steps of customers and of initTickets *)

(* A step that changes the keys only, and leaves every ticket stocked that *)
(* was, is none of the gateways' business.                                 *)
LEMMA KeysKeep ==
  ASSUME CatalogInv, UNCHANGED <<events, boot, unseeded, seeding>>,
         RedisTypeOK', InitTypeOK', KeyInv',
         overlap' \in BOOLEAN, ~overlap' => AloneInv',
         \A t \in Tickets : Stocked(t) => Stocked(t)'
  PROVE  CatalogInv'
<1>1. CatalogTypeOK' /\ EventsInv'
  BY DEF CatalogInv, CatalogTypeOK, EventsInv
<1>2. SeedInv'
  BY DEF CatalogInv, SeedInv
<1> QED  BY <1>1, <1>2 DEF CatalogInv

(* A seat that is reserved, or given back, changes its owner only.         *)
LEMMA SellKeeps ==
  ASSUME CatalogInv, NEW t \in Tickets, NEW e \in Emails, Sell(t, e),
         UNCHANGED <<initVars, overlap>>
  PROVE  CatalogInv'
<1>1. /\ CatalogTypeOK /\ KeyInv /\ RedisTypeOK /\ InitTypeOK
      /\ UNCHANGED <<pending, events, boot, unseeded, seeding, initCall, initBody, capacity, overlap>>
  BY DEF CatalogInv, CatalogTypeOK, Sell, bootVars, initVars
<1>2. /\ stock[t] # NoKey /\ stock[t] \in Nat
      /\ \/ /\ stock[t] > 0 /\ e \notin buyers[t]
            /\ stock' = [stock EXCEPT ![t] = stock[t] - 1]
            /\ buyers' = [buyers EXCEPT ![t] = buyers[t] \cup {e}]
         \/ /\ e \in buyers[t]
            /\ stock' = [stock EXCEPT ![t] = stock[t] + 1]
            /\ buyers' = [buyers EXCEPT ![t] = buyers[t] \ {e}]
  <2>1. CASE BuyTicket(t, e, "reserved")
    BY <1>1, <2>1, NoKeyAssumption DEF BuyTicket, CurrentStock, RedisTypeOK
  <2>2. CASE e \in buyers[t] /\ ReleaseTicketReservation(t, e)
    <3>1. stock[t] # NoKey
      BY <1>1, <2>2 DEF KeyInv
    <3> QED  BY <1>1, <2>2, <3>1 DEF ReleaseTicketReservation, CurrentStock, RedisTypeOK
  <2> QED  BY <2>1, <2>2 DEF Sell
<1>3. /\ stock' \in [Tickets -> Nat \cup {NoKey}] /\ buyers' \in [Tickets -> SUBSET Emails]
      /\ \A u \in Tickets \ {t} : stock'[u] = stock[u] /\ buyers'[u] = buyers[u]
      /\ stock'[t] \in Nat /\ stock'[t] # NoKey
  BY <1>1, <1>2, NoKeyAssumption DEF RedisTypeOK
<1>4. /\ IsFiniteSet(buyers'[t])
      /\ stock'[t] + Cardinality(buyers'[t]) = stock[t] + Cardinality(buyers[t])
  <2>1. IsFiniteSet(buyers[t]) /\ Cardinality(buyers[t]) \in Nat
    BY <1>1, FS_CardinalityType DEF KeyInv
  <2>2. CASE e \notin buyers[t] /\ stock' = [stock EXCEPT ![t] = stock[t] - 1]
             /\ buyers' = [buyers EXCEPT ![t] = buyers[t] \cup {e}]
    <3>1. /\ buyers'[t] = buyers[t] \cup {e} /\ stock'[t] = stock[t] - 1
      BY <1>1, <2>2 DEF RedisTypeOK
    <3>2. /\ IsFiniteSet(buyers[t] \cup {e})
          /\ Cardinality(buyers[t] \cup {e}) = Cardinality(buyers[t]) + 1
      BY <2>1, <2>2, FS_AddElement
    <3> QED  BY <1>2, <2>1, <3>1, <3>2
  <2>3. CASE e \in buyers[t] /\ stock' = [stock EXCEPT ![t] = stock[t] + 1]
             /\ buyers' = [buyers EXCEPT ![t] = buyers[t] \ {e}]
    <3>1. /\ buyers'[t] = buyers[t] \ {e} /\ stock'[t] = stock[t] + 1
      BY <1>1, <2>3 DEF RedisTypeOK
    <3>2. /\ IsFiniteSet(buyers[t] \ {e})
          /\ Cardinality(buyers[t] \ {e}) = Cardinality(buyers[t]) - 1
      BY <2>1, <2>3, FS_RemoveElement
    <3> QED  BY <1>2, <2>1, <3>1, <3>2
  <2> QED  BY <1>2, <2>2, <2>3
<1>5. \A u \in Tickets : /\ stock'[u] = NoKey <=> stock[u] = NoKey
                         /\ Torn(u)' <=> Torn(u)
  BY <1>1, <1>2, <1>3 DEF Torn
<1>6. KeyInv'
  BY <1>1, <1>3, <1>4, <1>5 DEF KeyInv
<1>7. ASSUME ~overlap' PROVE AloneInv'
  <2>1. AloneInv
    BY <1>1, <1>7 DEF CatalogInv
  <2>2. BootingGateways' = BootingGateways /\ Initialising' = Initialising
    BY <1>1 DEF BootingGateways, Initialising
  <2>3. \A u \in Tickets : stock'[u] # NoKey => stock'[u] + Cardinality(buyers'[u]) = capacity'[u]
    BY <1>1, <1>2, <1>3, <1>4, <2>1 DEF AloneInv
  <2>4. \A c \in InitCalls : /\ initCall[c] # "setAgain"
                             /\ initCall[c] = "set" => stock'[initBody[c].ticketId] = NoKey
    <3>1. \A c \in InitCalls : initCall[c] = "set" => initBody[c].ticketId \in Tickets
      BY <1>1 DEF InitTypeOK, InitBodies
    <3> QED  BY <1>5, <2>1, <3>1 DEF AloneInv
  <2> QED  BY <1>1, <1>5, <2>1, <2>2, <2>3, <2>4 DEF AloneInv
<1>8. RedisTypeOK' /\ InitTypeOK' /\ overlap' \in BOOLEAN
  BY <1>1, <1>3 DEF RedisTypeOK, InitTypeOK, CatalogTypeOK
<1>9. \A u \in Tickets : Stocked(u) => Stocked(u)'
  BY <1>5 DEF Stocked
<1> QED  BY <1>1, <1>6, <1>7, <1>8, <1>9, KeysKeep

(* initTickets, when it is alone: nobody starts, and no other call is      *)
(* between its two steps.                                                  *)
LEMMA NobodyElse ==
  ASSUME CatalogInv, NEW c \in InitCalls, ~overlap,
         BootingGateways = {}, Initialising \ {c} = {}
  PROVE  /\ \A g \in Gateways, t \in Tickets : boot[g] # "seed" /\ seeding[g] # t
         /\ \A d \in InitCalls \ {c} : initCall[d] \notin {"set", "setAgain"}
<1>1. \A g \in Gateways : boot[g] # "seed"
  BY DEF BootingGateways, Booting
<1>2. \A g \in Gateways, t \in Tickets : seeding[g] # t
  BY <1>1, CatalogAssumption DEF CatalogInv, SeedInv
<1>3. \A d \in InitCalls \ {c} : initCall[d] \notin {"set", "setAgain"}
  BY DEF Initialising
<1> QED  BY <1>1, <1>2, <1>3

(* Deleting the keys, once or again, tears the ticket, which ends with its *)
(* stock, or with the next start.                                          *)
LEMMA InitDelKeeps ==
  ASSUME CatalogInv, NEW c \in InitCalls, NEW t \in Tickets, NEW n \in Counts,
         DeleteKeys(t),
         initBody' = [initBody EXCEPT ![c] = [ticketId |-> t, count |-> n]],
         initCall' = [initCall EXCEPT ![c] = "set"],
         \/ initCall[c] = "idle"
         \/ initCall[c] = "set" /\ initBody[c] = [ticketId |-> t, count |-> n],
         UNCHANGED <<pending, capacity, events, boot, unseeded, seeding>>,
         overlap' \in BOOLEAN,
         ~overlap' => ~overlap /\ BootingGateways = {} /\ Initialising \ {c} = {}
  PROVE  CatalogInv'
<1>1. /\ CatalogTypeOK /\ KeyInv /\ RedisTypeOK /\ InitTypeOK /\ InitBodies' = InitBodies
      /\ UNCHANGED <<pending, capacity>>
      /\ \/ initCall[c] = "idle"
         \/ initCall[c] = "set" /\ initBody[c] = [ticketId |-> t, count |-> n]
  BY DEF CatalogInv, CatalogTypeOK, InitBodies
<1>2. /\ stock' \in [Tickets -> Nat \cup {NoKey}] /\ stock'[t] = NoKey
      /\ buyers' \in [Tickets -> SUBSET Emails] /\ buyers'[t] = {}
      /\ \A u \in Tickets \ {t} : stock'[u] = stock[u] /\ buyers'[u] = buyers[u]
  BY <1>1 DEF DeleteKeys, RedisTypeOK
<1>3. [ticketId |-> t, count |-> n] \in InitBodies
  BY DEF InitBodies
<1>4. /\ initCall' \in [InitCalls -> InitStates]
      /\ initBody' \in [InitCalls -> InitBodies \cup {NoBody}]
      /\ initCall'[c] = "set" /\ initBody'[c] = [ticketId |-> t, count |-> n]
      /\ \A d \in InitCalls \ {c} : initCall'[d] = initCall[d] /\ initBody'[d] = initBody[d]
  BY <1>1, <1>3 DEF InitTypeOK, InitStates
<1>5. initBody'[c].ticketId = t
  BY <1>4
<1>6. RedisTypeOK' /\ InitTypeOK'
  BY <1>1, <1>2, <1>3, <1>4 DEF RedisTypeOK, InitTypeOK
<1>7. /\ Torn(t)'
      /\ \A u \in Tickets \ {t} : Torn(u) <=> Torn(u)'
  <2>1. Torn(t)'
    BY <1>2, <1>4, <1>5 DEF Torn
  <2>2. ASSUME NEW u \in Tickets \ {t} PROVE Torn(u) <=> Torn(u)'
    BY <1>1, <1>2, <1>4, <1>5 DEF Torn
  <2> QED  BY <2>1, <2>2
<1>8. \A u \in Tickets : Stocked(u) => Stocked(u)'
  BY <1>2, <1>7 DEF Stocked
<1>9. KeyInv'
  BY <1>1, <1>2, <1>7, FS_EmptySet DEF KeyInv
<1>10. overlap' \in BOOLEAN
  OBVIOUS
<1>11. ASSUME ~overlap' PROVE AloneInv'
  <2>1. /\ ~overlap /\ BootingGateways = {} /\ Initialising \ {c} = {} /\ AloneInv
    BY <1>11 DEF CatalogInv
  <2>2. /\ \A g \in Gateways, u \in Tickets : boot[g] # "seed" /\ seeding[g] # u
        /\ \A d \in InitCalls \ {c} : initCall[d] \notin {"set", "setAgain"}
    BY <2>1, NobodyElse
  <2>3. BootingGateways' = {} /\ Initialising' \subseteq {c}
    BY <1>4, <2>1, <2>2 DEF BootingGateways, Initialising
  <2>4. \A d \in InitCalls : /\ initCall'[d] # "setAgain"
                             /\ initCall'[d] = "set" => stock'[initBody'[d].ticketId] = NoKey
    BY <1>2, <1>4, <1>5, <2>2
  <2>5. \A u \in Tickets : stock'[u] # NoKey => stock'[u] + Cardinality(buyers'[u]) = capacity'[u]
    BY <1>1, <1>2, <2>1 DEF AloneInv
  <2> QED  BY <2>2, <2>3, <2>4, <2>5 DEF AloneInv
<1> QED  BY <1>6, <1>8, <1>9, <1>10, <1>11, KeysKeep

(* Setting the stock mends the ticket; a call that dies leaves it torn.    *)
LEMMA InitSetKeeps ==
  ASSUME CatalogInv, NEW c \in InitCalls, InitSet(c),
         UNCHANGED <<events, boot, unseeded, seeding>>, overlap' \in BOOLEAN,
         ~overlap' => /\ ~overlap /\ BootingGateways = {} /\ Initialising \ {c} = {}
                      /\ initCall'[c] # "setAgain"
  PROVE  CatalogInv'
<1> DEFINE t == initBody[c].ticketId
           n == initBody[c].count
<1>1. /\ CatalogTypeOK /\ KeyInv /\ RedisTypeOK /\ InitTypeOK /\ InitBodies' = InitBodies
      /\ UNCHANGED <<buyers, pending, initBody>> /\ initCall[c] \in {"set", "setAgain"}
  BY DEF CatalogInv, CatalogTypeOK, InitSet, InitBodies, Initialising
<1>2. t \in Tickets /\ n \in Nat /\ n # NoKey
  <2>1. initBody[c] \in InitBodies
    BY <1>1 DEF InitTypeOK
  <2>2. t \in Tickets /\ n \in Counts
    BY <2>1 DEF InitBodies
  <2> HIDE DEF t, n
  <2> QED  BY <2>2, InitAssumption, NoKeyAssumption
<1>3. \/ /\ \/ initCall' = [initCall EXCEPT ![c] = "done"]
            \/ initCall' = [initCall EXCEPT ![c] = "setAgain"]
         /\ stock' = [stock EXCEPT ![t] = n]
         /\ capacity' = [capacity EXCEPT ![t] = n]
      \/ /\ initCall' = [initCall EXCEPT ![c] = "failed"]
         /\ UNCHANGED <<stock, capacity>>
  BY DEF InitSet, SetKey
<1> HIDE DEF t, n
<1>4. /\ initCall' \in [InitCalls -> InitStates]
      /\ \A d \in InitCalls \ {c} : initCall'[d] = initCall[d]
      /\ stock' \in [Tickets -> Nat \cup {NoKey}] /\ capacity' \in [Tickets -> Nat]
      /\ \A u \in Tickets \ {t} : stock'[u] = stock[u] /\ capacity'[u] = capacity[u]
      /\ \/ initCall'[c] \in {"done", "setAgain"} /\ stock'[t] = n /\ capacity'[t] = n
         \/ /\ initCall'[c] = "failed"
            /\ stock'[t] = stock[t] /\ capacity'[t] = capacity[t]
  BY <1>1, <1>2, <1>3 DEF InitTypeOK, InitStates, RedisTypeOK
<1>5. RedisTypeOK' /\ InitTypeOK'
  BY <1>1, <1>4 DEF RedisTypeOK, InitTypeOK
<1>6. /\ \A u \in Tickets : stock'[u] = NoKey => stock[u] = NoKey /\ capacity'[u] = capacity[u]
      /\ \A u \in Tickets : stock'[u] = NoKey /\ Torn(u) => Torn(u)'
  <2>1. \A u \in Tickets : stock'[u] = NoKey => stock[u] = NoKey /\ capacity'[u] = capacity[u]
    BY <1>2, <1>4
  <2>2. \A d \in InitCalls : initCall[d] \in {"set", "failed"} =>
             initCall'[d] \in {"set", "failed"} \/ (d = c /\ stock'[t] = n)
    BY <1>1, <1>4
  <2>3. ASSUME NEW u \in Tickets, stock'[u] = NoKey, Torn(u) PROVE Torn(u)'
    <3>1. PICK d \in InitCalls : initCall[d] \in {"set", "failed"} /\ initBody[d].ticketId = u
      BY <2>3 DEF Torn
    <3>2. initCall'[d] \in {"set", "failed"}
      BY <1>2, <2>2, <2>3, <3>1 DEF t
    <3> QED  BY <1>1, <2>3, <3>1, <3>2 DEF Torn
  <2> QED  BY <2>1, <2>3
<1>7. \A u \in Tickets : Stocked(u) => Stocked(u)'
  BY <1>6 DEF Stocked
<1>8. KeyInv'
  BY <1>1, <1>6 DEF KeyInv
<1>9. overlap' \in BOOLEAN
  OBVIOUS
<1>10. ASSUME ~overlap' PROVE AloneInv'
  <2>1. /\ ~overlap /\ BootingGateways = {} /\ Initialising \ {c} = {} /\ AloneInv
        /\ initCall[c] = "set" /\ initCall'[c] # "setAgain"
    BY <1>1, <1>10 DEF CatalogInv, AloneInv
  <2>2. /\ \A g \in Gateways, u \in Tickets : boot[g] # "seed" /\ seeding[g] # u
        /\ \A d \in InitCalls \ {c} : initCall[d] \notin {"set", "setAgain"}
    BY <2>1, NobodyElse
  <2>3. BootingGateways' = {} /\ Initialising' = {}
    BY <1>4, <2>1, <2>2 DEF BootingGateways, Initialising
  <2>4. \A d \in InitCalls : initCall'[d] \notin {"set", "setAgain"}
    BY <1>4, <2>1, <2>2
  <2>5. stock[t] = NoKey /\ Cardinality(buyers'[t]) = 0
    BY <1>1, <1>2, <2>1, FS_EmptySet DEF AloneInv, KeyInv, t
  <2>6. \A u \in Tickets \ {t} :
          stock'[u] # NoKey => stock'[u] + Cardinality(buyers'[u]) = capacity'[u]
    <3>1. \A u \in Tickets \ {t} : /\ stock'[u] = stock[u] /\ buyers'[u] = buyers[u]
                                  /\ capacity'[u] = capacity[u]
      BY <1>1, <1>4
    <3> QED  BY <2>1, <3>1 DEF AloneInv
  <2>7. stock'[t] # NoKey => stock'[t] = capacity'[t] /\ capacity'[t] \in Nat
    BY <1>2, <1>4, <2>5
  <2>8. stock'[t] # NoKey => stock'[t] + Cardinality(buyers'[t]) = capacity'[t]
    <3> HIDE <1>1, <1>2, <1>4, <2>1, <2>2
    <3> QED  BY <2>5, <2>7
  <2>9. \A u \in Tickets : stock'[u] # NoKey => stock'[u] + Cardinality(buyers'[u]) = capacity'[u]
    BY <2>6, <2>8
  <2> QED  BY <2>2, <2>3, <2>4, <2>9 DEF AloneInv
<1> QED  BY <1>5, <1>7, <1>8, <1>9, <1>10, KeysKeep

-----------------------------------------------------------------------------
(* The theorems *)

LEMMA InitCatalogInv == CatalogInit => CatalogInv
<1> SUFFICES ASSUME CatalogInit PROVE CatalogInv
  OBVIOUS
<1>1. CatalogTypeOK
  BY CatalogAssumption DEF CatalogInit, RedisInit, NoInitCalls, CatalogTypeOK, RedisTypeOK,
                           InitTypeOK, InitStates
<1>2. EventsInv
  BY DEF CatalogInit, EventsInv
<1>3. KeyInv
  BY FS_EmptySet DEF CatalogInit, RedisInit, KeyInv
<1>4. SeedInv
  BY DEF CatalogInit, SeedInv
<1>5. AloneInv
  <2>1. BootingGateways = {} /\ Initialising = {}
    BY DEF CatalogInit, NoInitCalls, BootingGateways, Booting, Initialising
  <2> QED  BY <2>1, CatalogAssumption DEF CatalogInit, RedisInit, NoInitCalls, AloneInv
<1> QED  BY <1>1, <1>2, <1>3, <1>4, <1>5 DEF CatalogInv

LEMMA NextCatalogInv ==
  ASSUME CatalogInv, [CatalogNext]_catalogVars
  PROVE  CatalogInv'
<1>1. ASSUME NEW g \in Gateways, Start(g) PROVE CatalogInv'
  BY <1>1, StartKeeps
<1>2. ASSUME NEW g \in Gateways, BootStep(g) PROVE CatalogInv'
  BY <1>2, CatalogStepKeeps, LoopKeeps, SetStockKeeps DEF BootStep
<1>3. ASSUME NEW g \in Gateways, Crash(g), UNCHANGED <<initVars, overlap>> PROVE CatalogInv'
  BY <1>3, DownKeeps DEF Crash
<1>4. ASSUME NEW t \in Tickets, NEW e \in Emails, Sell(t, e), UNCHANGED <<initVars, overlap>>
      PROVE  CatalogInv'
  BY <1>4, SellKeeps
<1>5. ASSUME NEW c \in InitCalls, Initialise(c) PROVE CatalogInv'
  <2>1. /\ overlap' \in BOOLEAN
        /\ ~overlap' => /\ ~overlap /\ BootingGateways = {} /\ Initialising \ {c} = {}
                        /\ initCall'[c] # "setAgain"
        /\ UNCHANGED <<events, boot, unseeded, seeding>>
    BY <1>5 DEF Initialise, bootVars
  <2>2. ASSUME NEW t \in Tickets, NEW n \in Counts, InitDel(c, t, n) PROVE CatalogInv'
    BY <2>1, <2>2, InitDelKeeps DEF InitDel
  <2>3. CASE ResendDel(c)
    <3>1. InitTypeOK /\ initCall[c] = "set" /\ initBody[c] \in InitBodies
      BY <2>3 DEF CatalogInv, CatalogTypeOK, InitTypeOK, ResendDel
    <3>2. PICK t \in Tickets, n \in Counts : initBody[c] = [ticketId |-> t, count |-> n]
      BY <3>1 DEF InitBodies
    <3>3. /\ DeleteKeys(t) /\ UNCHANGED <<pending, capacity>>
          /\ initBody' = [initBody EXCEPT ![c] = [ticketId |-> t, count |-> n]]
          /\ initCall' = [initCall EXCEPT ![c] = "set"]
      BY <2>3, <3>1, <3>2 DEF ResendDel, initVars, InitTypeOK
    <3> QED  BY <2>1, <3>1, <3>2, <3>3, InitDelKeeps
  <2>4. CASE InitSet(c)
    BY <2>1, <2>4, InitSetKeeps
  <2> QED  BY <1>5, <2>2, <2>3, <2>4 DEF Initialise, InitTickets
<1>6. CASE UNCHANGED catalogVars
  <2>1. UNCHANGED <<stock, buyers, pending, events, boot, unseeded, seeding,
                    initCall, initBody, capacity, overlap>>
    BY <1>6 DEF catalogVars, redisVars, bootVars, initVars
  <2>2. CatalogTypeOK' /\ EventsInv' /\ BootingGateways' = BootingGateways
        /\ Initialising' = Initialising /\ \A t \in Tickets : Torn(t)' <=> Torn(t)
    BY <2>1 DEF CatalogInv, CatalogTypeOK, RedisTypeOK, InitTypeOK, InitBodies, InitStates, EventsInv,
                BootingGateways, Booting, Initialising, Torn, DefaultEvents
  <2>3. KeyInv' /\ SeedInv'
    BY <2>1, <2>2 DEF CatalogInv, KeyInv, SeedInv, Stocked
  <2>4. ~overlap' => AloneInv'
    BY <2>1, <2>2 DEF CatalogInv, AloneInv
  <2> QED  BY <2>2, <2>3, <2>4 DEF CatalogInv
<1> QED  BY <1>1, <1>2, <1>3, <1>4, <1>5, <1>6 DEF CatalogNext

(* The invariant the others follow from.                                   *)
THEOREM CatalogInvariant == CatalogSpec => []CatalogInv
<1>1. CatalogInit => CatalogInv
  BY InitCatalogInv
<1>2. CatalogInv /\ [CatalogNext]_catalogVars => CatalogInv'
  BY NextCatalogInv
<1> QED  BY <1>1, <1>2, PTL DEF CatalogSpec

(* No stock is ever sold below zero, and every state is one of the code's. *)
THEOREM CatalogTypes == CatalogSpec => []CatalogTypeOK
<1>1. CatalogInv => CatalogTypeOK
  BY DEF CatalogInv
<1> QED  BY <1>1, CatalogInvariant, PTL

(* A gateway only listens when every event has a row, and its stock unless *)
(* initTickets has taken it (events.bootstrap.service.ts:17-42).           *)
THEOREM ReadyMeansStocked == CatalogSpec => []ReadyIsStocked
<1> QED  BY ListensWithStock, CatalogInvariant, PTL

(* Customers are shown the seats that are really left, as long as no two   *)
(* have been giving out stock at a time and no SET of theirs was sent      *)
(* twice (events.service.ts:57-60, redis.service.ts:127-134).              *)
THEOREM InventoryIsTrue == CatalogSpec => []InventoryShownIsTrue
<1> QED  BY ShownIsTrue, CatalogInvariant, PTL

(* A start that is over has mended every ticket, torn or not, unless       *)
(* somebody else was giving out stock, or a SET was sent twice             *)
(* (events.bootstrap.service.ts:38-42).                                    *)
THEOREM AStartMends == CatalogSpec => StartRestocks
<1>1. ASSUME CatalogInv, [CatalogNext]_catalogVars, NEW g \in Gateways,
             boot[g] # "ready", boot'[g] = "ready", ~overlap
      PROVE  \A t \in DefaultEvents : stock[t] # NoKey
  <2>1. boot \in [Gateways -> Booting \cup {"down", "ready"}] /\ AloneInv
    BY <1>1 DEF CatalogInv, CatalogTypeOK
  <2>2. PICK h \in Gateways : \/ Start(h) \/ BootStep(h) \/ Crash(h)
    BY <1>1 DEF CatalogNext, catalogVars, bootVars, Sell, Initialise
  <2>3. Listen(h) /\ boot' = [boot EXCEPT ![h] = "ready"]
    <3>1. ASSUME boot' = boot \/ \E at \in Booting \cup {"down"} : boot' = [boot EXCEPT ![h] = at]
          PROVE  FALSE
      BY <1>1, <2>1, <3>1 DEF Booting
    <3>2. /\ ~GoDown(h) /\ boot' # boot
          /\ \A at \in {"count", "select", "insert", "find"} : ~Enter(h, at)
          /\ boot' # [boot EXCEPT ![h] = "seed"]
      BY <3>1 DEF GoDown, Enter, Booting
    <3>3. ASSUME NEW t \in Tickets, SetStock(h, t) PROVE FALSE
      BY <3>2, <3>3 DEF SetStock, bootVars
    <3>4. ASSUME NEW t \in Tickets, Exists(h, t) PROVE FALSE
      BY <3>2, <3>4 DEF Exists
    <3>5. ~Start(h) /\ ~Crash(h) /\ ~Select(h) /\ ~Find(h) /\ ~Insert(h)
      BY <3>2 DEF Start, Crash, Select, Find, Insert
    <3>6. Listen(h) \/ Count(h)
      BY <2>2, <3>3, <3>4, <3>5 DEF BootStep
    <3> QED  BY <3>2, <3>6 DEF Count, Listen, Enter
  <2>4. h = g
    BY <1>1, <2>1, <2>3
  <2> QED  BY <2>1, <2>3, <2>4, CatalogAssumption DEF Listen, AloneInv, DefaultEvents
<1>2. CatalogInv /\ [CatalogNext]_catalogVars =>
        [\A g \in Gateways : (boot[g] # "ready" /\ boot'[g] = "ready" /\ ~overlap) =>
           \A t \in DefaultEvents : stock[t] # NoKey]_catalogVars
  BY <1>1
<1> QED  BY <1>2, CatalogInvariant, PTL DEF CatalogSpec, StartRestocks
=============================================================================
