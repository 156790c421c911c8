SPECIFICATION FairCatalogSpec
CONSTANTS
  Tickets = {t1, t2}
  t1 = t1
  t2 = t2
  Emails = {e1, e2}
  OrderIds = {}
  NoKey = NoKey
  Gateways = {g1, g2}
  InitialInventory <- MCInventory
  NoEvent = NoEvent
  NoBody = NoBody
  Counts = {2}
  InitCalls = {c1, c2}
  MaxBooting = 2
  Faults = {"refused", "lost", "crash", "reinit", "resentStock"}
  MaxFaults = 3
INVARIANTS
  CatalogTypeOK
  ReadyIsStocked
  InventoryShownIsTrue
PROPERTIES
  StartRestocks
  EveryGatewayListens
