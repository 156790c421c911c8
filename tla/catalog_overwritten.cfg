SPECIFICATION FairCatalogSpec
CONSTANTS
  Tickets = {t1, t2}
  t1 = t1
  t2 = t2
  Emails = {e1, e2}
  OrderIds = {}
  NoKey = NoKey
  Gateways = {g1, g2}
  InitialInventory <- MCInventory
  NoEvent = NoEvent
  NoBody = NoBody
  Counts = {2}
  InitCalls = {}
  MaxBooting = 2
  Faults = {}
  MaxFaults = 0
PROPERTY StockNeverOverwritten
