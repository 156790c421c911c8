SPECIFICATION Spec
CONSTANTS
  Tickets = {t1}
  Emails = {e1, e2}
  e1 = e1
  e2 = e2
  e1Typed = e1Typed
  RawEmails = {e1, e1Typed, e2}
  Normalized <- MCNormalized
  OrderIds = {o1, o2, o3}
  Workers = {w1, w2}
  InitCalls = {c1, c2}
  Counts = {1}
  Attempts = 3
  MaxStalls = 1
  Faults = {"lostAdd", "reinit", "expired", "refused", "lost", "stalled", "crash",
            "resentRelease", "resentStock"}
  MaxFaults = 2
  NoKey = NoKey
  NoWorker = NoWorker
  NoBody = NoBody
SYMMETRY Symmetry
INVARIANTS
  OrdersInv
  OneOrderPerCustomer
  NotifiedAtMostOnce
  AcceptedNeverLost
  OversellCostsFaults
CHECK_DEADLOCK FALSE
