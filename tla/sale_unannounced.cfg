SPECIFICATION Spec
CONSTANTS
  Tickets = {t1}
  Emails = {e1, e2}
  e1 = e1
  e2 = e2
  e1Typed = e1Typed
  RawEmails = {e1, e2}
  Normalized <- MCNormalized
  OrderIds = {o1, o2}
  Workers = {w1, w2}
  InitCalls = {c1}
  Counts = {1, 2}
  Attempts = 3
  MaxStalls = 1
  Faults = {"crash"}
  MaxFaults = 1
  NoKey = NoKey
  NoWorker = NoWorker
  NoBody = NoBody
SYMMETRY Symmetry
INVARIANT CompletedJobAnnounced
CHECK_DEADLOCK FALSE
