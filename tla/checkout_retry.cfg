SPECIFICATION CheckoutSpec
CONSTANTS
  Tickets = {t1}
  Emails = {e1, e2}
  e1 = e1
  e2 = e2
  e1Typed = e1Typed
  RawEmails = {e1, e1Typed, e2}
  Normalized <- MCNormalized
  OrderIds = {o1, o2}
  Forms = {f1}
  Blank = Blank
  Workers = {}
  InitCalls = {c1}
  Counts = {1}
  Attempts = 3
  MaxStalls = 1
  Faults = {"offline"}
  MaxFaults = 1
  NoKey = NoKey
  NoWorker = NoWorker
  NoBody = NoBody
INVARIANT TryAgainIsNotRefused
CHECK_DEADLOCK FALSE
