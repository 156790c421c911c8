SPECIFICATION FairCheckoutSpec
CONSTANTS
  Tickets = {t1}
  Emails = {e1, e2}
  e1 = e1
  e2 = e2
  e1Typed = e1Typed
  RawEmails = {e1, e1Typed, e2}
  Normalized <- MCNormalized
  OrderIds = {o1, o2}
  Forms = {f1, f2}
  Blank = Blank
  Workers = {}
  InitCalls = {c1}
  Counts = {1, 2}
  Attempts = 3
  MaxStalls = 1
  Faults = {"refused", "lost", "crash", "offline", "resent"}
  MaxFaults = 1
  NoKey = NoKey
  NoWorker = NoWorker
  NoBody = NoBody
INVARIANTS
  CheckoutTypeOK
  ShownIsBought
  OneSeatPerPage
  RefusalIsNotOwnSeat
PROPERTY SubmissionSettles
CHECK_DEADLOCK FALSE
