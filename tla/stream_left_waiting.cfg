SPECIFICATION FairStreamSpec
CONSTANTS
  OrderIds = {o1}
  Readers = {s1}
  NoOrder = NoOrder
  BusBound = 2
  Faults = {}
  MaxFaults = 0
PROPERTY NoStreamLeftWaiting
