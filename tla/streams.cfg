SPECIFICATION FairStreamSpec
CONSTANTS
  OrderIds = {o1, o2}
  Readers = {s1, s2}
  NoOrder = NoOrder
  BusBound = 2
  Faults = {"dropped", "crash", "refused"}
  MaxFaults = 1
INVARIANTS
  StreamTypeOK
  NotFoundOnlyInPassing
  RegistryExact
  StreamsTruthful
PROPERTY AttachedInTimeIsTold
