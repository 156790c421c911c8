SPECIFICATION FairTrackerSpec
CONSTANTS
  MaxAttempts = 2
  Faults = {"refused"}
  MaxFaults = 5
INVARIANTS
  TrackerTypeOK
  OneConnection
  NeverSilentlyDeaf
PROPERTY TrackingGoesOn
CHECK_DEADLOCK FALSE
