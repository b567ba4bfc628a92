SPECIFICATION Spec
CONSTANTS
  Devices <- MCTwoDevices
  Keys <- MCOneKey
  SharedIds = {}
  NumEntities = 1
  EntityOf <- MCSameEntity
  PageSize = 1
  MaxAttempts = 2
  Skew <- MCSlowClock
  Overlap = FALSE
  MaxEdits = 2
  MaxCrashes = 1
  MaxFaults = 0
INVARIANT UnsyncedIsQueued
