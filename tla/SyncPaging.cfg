SPECIFICATION Spec
CONSTANTS
  Devices <- MCTwoDevices
  Keys <- MCThreeKeys
  SharedIds = {}
  NumEntities = 2
  EntityOf <- MCTwoAndOne
  PageSize = 1
  MaxAttempts = 2
  Skew <- MCSlowClock
  Overlap = TRUE
  MaxEdits = 2
  MaxCrashes = 1
  MaxFaults = 0
INVARIANT SyncedIsAckedOrStray
INVARIANT NoChangeSkipped
INVARIANT NoOrphanWhileIdle
ACTION_CONSTRAINT FirstEdit
