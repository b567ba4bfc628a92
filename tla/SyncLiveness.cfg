SPECIFICATION FairSpec
CONSTANTS
  Devices <- MCTwoDevices
  Keys <- MCOneKey
  SharedIds = {1}
  NumEntities = 1
  EntityOf <- MCSameEntity
  PageSize = 1
  MaxAttempts = 2
  Skew <- MCSlowClock
  Overlap = FALSE
  MaxEdits = 2
  MaxCrashes = 1
  MaxFaults = 1
INVARIANTS UnsyncedIsCarried SettledMeansConverged
PROPERTY EventuallyConverges
