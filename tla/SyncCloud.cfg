SPECIFICATION GcSpec
CONSTANTS
  Devices <- MCTwoDevices
  Keys <- MCOneKey
  SharedIds = {}
  NumEntities = 1
  EntityOf <- MCSameEntity
  PageSize = 1
  MaxAttempts = 2
  Skew <- MCSlowClock
  Overlap = FALSE
  MaxEdits = 4
  MaxCrashes = 0
  MaxFaults = 1
  Retained = TRUE
  MaxGcs = 1
INVARIANTS SettledMeansWinner CollectedStaysDeleted
PROPERTIES NoEditLostToALoser TombstonesStick ImplementsCloudRecord
ACTION_CONSTRAINT FourthIsLate
