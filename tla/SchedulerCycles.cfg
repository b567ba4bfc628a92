SPECIFICATION FairSpec
CONSTANTS
  Salons <- MCSalons
  Slots <- MCSlots
  Batch = 1
  MaxDrain = 1
  MaxWrites = 2
  MaxFaults = 1
  MaxStarts = 2
  MaxFlips = 1
  MaxTimers = 1
INVARIANTS NoMoreCyclesThanStarts RerunIsServed
CHECK_DEADLOCK FALSE
PROPERTY CatchesUp
