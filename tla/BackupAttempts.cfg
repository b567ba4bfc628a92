SPECIFICATION Spec
CONSTANTS
  d1 = d1
  d2 = d2
  NoDevice = NoDevice
  Devices <- MCDevices
  MaxVersions = 2
  MaxWrites = 2
  MaxFaults = 1
  MaxExpiries = 1
  MaxSignOuts = 1
  MaxCrashes = 1
SYMMETRY Symmetry
INVARIANTS CleanMeansBackedUp BlobHasMetadata LeaseHolderUploads
CHECK_DEADLOCK FALSE
