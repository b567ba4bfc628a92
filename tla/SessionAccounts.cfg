SPECIFICATION FairSpec
CONSTANTS
  ann = ann
  bea = bea
  Users <- MCUsers
  None = None
  TrialDays = 1
  PaidDays = 1
  GraceDays = 1
  MaxNow = 2
  MaxGrants = 1
  MaxSends = 2
  MaxVerifies = 2
  MaxMishaps = 2
INVARIANTS SessionOnly StoredFollowsSession SeededOnce OpenWindowIsHonoured
PROPERTY GetsIn
ACTION_CONSTRAINT AnnFirst
CHECK_DEADLOCK FALSE
