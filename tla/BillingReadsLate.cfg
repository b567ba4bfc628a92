SPECIFICATION FairSpec
CONSTANTS
  ann = ann
  bea = bea
  sub1 = sub1
  p1 = p1
  p2 = p2
  Nothing = Nothing
  Salons <- MCSalons
  Plans <- MCPlans
  Days <- MCDays
  Subs = {sub1}
  SalonOf <- MCSalonOf
  PlanOf <- MCPlanOf
  Payments = {p1}
  SubOf <- LateSubOf
  Events <- LateEvents
  Verifies <- LateVerifies
  Claims = {}
  RewardDays = 1
  LateReads = FALSE
  MaxDay = 0
  MaxFaults = 0
  MaxDeaths = 0
PROPERTY PaidIsGranted
CHECK_DEADLOCK FALSE
