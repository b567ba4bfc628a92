SPECIFICATION Spec
CONSTANTS
  ann = ann
  bea = bea
  sub1 = sub1
  p1 = p1
  p2 = p2
  Nothing = Nothing
  Salons <- MCSalons
  Plans <- MCPlans
  Days <- MCDays
  Subs = {sub1}
  SalonOf <- MCSalonOf
  PlanOf <- MCPlanOf
  Payments = {p1, p2}
  SubOf <- MCSubOf
  Events <- GrantEvents
  Verifies <- GrantVerifies
  Claims <- GrantClaims
  RewardDays = 1
  LateReads = TRUE
  MaxDay = 1
  MaxFaults = 1
  MaxDeaths = 1
CONSTRAINT OneKind
INVARIANTS
  OneGrantPerPayment
  WindowsStack
  RewardsAreEarned
  OneReferralPerSalon
  ToldIsGranted
CHECK_DEADLOCK FALSE
