SPECIFICATION Spec
CONSTANTS
  own = own
  stf = stf
  late = late
  None = None
  b1 = b1
  b2 = b2
  c1 = c1
  c2 = c2
  Emps = {own, stf, late}
  Services = {1, 2}
  Bills = {b1, b2}
  Customers = {c1, c2}
  Phones = {p1}
  Tags <- MCTags
  Rules <- MCRules
  Rates <- MCRates
  Discounts <- MCDiscounts
  Modes = {"cash", "credit"}
  SalonGender = "male"
  Teams <- MCTeams
  Menus <- MCMenus
  MaxTaps = 2
  MaxQty = 2
  MaxSaves = 3
  MaxChanges = 1
CHECK_DEADLOCK FALSE

SYMMETRY Symmetry
INVARIANTS ReportsAgree CommissionExplained CreditIsCollectable OwnerIsUnique
PROPERTIES UntouchedEditKeepsMoney LockHolds
