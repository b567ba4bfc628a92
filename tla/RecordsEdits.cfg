SPECIFICATION Spec
CONSTANTS
  r1 = r1
  r2 = r2
  p1 = p1
  p2 = p2
  None = None
  Ids = {r1, r2}
  Parties = {p1, p2}
  Values = {1, 2}
  Phones = {t1, t2}
  Kinds = {"expense", "advance", "customer", "service"}
  MaxTaps = 4
  MaxChanges = 2
SYMMETRY Symmetry
INVARIANTS OnePhoneEach
PROPERTIES OnlyStaleFormsReopen GoneStaysGone EditKeepsTheRest
CHECK_DEADLOCK FALSE
