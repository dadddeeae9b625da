SPECIFICATION Spec
CONSTANTS
  c1 = c1
  c2 = c2
  c3 = c3
  c4 = c4
  t1 = t1
  t2 = t2
  NoCall = NoCall
  Calls <- AllCalls
  Tenants <- AllTenants
  Times = {0, 1, 2, 3}
  LimitTokens = 3
  WindowMs = 2
  MaxTokens = 2
SYMMETRY Symmetry
CHECK_DEADLOCK FALSE
INVARIANTS
  TypeOK
  StoredWithinLimit
  OnlyExpiredAreGone
  UsageSeesWindow
  RollingWindowLessLag
