SPECIFICATION Spec
CONSTANTS
  c1 = c1
  c2 = c2
  c3 = c3
  t1 = t1
  t2 = t2
  Nobody = Nobody
  NoCall = NoCall
  Calls <- ThreeCalls
  Tenants <- OneTenant
  Counts = {0, 2, 4}
  LimitTokens = 3
  WindowMs = 2
  MaxTokens = 4
  MaxClock = 3
  Settable = FALSE
INVARIANT RollingWindow
