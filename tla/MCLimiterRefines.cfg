SPECIFICATION FairSpec
CONSTANTS
  c1 = c1
  c2 = c2
  c3 = c3
  t1 = t1
  t2 = t2
  Nobody = Nobody
  NoCall = NoCall
  Calls <- TwoCalls
  Tenants <- TwoTenants
  Counts = {0, 2, 4}
  LimitTokens = 3
  WindowMs = 2
  MaxTokens = 4
  MaxClock = 3
  Settable = TRUE
PROPERTIES
  EveryCallSettles
  ImplementsAtomic
