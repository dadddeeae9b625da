SPECIFICATION FairTimedSpec
CONSTANTS
  h1 = h1
  h2 = h2
  t1 = t1
  NoCall = NoCall
  NoKey = NoKey
  Garbage = Garbage
  NoResponse = NoResponse
  Calls <- TwoRequests
  Tenants <- OneTenant
  Payloads <- Scenarios
  Times = {0}
  Statuses = {200, 429, 500}
  LimitTokens = 4
  WindowMs = 3
  MaxTokens = 3
  DefaultReserve = 2
  MaxReserve = 3
  MsPerSecond = 2
  BusyTicks = 1
  PrimaryTicks = 1
  SecondaryTicks = 2
  SlowTicks = 2
  MaxHeld = 2
CHECK_DEADLOCK FALSE
INVARIANTS
  AnsweredInTime
  ScenarioDecides
PROPERTY EveryRequestAnswered
