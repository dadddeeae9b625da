SPECIFICATION Spec
CONSTANTS
  h1 = h1
  h2 = h2
  h3 = h3
  t1 = t1
  t2 = t2
  NoCall = NoCall
  NoKey = NoKey
  Garbage = Garbage
  NoResponse = NoResponse
  Calls <- TwoRequests
  Tenants <- OneTenant
  Payloads <- AllPayloads
  Times = {0, 1, 2, 3}
  Statuses = {200, 429, 500}
  LimitTokens = 3
  WindowMs = 3
  MaxTokens = 5
  DefaultReserve = 2
  MaxReserve = 3
  MsPerSecond = 2
SYMMETRY Symmetry
CHECK_DEADLOCK FALSE
INVARIANTS
  TypeOK
  ProviderWorkWithinLimit
  AnswerMatchesLedger
  FallbackOnlyByPolicy
  AnswerMatchesProviders
PROPERTIES
  RetryAfterHeaderExact
