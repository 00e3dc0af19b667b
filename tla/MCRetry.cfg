\* Up to two retries within fourteen units of time.
SPECIFICATION FairSpec
CONSTANTS
  Configs <- Policies
  Defaults <- BuiltIn
  Names = {"", "standard", "missing"}
  Registered = "standard"
  Methods = {"GET", "POST"}
  Statuses = {200, 503}
  RetryAfters <- Headers
  Unset = Unset
  Second = 2
  MaxDuration = 15
  Overflown <- LeastDuration
  Horizon = 15
INVARIANTS
  TypeOK
  RepeatsAreAllowed
  AttemptsStandAlone
  WaitFits
  RetriesAreMade
PROPERTIES
  BudgetedCallsEnd
