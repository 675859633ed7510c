SPECIFICATION Spec
CONSTANTS
  p = p
  NumJobs = 2
  Provider <- OneProvider
  ProviderOf <- AllOnP
  Owned <- FirstOwned
  Limit <- LimitOne
  Retired <- None
  Dynamic = TRUE
  MaxStarts = 2
INVARIANTS
  InFlightRowsAreOwned
  VerdictMeansStopped
  DeliveryMatchesOutcome
  CompletedMeansCaptured
  CapacityHeld
PROPERTIES
  VerdictIsFinal
  LaunchedAtMostOnce
  ContractKept
  NoOvertaking
