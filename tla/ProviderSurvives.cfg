SPECIFICATION Spec
CONSTANTS
  p = p
  NumJobs = 1
  Provider <- OneProvider
  ProviderOf <- AllOnP
  Owned <- None
  Limit <- LimitOne
  Retired <- None
  Dynamic = FALSE
  MaxStarts = 3
INVARIANTS
  NoProviderSurvivesRestart
