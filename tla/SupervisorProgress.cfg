SPECIFICATION FairSpec
CONSTANTS
  p = p
  NumJobs = 2
  Provider <- OneProvider
  ProviderOf <- AllOnP
  Owned <- None
  Limit <- LimitOne
  Retired <- OnlyP
  Dynamic = FALSE
  MaxStarts = 2
PROPERTIES
  AcceptedJobsFinish
  SlotsAreReturned
  EndsUnaided
