SPECIFICATION RequestSpec
CONSTANTS
  Mode = "surface_canary"
  QuotaRouting = TRUE
  DefaultFamily = "meta"
  Asked <- AllIntents
  HealthMet <- AllSnapshots
INVARIANTS
  NeverLeadsBack
  
CHECK_DEADLOCK FALSE
