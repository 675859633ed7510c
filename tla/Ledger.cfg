SPECIFICATION Spec
CONSTANTS
  Mode = "surface_canary"
  QuotaRouting = TRUE
  DefaultFamily = "meta"
  MaxDecisions = 3
  Intents <- TwoIntents
  Session <- TwoSessions
  Snapshots <- OnlyIdle
  Outcome <- Outcomes
  Limit = 1
  TTL = 2
  Retention = 0
  MaxTime = 2
INVARIANTS
  LimitIsExact
  EscalatesOnce
PROPERTIES
  LeasesEndOnce
CHECK_DEADLOCK FALSE
