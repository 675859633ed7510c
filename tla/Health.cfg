SPECIFICATION FairSpec
CONSTANTS
  Windows <- OneWindow
  Loads <- FourLoads
  Periods <- ShortOrLong
  Cooldowns <- TwoCooldowns
  Stale = 1
  RefreshEvery = 2
  Dynamic = TRUE
  Limit = 1
  MaxTime = 5
INVARIANTS
  CooldownKept
  SlotsWithheldBriefly
  PressureOutlivesCooldown
PROPERTIES
  SlotsComeBack
