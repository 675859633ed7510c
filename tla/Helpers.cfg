SPECIFICATION FairHelperSpec
CONSTANTS
  MaxCrashes = 2
  Checks = {"a", "b"}
  PollRetries = 2
INVARIANTS OneCheckAtATime NoCheckOutlivesJob SessionIsRemoved
PROPERTIES ServerEnds
CHECK_DEADLOCK FALSE
