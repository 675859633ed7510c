SPECIFICATION Spec
CONSTANTS
  MaxPids = 3
  MaxInstalls = 2
  Callers = {"c1"}
  Config <- SecondChanges
  Digits <- Pids
INVARIANTS SparesListedJobs SubmittedOnce RefusedMeansReconfigured InstalledIsLaunchds
CHECK_DEADLOCK FALSE
