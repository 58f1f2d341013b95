SPECIFICATION Spec
CONSTANTS
  Events = {"rebuild", "upgrade", "gc", "remove", "timeout", "dbus", "unknown", "log_dies", "gc_fails", "restart_api", "restart_worker"}
  MaxRequests = 2
  MaxRestarts = 1
INVARIANTS NoStrandedRebuild EndedJobsExpire FinishedMeansRebuilt
PROPERTIES EndedIsFinal
CHECK_DEADLOCK FALSE
