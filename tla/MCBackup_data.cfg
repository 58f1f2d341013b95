SPECIFICATION Spec
CONSTANTS
  api_svc = api_svc
  s1 = s1
  none = none
  Services <- MCServices
  ConfigService = api_svc
  None = none
  JobIds <- MCJobIds
  Events = {"backup", "restore", "full_restore", "autobackup", "period", "stop", "prune", "expire", "remove", "timeout"}
  MaxRequests = 2
  MaxCrashes = 1
  MaxClock = 2
INVARIANTS IInv  NoStrandedParent StoppedUnlessStarted FailsafeCoversData
PROPERTIES FinishedBackupIsFresh 
CHECK_DEADLOCK FALSE
