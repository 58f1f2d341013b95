SPECIFICATION FairSpec
CONSTANTS
  api_svc = api_svc
  s1 = s1
  none = none
  Services <- MCServices
  ConfigService = api_svc
  None = none
  JobIds <- MCJobIds
  Events = {"backup", "restore", "total_backup", "full_restore", "autobackup", "remove", "start", "stop", "forget"}
  MaxRequests = 2
  MaxCrashes = 0
  MaxClock = 1
PROPERTIES  EveryServiceReturns
CHECK_DEADLOCK FALSE
