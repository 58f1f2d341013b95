SPECIFICATION FairSpec
CONSTANTS
  Events = {"rebuild", "gc", "timeout", "remove", "restart_api"}
  MaxRequests = 2
  MaxRestarts = 1
PROPERTIES EveryRebuildEnds
CHECK_DEADLOCK FALSE
