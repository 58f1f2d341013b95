SPECIFICATION FairSpec
CONSTANTS
  Services = {"s", "t"}
  NumFolders = 2
  Volumes = {"sda", "sdb", "sdc"}
  Root = "sda"
  Names = {"sda", "sdb", "sdc"}
  CanonicalName <- MCCanonicalName
  None = None
  Events = {"check", "timeout", "unbind", "copy", "rmtree", "chown", "bind", "rebuild", "user", "crash", "reboot"}
  MaxRequests = 2
  MaxEvents = 1
INVARIANTS MoveInv NoDataLost DownWhileMoved StartedAfterMove LocationFollowsData
PROPERTIES FinishedMeansMoved 
CHECK_DEADLOCK FALSE
