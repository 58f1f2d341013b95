SPECIFICATION Spec
CONSTANTS
  Volumes = {"sda1", "sdb", "sdc"}
  None = none
  Configs <- SomeConfigs
  Catalogues <- SomeCatalogues
  Attachments <- SomeAttachments
  Leftovers <- SomeLeftovers
  Missing <- SomeMissing
  Events = {"raise", "copy", "mkdir", "mount", "user", "detach", "crash"}
  MaxRequests = 2
  MaxEvents = 1
INVARIANTS BindsInv LocationTellsWhere
CHECK_DEADLOCK FALSE
