SPECIFICATION Spec
CONSTANTS
  git = git
  mail = mail
  None = none
  Services <- Ordered
  Broken = {git}
  Repos = {A, B}
  FirstRepo = A
  Timeframes = {"daily", "weekly"}
  Calendar <- Days
  QuotaChoices <- SomeQuotas
  Periods = {1}
  ErrorExpiry = 1
  Old <- OldSnaps
  StartTime = 4
  MaxClock = 5
  MaxRequests = 2
  MaxFaults = 1

PROPERTIES ZeroMeansNoLimit
CHECK_DEADLOCK FALSE
