SPECIFICATION Spec
CONSTANTS
  git = git
  vpn = vpn
  vda = vda
  sdb = sdb
  short = short
  long = long
  utc = utc
  A = A
  B = B
  None = none
  Services = {git, vpn}
  Movable = {git, vpn}
  Suggested = {vpn}
  Volumes = {vda, sdb}
  Root = vda
  KernelName <- Same
  Subdomains = {short, long}
  ReservedSubdomains = {}
  DefaultSubdomain <- Defaults
  Owners = {"root", "nobody"}
  Channels = {stable, unstable}
  Keys = {key}
  Timezones = {berlin}
  Switch = {TRUE}
  Providers = {B}
  Mountable = {sdb}
  Moves <- AllMoves
  Start <- StartFiles
  Old <- OldFiles
  MaxRequests = 2
  MaxTasks = 2
  MaxDemands = 3
  MaxCrashes = 1
  MaxCoincidences = 1
INVARIANTS SettingsInv LocationsKept ProviderHasItsToken
PROPERTIES UpdatesNotLost
CHECK_DEADLOCK FALSE
