SPECIFICATION FairSpec
CONSTANTS
  alice = alice
  root = root
  w1 = w1
  w2 = w2
  Users = {alice}
  Admins = {}
  AuthEnabled = TRUE
  Ids = {w1}
  PodName <- UserAndId
  PvcIds = {}
  Suffixes = {s1, s2}
  ReadyWithin = 9
  MaxClock = 3
  Owner <- OwnerIsAlice
  MaxPolls = 1
  UpgradeTimeout = 1
  MaxLag = 0
  DistinctStamps = FALSE
  LastCreate = 1
  MaxSweeps = 1
  MaxFaults = 1
  MaxCrashes = 1
PROPERTIES Converges
CHECK_DEADLOCK FALSE
