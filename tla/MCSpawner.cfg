SPECIFICATION SpawnerSpec
CONSTANTS
  alice = alice
  bob = bob
  w1 = w1
  w2 = w2
  Users = {alice, bob}
  Admins = {}
  AuthEnabled = TRUE
  Ids = {w1, w2}
  PodName <- UserAndId
  PvcIds = {}
  Suffixes = {s1}
  ReadyWithin = 1
  MaxClock = 1
  Owner <- OwnerIsAlice
  MaxPolls = 1
  UpgradeTimeout = 0
  MaxLag = 0
  DistinctStamps = FALSE
  LastCreate = 2
  MaxSweeps = 1
  MaxFaults = 0
  MaxCrashes = 1
  Requests = {r1, r2}
  MaxWorkspaces = 1
  NotSet = NotSet
  UserVar = UserVar
  Sources <- SomeSources
  SpawnCalls <- SomeCalls
SYMMETRY SpawnerSymmetry
CONSTRAINT TwoIdsAtRest
INVARIANTS SpawnerTypeOK QuotaOvershootBounded DeletesOwnPodsOnly UpgradesKeepContents UpgradesSettle
CHECK_DEADLOCK FALSE
