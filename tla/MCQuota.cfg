SPECIFICATION SpawnerSpec
CONSTANTS
  alice = alice
  bob = bob
  w1 = w1
  w2 = w2
  Users = {alice, bob}
  Admins = {}
  AuthEnabled = TRUE
  Ids = {w1, w2}
  PodName <- UserAndId
  PvcIds = {}
  Suffixes = {}
  ReadyWithin = 1
  MaxClock = 1
  Owner <- OwnerIsAlice
  MaxPolls = 1
  UpgradeTimeout = 0
  MaxLag = 0
  DistinctStamps = FALSE
  LastCreate = 2
  MaxSweeps = 0
  MaxFaults = 0
  MaxCrashes = 0
  Requests = {r1, r2}
  MaxWorkspaces = 1
  NotSet = NotSet
  UserVar = UserVar
  Sources = {}
  SpawnCalls = {}
SYMMETRY SpawnerSymmetry
INVARIANTS QuotaHolds
CHECK_DEADLOCK FALSE
