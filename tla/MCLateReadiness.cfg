SPECIFICATION Spec
CONSTANTS
  alice = alice
  root = root
  w1 = w1
  w2 = w2
  Users = {alice}
  Admins = {}
  AuthEnabled = TRUE
  Ids = {w1}
  PodName <- UserAndId
  PvcIds = {}
  Suffixes = {s1}
  ReadyWithin = 9
  MaxClock = 4
  Owner <- OwnerIsAlice
  MaxPolls = 3
  UpgradeTimeout = 2
  MaxLag = 0
  DistinctStamps = TRUE
  LastCreate = 9
  MaxSweeps = 1
  MaxFaults = 0
  MaxCrashes = 0
SYMMETRY SuffixSymmetry
INVARIANTS ZeroDowntime
CHECK_DEADLOCK FALSE
