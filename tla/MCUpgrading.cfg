SPECIFICATION Spec
CONSTANTS
  alice = alice
  root = root
  w1 = w1
  w2 = w2
  Users = {alice, root}
  Admins = {root}
  AuthEnabled = TRUE
  Ids = {w1}
  PodName <- UserAndId
  PvcIds = {}
  Suffixes = {s1, s2}
  ReadyWithin = 1
  MaxClock = 4
  Owner <- OwnerIsAlice
  MaxPolls = 3
  UpgradeTimeout = 2
  MaxLag = 0
  DistinctStamps = TRUE
  LastCreate = 9
  MaxSweeps = 1
  MaxFaults = 1
  MaxCrashes = 1
SYMMETRY SuffixSymmetry
INVARIANTS TypeOK ZeroDowntime RoutesToServingPod OwnerPreserved Inv
PROPERTIES ImplementsCutover
CHECK_DEADLOCK FALSE
