SPECIFICATION Spec
CONSTANTS
  k1 = k1
  k2 = k2
  Users = {u1}
  Replicas = {p1}
  KeyAssignments <- OneKey
  Slots = {s1}
  MaxRequests = 4
  MaxTokens = 3
  MaxFaults = 0
  MaxLogouts = 0
INVARIANT RefreshKeepsSession
CHECK_DEADLOCK FALSE
