SPECIFICATION Spec
CONSTANTS
  k1 = k1
  k2 = k2
  Users = {u1, u2}
  Replicas = {p1, p2}
  KeyAssignments <- OneOrTwoKeys
  Slots = {s1, s2}
  MaxRequests = 4
  MaxTokens = 3
  MaxFaults = 1
  MaxLogouts = 1
SYMMETRY Symmetry
INVARIANTS TypeOK NoCrossTalk CoalescingKeepsSession
CHECK_DEADLOCK FALSE
