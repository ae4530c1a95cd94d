SPECIFICATION FairSpec
CONSTANTS
  Replicas = {1, 2, 3}
  MaxAttempts = 2
  Setups <- AllSetups
  MaxBorn = 1
  MaxIncidents = 1
INVARIANTS TypeOK KeyAgreement DisagreementBounded
PROPERTY EveryReplicaServes
CHECK_DEADLOCK FALSE
