SPECIFICATION Spec
CONSTANTS
  Unset = Unset
  NoClaims = NoClaims
  NoToken = NoToken
  Verifiers = {"ws", "http"}
  Ws = "ws"
  Ttl = 2
  MaxTime = 4
  MaxRotations = 1
  MaxFailures = 1
  Setups <- SomeSetups
  Callers <- SomeCallers
  Claims <- SomeClaims
  Listings <- SomeListings
  Paths <- SomePaths
INVARIANT FrameIntegrity
CHECK_DEADLOCK FALSE
