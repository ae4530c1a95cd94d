SPECIFICATION FairSpec
CONSTANTS
  Unset = Unset
  NoClaims = NoClaims
  NoToken = NoToken
  Clients = {"c1", "c2"}
  Users <- SomeUsers
  Names <- SomeNames
  Workspaces <- SomeWorkspaces
  LocalNames <- SomeLocalNames
  Labels <- SomeLabels
  Setups <- SomeSetups
  Resources = {"pods", "configmaps"}
  Slots = {1, 2}
  Connections = {1, 2, 3}
INVARIANTS TypeOK UpdatesSurvive
PROPERTIES ActsOnChecked LateAnswersIgnored EventuallyShown
CHECK_DEADLOCK FALSE
