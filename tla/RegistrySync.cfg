SPECIFICATION BridgeSpec
CONSTANTS
  p1 = p1
  a1 = a1
  g1 = g1
  Properties <- OneProperty
  Agents <- OneAgent
  Grants <- OneGrant
  AgentOf <- GrantAgents
  Deployments = {"store", "bridge"}
  Ops = {"put", "remove", "ignored", "untyped"}
  FeedLimit = 1
  BootstrapLimit = 2
  SaveStrikes = 2
  MaxKid = 2
  MaxEvents = 3
  MaxFaults = 2
CHECK_DEADLOCK FALSE
INVARIANTS BridgeTypeOK Recoverable CaughtUp ServedAsOfCursor
PROPERTIES Converges KeyKept SnapshotsReachProviders
