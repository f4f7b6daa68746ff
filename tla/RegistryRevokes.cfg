SPECIFICATION BridgeSpec
CONSTANTS
  p1 = p1
  a1 = a1
  g1 = g1
  Properties <- OneProperty
  Agents <- OneAgent
  Grants <- OneGrant
  AgentOf <- GrantAgents
  Deployments = {"store"}
  Ops = {"put", "remove"}
  FeedLimit = 1
  BootstrapLimit = 2
  SaveStrikes = 2
  MaxKid = 2
  MaxEvents = 2
  MaxFaults = 3
CHECK_DEADLOCK FALSE
INVARIANTS RevokesHonoured
