SPECIFICATION Spec
CONSTANTS
  f1 = f1
  f2 = f2
  Flows = {f1, f2}
  AgentUid = "agent"
  GatewayIp = "gw"
  Loopback = "local"
  AgentPort = 8000
  GatewayPort = 3128
  TcpPort = 15001
  UdpPort = 15002
  Packets <- MCPackets
  Tables <- MCTables
  Canonical <- MCCanonical
  NoHost = "none"
  Domains = {"api", "other"}
  Ports = {443, 80}
  Answers <- MCAnswers
  Public = {"a", "b"}
  Payloads = {"none"}
  MaxTokens = 1
INVARIANTS
  RefusalsAreOnRecord
  NothingLeavesUnvetted
  TunnelIsAPipe
PROPERTIES
  FlowsEnd
CHECK_DEADLOCK FALSE
