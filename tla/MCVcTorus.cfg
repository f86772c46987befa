SPECIFICATION VcSpec
CONSTANTS
  Kind = "torus"
  xDim = 5
  yDim = 5
  zDim = 1
  numLocalPorts = 1
  k = 2
  n = 2
  Router <- MCRouter
  Port <- MCPort
  Nic <- MCNic
  RouterOf <- MCRouterOf
  Peer <- MCPeer
  Route <- MCRoute
  WrapPort <- MCWrapPort
  NumVns = 1
  NumVcs = 2
  InCap <- OneFlit
  OutCap <- OneFlit
  Packet = {}
  Src <- NoPackets
  Dest <- NoPackets
  PktVn <- NoPackets
  NumFlits <- NoPackets
  None = None
PROPERTIES
  AcyclicDependencies
CHECK_DEADLOCK FALSE
