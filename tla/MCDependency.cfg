SPECIFICATION Spec
CONSTANTS
  Router <- MCRouter
  Port <- MCPort
  Nic <- MCNic
  RouterOf <- MCRouterOf
  Peer <- MCPeer
  Route <- MCRoute
  WrapPort <- MCWrapPort
  NumVns = 1
  NumVcs = 2
  InCap <- OneFlit
  OutCap <- OneFlit
  Packet = {}
  Src <- NoPackets
  Dest <- NoPackets
  PktVn <- NoPackets
  NumFlits <- NoPackets
  None = None
PROPERTIES
  AcyclicDependencies
CHECK_DEADLOCK FALSE
