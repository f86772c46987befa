SPECIFICATION FairSpec
CONSTANTS
  Kind = "mesh"
  xDim = 2
  yDim = 1
  zDim = 1
  numLocalPorts = 1
  k = 2
  n = 2
  Router <- MCRouter
  Port <- MCPort
  Nic <- MCNic
  RouterOf <- MCRouterOf
  Peer <- MCPeer
  Route <- MCRoute
  WrapPort <- MCWrapPort
  Flood <- MCFlood
  Plan <- MCPlan
  Broadcast = Broadcast
  NumVns = 2
  NumVcs = 2
  InCap <- TwoFlits
  OutCap <- TwoFlits
  Packet = {}
  Src <- NoPackets
  Dest <- NoPackets
  PktVn <- NoPackets
  NumFlits <- NoPackets
  None = None
INVARIANTS
  TypeOK
  NeverFatal
  NeighboursKnown
  CreditsGranted
PROPERTIES
  UntimedImplemented
  EveryoneHears
CHECK_DEADLOCK FALSE
