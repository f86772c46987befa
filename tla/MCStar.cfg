SPECIFICATION Spec
CONSTANTS
  Router = {"r"}
  Port <- MCPort
  Nic <- MCNic
  RouterOf <- MCRouterOf
  Peer <- MCPeer
  Route <- MCRoute
  WrapPort = {}
  NumVns = 2
  NumVcs = 1
  InCap <- MCInCap
  OutCap <- MCOutCap
  Packet <- MCPacket
  Src <- MCSrc
  Dest <- MCDest
  PktVn <- MCPktVn
  NumFlits <- MCNumFlits
  None = None
  InFlits = 1
  OutFlits = 1
  NicFlits = 1
  LongFlits = 3
INVARIANTS
  TypeOK
  CreditConservation
  VcOwnership
  NoFatal
  NoInterleaving
  FlowOrder
