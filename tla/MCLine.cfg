SPECIFICATION FairSpec
CONSTANTS
  Router = {0, 1}
  Port <- MCPort
  Nic <- MCNic
  RouterOf <- MCRouterOf
  Peer <- MCPeer
  Route <- MCRoute
  WrapPort = {}
  NumVns = 1
  NumVcs = 2
  InCap <- MCInCap
  OutCap <- MCOutCap
  Packet <- MCPacket
  Src <- MCSrc
  Dest <- MCDest
  PktVn <- MCPktVn
  NumFlits <- MCNumFlits
  None = None
  BufFlits = 1
  Traffic <- TwoSources
INVARIANTS
  CreditConservation
  BuffersBounded
  RequestsCurrent
  PacketsIntact
  OutputSpaceExact
  CrossbarMatching
PROPERTIES
  EventuallyDelivered
  ServiceImplemented
