--------------------------- MODULE GatewayTopology ---------------------------
(***************************************************************************)
(* The decorator that joins domains, each with a topology of its own, into *)
(* one address space.  Router rtr of domain d answers for its inner        *)
(* topology, and for the remote domains by sending packets to the gateway  *)
(* router of the first entry that covers them.                             *)
(***************************************************************************)
EXTENDS Integers, Sequences

CONSTANTS
  idBase, localRangeSize,        \* the addresses of a domain
  numLocalPorts,
  remoteRoutes,                  \* remoteRoutes[d]: its RemoteRoute records
  innerEndpointId(_, _, _),      \* the calls to inner: domain, router, argument
  innerRoutePacket(_, _, _),
  innerBroadcastPorts(_, _, _)

contains(route, dest) == dest >= route.idBase /\ dest - route.idBase < route.rangeSize

\* The ports of router rtr of domain d that lead to other domains.
myGatewayPorts(d, rtr) ==
  {remoteRoutes[d][i].gatewayPort :
     i \in {j \in DOMAIN remoteRoutes[d] : remoteRoutes[d][j].gatewayRtrId = rtr}}

getEndpointId(d, rtr, portnum) ==
  IF portnum \in myGatewayPorts(d, rtr) \/ innerEndpointId(d, rtr, portnum) < 0
  THEN -1
  ELSE idBase[d] + innerEndpointId(d, rtr, portnum)

\* Faulty: the end of the domain's range is not looked at.
isLocalOrAbove(d, dest) == dest >= idBase[d]

isLocal(d, dest) == dest >= idBase[d] /\ dest - idBase[d] < localRangeSize[d]

\* The first entry that covers dest (fatal if none does).
remoteRoute(d, dest) ==
  LET covers(i) == contains(remoteRoutes[d][i], dest)
  IN  remoteRoutes[d][CHOOSE i \in DOMAIN remoteRoutes[d] :
                        covers(i) /\ \A j \in 1 .. i - 1 : ~covers(j)]

\* Faulty: the inner topology is asked for the global address.
routePacketKeepsBase(d, rtr, dest) ==
  IF isLocal(d, dest) THEN innerRoutePacket(d, rtr, dest)
  ELSE LET r == remoteRoute(d, dest)
       IN  IF r.gatewayRtrId = rtr THEN r.gatewayPort
           ELSE innerRoutePacket(d, rtr, r.gatewayRtrId * numLocalPorts)

\* A packet for a remote domain is routed as if it were for the first endpoint of
\* the gateway router, whose gateway port it then takes.
routePacket(d, rtr, dest) ==
  IF isLocal(d, dest) THEN innerRoutePacket(d, rtr, dest - idBase[d])
  ELSE LET r == remoteRoute(d, dest)
       IN  IF r.gatewayRtrId = rtr THEN r.gatewayPort
           ELSE innerRoutePacket(d, rtr, r.gatewayRtrId * numLocalPorts)

\* Faulty: a broadcast is sent back where it came from.
broadcastBounces(d, rtr, i) ==
  innerBroadcastPorts(d, rtr, i) \cup myGatewayPorts(d, rtr)

\* A broadcast that came in on port i of router rtr: the inner topology treats a
\* gateway port as an endpoint's, and every other gateway port gets a copy.
broadcastPorts(d, rtr, i) ==
  innerBroadcastPorts(d, rtr, i) \cup (myGatewayPorts(d, rtr) \ {i})
=============================================================================
