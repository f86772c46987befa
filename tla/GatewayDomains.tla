--------------------------- MODULE GatewayDomains ---------------------------
(***************************************************************************)
(* Meshes joined by gateways, as the tests join them, and the tables that  *)
(* other modules need of their topology.  Routers are <<domain, number>>,  *)
(* ports <<router, number>>, NICs <<address>>.                             *)
(***************************************************************************)
EXTENDS Integers

CONSTANTS
  Layout,   \* per domain: size, idBase, and the routes to remote domains
  Joined    \* the links between gateway ports, each a set of two ports

Mesh(d) == INSTANCE MeshTopology WITH xDim <- Layout[d].x, yDim <- Layout[d].y,
                                      numLocalPorts <- 1

MeshEndpointId(d, rtr, i)     == Mesh(d)!getEndpointId(rtr, i)
MeshRoutePacket(d, rtr, dest) == Mesh(d)!routePacket(rtr, dest)
MeshBroadcastPorts(d, rtr, i) == Mesh(d)!broadcastPorts(rtr, i)

Domain  == DOMAIN Layout
Gateway == INSTANCE GatewayTopology WITH
             idBase              <- [d \in Domain |-> Layout[d].idBase],
             localRangeSize      <- [d \in Domain |-> Layout[d].x * Layout[d].y],
             remoteRoutes        <- [d \in Domain |-> Layout[d].remotes],
             numLocalPorts       <- 1,
             innerEndpointId     <- MeshEndpointId,
             innerRoutePacket    <- MeshRoutePacket,
             innerBroadcastPorts <- MeshBroadcastPorts

-----------------------------------------------------------------------------
RouterTable  == {<<d, r>> \in Domain \X (0 .. 15) : r \in Mesh(d)!RouterId}
GatewayTable == UNION Joined
MeshPorts    == UNION {{<<r, i>> : i \in Mesh(r[1])!RouterPorts(r[2])} : r \in RouterTable}
LocalTable   == UNION {{<<r, i>> : i \in Mesh(r[1])!LocalPorts} : r \in RouterTable}

EndpointIdTable == [p \in LocalTable |-> Gateway!getEndpointId(p[1][1], p[1][2], p[2])]
DestTable       == {EndpointIdTable[p] : p \in LocalTable}
LinkTable       == [p \in MeshPorts \cup GatewayTable |->
                      IF p \in GatewayTable
                      THEN CHOOSE q \in GatewayTable : q # p /\ {p, q} \in Joined
                      ELSE LET m == p[1][1] IN
                           <<<<m, Mesh(m)!Neighbor(p[1][2], p[2])>>, Mesh(m)!Opposite(p[2])>>]
OutPortTable    == [r \in RouterTable |-> [d \in DestTable |-> Gateway!routePacket(r[1], r[2], d)]]

PortTable     == MeshPorts \cup LocalTable \cup GatewayTable
NicTable      == {<<d>> : d \in DestTable}
RouterOfTable == [p \in PortTable |-> p[1]]
DomainTable   == [r \in RouterTable |-> r[1]]
RouteTable    == [r \in RouterTable |-> [e \in NicTable |-> <<r, OutPortTable[r][e[1]]>>]]
PeerTable     == [e \in PortTable \cup NicTable |->
                    IF e \in LocalTable THEN <<EndpointIdTable[e]>>
                    ELSE IF e \in PortTable THEN LinkTable[e]
                    ELSE CHOOSE p \in LocalTable : EndpointIdTable[p] = e[1]]
FloodTable    == [p \in PortTable |->
                    {<<p[1], i>> : i \in Gateway!broadcastPorts(p[1][1], p[1][2], p[2])}]

-----------------------------------------------------------------------------
\* What RouteWalk and UntimedBroadcast need.
Walk == [OutPort |-> OutPortTable, Link |-> LinkTable, EndpointId |-> EndpointIdTable]
Net  == [Port |-> PortTable, Nic |-> NicTable, RouterOf |-> RouterOfTable, Peer |-> PeerTable,
         Route |-> RouteTable, Flood |-> FloodTable, GatewayPort |-> GatewayTable,
         DomainOf |-> DomainTable]
=============================================================================
