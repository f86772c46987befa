----------------------------- MODULE Topologies -----------------------------
(***************************************************************************)
(* The topologies behind one interface: tables of what the topology of     *)
(* every router answers, for the modules that need any topology.           *)
(***************************************************************************)
EXTENDS Integers

CONSTANTS
  Kind,                            \* "mesh", "torus", "torus3D" or "butterfly"
  xDim, yDim, zDim, numLocalPorts, \* of a mesh or torus
  k, n                             \* of a butterfly

Mesh      == INSTANCE MeshTopology
Torus     == INSTANCE TorusTopo
Torus3D   == INSTANCE Torus3DTopo
Butterfly == INSTANCE FlatButterflyTopo

RouterId ==
  CASE Kind = "mesh"    -> Mesh!RouterId
    [] Kind = "torus"   -> Torus!RouterId
    [] Kind = "torus3D" -> Torus3D!RouterId
    [] OTHER            -> Butterfly!RouterId

DestId ==
  CASE Kind = "mesh"    -> Mesh!DestId
    [] Kind = "torus"   -> Torus!DestId
    [] Kind = "torus3D" -> Torus3D!DestId
    [] OTHER            -> Butterfly!DestId

routePacket(r, d) ==
  CASE Kind = "mesh"    -> Mesh!routePacket(r, d)
    [] Kind = "torus"   -> Torus!routePacket(r, d)
    [] Kind = "torus3D" -> Torus3D!routePacket(r, d)
    [] OTHER            -> Butterfly!routePacket(r, d)

RouterPorts(r) ==
  CASE Kind = "mesh"    -> Mesh!RouterPorts(r)
    [] Kind = "torus"   -> Torus!RouterPorts(r)
    [] Kind = "torus3D" -> Torus3D!RouterPorts(r)
    [] OTHER            -> Butterfly!RouterPorts(r)

LocalPorts ==
  CASE Kind = "mesh"    -> Mesh!LocalPorts
    [] Kind = "torus"   -> Torus!LocalPorts
    [] Kind = "torus3D" -> Torus3D!LocalPorts
    [] OTHER            -> Butterfly!LocalPorts

OtherEnd(r, i) ==
  CASE Kind = "mesh"    -> <<Mesh!Neighbor(r, i), Mesh!Opposite(i)>>
    [] Kind = "torus"   -> <<Torus!Neighbor(r, i), Torus!Opposite(i)>>
    [] Kind = "torus3D" -> <<Torus3D!Neighbor(r, i), Torus3D!Opposite(i)>>
    [] OTHER            -> <<Butterfly!Neighbor(r, i), Butterfly!Opposite(r, i)>>

getEndpointId(r, i) ==
  CASE Kind = "mesh"    -> Mesh!getEndpointId(r, i)
    [] Kind = "torus"   -> Torus!getEndpointId(r, i)
    [] Kind = "torus3D" -> Torus3D!getEndpointId(r, i)
    [] OTHER            -> Butterfly!getEndpointId(r, i)

isWrapAroundOutput(r, i) ==
  CASE Kind = "torus"   -> Torus!isWrapAroundOutput(r, i)
    [] Kind = "torus3D" -> Torus3D!isWrapAroundOutput(r, i)
    [] OTHER            -> FALSE

broadcastPorts(r, i) ==
  CASE Kind = "mesh"    -> Mesh!broadcastPorts(r, i)
    [] Kind = "torus"   -> Torus!broadcastPorts(r, i)
    [] Kind = "torus3D" -> Torus3D!broadcastPorts(r, i)

-----------------------------------------------------------------------------
RouterPort == UNION {{<<r, i>> : i \in RouterPorts(r)} : r \in RouterId}
LocalPort  == RouterId \X LocalPorts

OutPortTable    == [r \in RouterId |-> [d \in DestId |-> routePacket(r, d)]]
LinkTable       == [x \in RouterPort |-> OtherEnd(x[1], x[2])]
EndpointIdTable == [x \in LocalPort |-> getEndpointId(x[1], x[2])]
WrapTable       == {x \in RouterPort : isWrapAroundOutput(x[1], x[2])}
-----------------------------------------------------------------------------
\* The same as the constants of NocParams: ports are <<router, number>>, the NIC
\* of endpoint d is <<d>>.
NicTable      == {<<d>> : d \in DestId}
PortTable     == RouterPort \cup LocalPort
RouterOfTable == [p \in PortTable |-> p[1]]
RouteTable    == [r \in RouterId |-> [e \in NicTable |-> <<r, routePacket(r, e[1])>>]]
PeerTable     == [e \in PortTable \cup NicTable |->
                    IF e \in RouterPort THEN LinkTable[e]
                    ELSE IF e \in LocalPort THEN <<EndpointIdTable[e]>>
                    ELSE CHOOSE p \in LocalPort : EndpointIdTable[p] = e[1]]
FloodTable    == [p \in PortTable |-> {<<p[1], i>> : i \in broadcastPorts(p[1], p[2])}]

-----------------------------------------------------------------------------
\* What RouteWalk and UntimedBroadcast need.
Walk == [OutPort |-> OutPortTable, Link |-> LinkTable, EndpointId |-> EndpointIdTable]
Net  == [Port |-> PortTable, Nic |-> NicTable, RouterOf |-> RouterOfTable, Peer |-> PeerTable,
         Route |-> RouteTable, Flood |-> FloodTable, GatewayPort |-> {},
         DomainOf |-> [r \in RouterId |-> "only"]]

-----------------------------------------------------------------------------
\* The names the cfgs use: what a cfg gives to a constant TLC evaluates at every
\* use, but the definitions it refers to only once.
MCRouter     == RouterId
MCWrapPort   == WrapTable
MCPort       == PortTable
MCNic        == NicTable
MCRouterOf   == RouterOfTable
MCRoute      == RouteTable
MCPeer       == PeerTable
=============================================================================
