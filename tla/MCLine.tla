------------------------------- MODULE MCLine -------------------------------
(***************************************************************************)
(* A 2x1 mesh with two endpoints per router.  Packets of both endpoints of *)
(* one router go to one endpoint of the other: they share the link between *)
(* the routers on different virtual channels and are serialized again for  *)
(* the only channel the NIC takes packets on.                              *)
(***************************************************************************)
EXTENDS MordredNoc, TLC

Mesh == INSTANCE MeshTopology WITH xDim <- 2, yDim <- 1, numLocalPorts <- 2

CONSTANTS BufFlits,   \* buffers of routers, and input buffers of NICs
          Traffic     \* one record per packet

\* Ports are <<"port", router, number>>, NICs <<"nic", endpoint>>.
P(r, i) == <<"port", r, i>>
N(d)    == <<"nic", d>>

\* Only the NICs that have something to do are connected.
MCNic      == UNION {{N(Traffic[k].src), N(Traffic[k].dest)} : k \in DOMAIN Traffic}
Local      == {p \in {P(r, i) : r \in Mesh!RouterId, i \in Mesh!LocalPorts} :
                 N(Mesh!getEndpointId(p[2], p[3])) \in MCNic}
MCPort     == Local \cup {P(0, Mesh!EAST), P(1, Mesh!WEST)}
MCRouterOf == [p \in MCPort |-> p[2]]
MCPeer     == [e \in MCPort \cup MCNic |->
                 IF e \in MCNic THEN CHOOSE p \in Local : N(Mesh!getEndpointId(p[2], p[3])) = e
                 ELSE IF e \in Local THEN N(Mesh!getEndpointId(e[2], e[3]))
                 ELSE CHOOSE p \in MCPort \ Local : p # e]
MCRoute    == [r \in {0, 1} |-> [d \in MCNic |-> P(r, Mesh!routePacket(r, d[2]))]]

MCInCap    == [e \in End |-> BufFlits]
MCOutCap   == [e \in End |-> IF e \in MCNic THEN 3 ELSE BufFlits]

MCPacket   == DOMAIN Traffic
MCSrc      == [k \in MCPacket |-> N(Traffic[k].src)]
MCDest     == [k \in MCPacket |-> N(Traffic[k].dest)]
MCPktVn    == [k \in MCPacket |-> Traffic[k].vn]
MCNumFlits == [k \in MCPacket |-> Traffic[k].flits]

\* Packets of two NICs of one router to a NIC of the other.
TwoSources == <<[src |-> 0, dest |-> 2, vn |-> 0, flits |-> 2],
                [src |-> 1, dest |-> 2, vn |-> 0, flits |-> 2]>>
=============================================================================
