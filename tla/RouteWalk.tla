------------------------------ MODULE RouteWalk ------------------------------
(***************************************************************************)
(* One packet on its way through a topology: at every router it asks       *)
(* topo->routePacket for a port, until that port is an endpoint's.         *)
(***************************************************************************)
EXTENDS Integers

CONSTANT
  Topology   \* Topology[t]: what the routers of topology t answer, and its links:
             \*   OutPort[r][d]       what routePacket(d) answers at router r
             \*   Link[<<r, p>>]       the router port that port p of r leads to
             \*   EndpointId[<<r, p>>] the endpoint that port p of r leads to

VARIABLES
  topo,    \* the topology
  goal,    \* the destination of the packet
  at,      \* router it is at
  ejected, \* the endpoint it was handed to, once there is one
  ball     \* history: the routers some route of as many links leads to

vars == <<topo, goal, at, ejected, ball>>

Link       == Topology[topo].Link
EndpointId == Topology[topo].EndpointId
Out        == <<at, Topology[topo].OutPort[at][goal]>>

Init ==
  /\ topo \in DOMAIN Topology
  /\ at \in DOMAIN Topology[topo].OutPort
  /\ goal \in DOMAIN Topology[topo].OutPort[at]
  /\ ejected = {}
  /\ ball = {at}

Hop ==
  /\ ejected = {}
  /\ Out \in DOMAIN Link
  /\ at' = Link[Out][1]
  /\ ball' = ball \cup {Link[x][1] : x \in {y \in DOMAIN Link : y[1] \in ball}}
  /\ UNCHANGED <<topo, goal, ejected>>

Arrive ==
  /\ ejected = {}
  /\ Out \in DOMAIN EndpointId
  /\ ejected' = {EndpointId[Out]}
  /\ UNCHANGED <<topo, goal, at, ball>>

Next == Hop \/ Arrive

Spec == Init /\ [][Next]_vars /\ WF_vars(Next)

-----------------------------------------------------------------------------
\* The routing algorithm brings every packet to the endpoint it is addressed to.
ArrivesAtDest == <>(ejected = {goal})

\* ... over as few links as any route takes: while the packet is under way no
\* route of as many links has reached its destination yet.
ShortestRoute ==
  ejected = {} => \A x \in DOMAIN EndpointId : EndpointId[x] = goal /\ x[1] \in ball => x[1] = at
=============================================================================
