------------------------------ MODULE Domains ------------------------------
(***************************************************************************)
(* Meshes of 2x2 routers joined by gateways as in the tests, and a         *)
(* triangle of domains of other sizes.                                     *)
(***************************************************************************)
Via(base, size, rtr, port) ==
  [idBase |-> base, rangeSize |-> size, gatewayRtrId |-> rtr, gatewayPort |-> port]
At(d, rtr) == <<<<d, rtr>>, 5>>

\* tests/mesh2x2_triangle_gateway_untimed_broadcast.py
TriangleLayout ==
  [A |-> [x |-> 2, y |-> 2, idBase |-> 0, remotes |-> <<Via(4, 4, 1, 5), Via(8, 4, 3, 5)>>],
   B |-> [x |-> 2, y |-> 2, idBase |-> 4, remotes |-> <<Via(0, 4, 0, 5), Via(8, 4, 1, 5)>>],
   C |-> [x |-> 2, y |-> 2, idBase |-> 8, remotes |-> <<Via(0, 4, 0, 5), Via(4, 4, 2, 5)>>]]
TriangleJoined ==
  {{At("A", 1), At("B", 0)}, {At("A", 3), At("C", 0)},
   {At("B", 1), At("C", 2)}}

\* tests/mesh2x2_chain_gateway_untimed_broadcast.py
ChainLayout ==
  [A |-> [x |-> 2, y |-> 2, idBase |-> 0, remotes |-> <<Via(4, 4, 1, 5), Via(8, 4, 1, 5)>>],
   B |-> [x |-> 2, y |-> 2, idBase |-> 4, remotes |-> <<Via(0, 4, 0, 5), Via(8, 4, 1, 5)>>],
   C |-> [x |-> 2, y |-> 2, idBase |-> 8, remotes |-> <<Via(4, 4, 0, 5), Via(0, 4, 0, 5)>>]]
ChainJoined ==
  {{At("A", 1), At("B", 0)}, {At("B", 1), At("C", 0)}}

\* A triangle in which the domain A is a row of three routers, with its gateways
\* at the two ends, and B and C are single routers.
LongTriangleLayout ==
  [A |-> [x |-> 3, y |-> 1, idBase |-> 0, remotes |-> <<Via(3, 1, 0, 5), Via(4, 1, 2, 5)>>],
   B |-> [x |-> 1, y |-> 1, idBase |-> 3, remotes |-> <<Via(0, 3, 0, 5), Via(4, 1, 0, 6)>>],
   C |-> [x |-> 1, y |-> 1, idBase |-> 4, remotes |-> <<Via(0, 3, 0, 5), Via(3, 1, 0, 6)>>]]
LongTriangleJoined ==
  {{At("A", 0), At("B", 0)}, {At("A", 2), At("C", 0)},
   {<<<<"B", 0>>, 6>>, <<<<"C", 0>>, 6>>}}

-----------------------------------------------------------------------------
Triangle     == INSTANCE GatewayDomains WITH Layout <- TriangleLayout, Joined <- TriangleJoined
Chain        == INSTANCE GatewayDomains WITH Layout <- ChainLayout, Joined <- ChainJoined
LongTriangle ==
  INSTANCE GatewayDomains WITH Layout <- LongTriangleLayout, Joined <- LongTriangleJoined
=============================================================================
