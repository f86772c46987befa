---------------------------- MODULE MeshTopology ----------------------------
(***************************************************************************)
(* The two-dimensional mesh: router r sits at column r % xDim of row       *)
(* r \div xDim and hosts endpoints r * numLocalPorts onwards.  Packets are *)
(* routed along the row first, then along the column.                      *)
(***************************************************************************)
EXTENDS Integers

CONSTANTS xDim, yDim, numLocalPorts   \* all positive

RouterId == 0 .. xDim * yDim - 1
DestId   == 0 .. xDim * yDim * numLocalPorts - 1

\* PortDirE; local port i is port LOCAL_PORT + i.
NORTH == 0
EAST  == 1
SOUTH == 2
WEST  == 3
LOCAL_PORT == 4

xId(r) == r % xDim
yId(r) == r \div xDim

\* How the scripts in tests/ wire the ports: port i of router r leads to port
\* Opposite(i) of router Neighbor(r, i), if there is one in the grid.
Wired(r, i) ==
  \/ i = NORTH /\ yId(r) < yDim - 1
  \/ i = EAST  /\ xId(r) < xDim - 1
  \/ i = SOUTH /\ yId(r) > 0
  \/ i = WEST  /\ xId(r) > 0

RouterPorts(r) == {i \in NORTH .. WEST : Wired(r, i)}
LocalPorts     == LOCAL_PORT .. LOCAL_PORT + numLocalPorts - 1
Opposite(i)    == (i + 2) % 4
Neighbor(r, i) ==
  CASE i = NORTH -> r + xDim [] i = EAST -> r + 1 [] i = SOUTH -> r - xDim [] i = WEST -> r - 1

\* The endpoint behind port portnum of router r, -1 for a router-to-router port.
getEndpointId(r, portnum) ==
  IF portnum < LOCAL_PORT THEN -1 ELSE r * numLocalPorts + (portnum - LOCAL_PORT)

\* Faulty: north and south are mistaken for each other.
routePacketUpsideDown(r, dest) ==
  LET destRtr == dest \div numLocalPorts
  IN  CASE xId(destRtr) < xId(r) -> WEST
        [] xId(destRtr) > xId(r) -> EAST
        [] xId(destRtr) = xId(r) /\ yId(destRtr) < yId(r) -> NORTH
        [] xId(destRtr) = xId(r) /\ yId(destRtr) > yId(r) -> SOUTH
        [] OTHER -> LOCAL_PORT + (dest - r * numLocalPorts)

\* The output port for a packet to endpoint dest at router r.
routePacket(r, dest) ==
  LET destRtr == dest \div numLocalPorts
  IN  CASE xId(destRtr) < xId(r) -> WEST
        [] xId(destRtr) > xId(r) -> EAST
        [] xId(destRtr) = xId(r) /\ yId(destRtr) < yId(r) -> SOUTH
        [] xId(destRtr) = xId(r) /\ yId(destRtr) > yId(r) -> NORTH
        [] OTHER -> LOCAL_PORT + (dest - r * numLocalPorts)

\* Faulty: a broadcast turns from the columns too, or from the rows neither.
broadcastTurnsEverywhere(r, i) == (LocalPorts \cup RouterPorts(r)) \ {i}

broadcastGoesStraight(r, i) ==
  (LocalPorts \ {i}) \cup
    (IF i < LOCAL_PORT THEN {Opposite(i)} \cap RouterPorts(r) ELSE RouterPorts(r))

\* The ports a broadcast that came in on port i leaves by: along the row it also
\* turns into every column, along a column it goes straight on.
broadcastPorts(r, i) ==
  (LocalPorts \ {i}) \cup
    CASE i \in {NORTH, SOUTH} -> {Opposite(i)} \cap RouterPorts(r)
      [] i \in {EAST, WEST}   -> RouterPorts(r) \ {i}
      [] OTHER                -> RouterPorts(r)

\* TopologyAPI's default: a mesh has no wrap-around links.
isWrapAroundOutput(r, portnum) == FALSE
=============================================================================
