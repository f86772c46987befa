------------------------------ MODULE TorusTopo ------------------------------
(***************************************************************************)
(* The two-dimensional torus: a mesh whose rows and columns are rings.     *)
(* Packets take the shorter way round, east and north when both are equal. *)
(***************************************************************************)
EXTENDS Integers

CONSTANTS xDim, yDim, numLocalPorts   \* all positive

RouterId == 0 .. xDim * yDim - 1
DestId   == 0 .. xDim * yDim * numLocalPorts - 1

NORTH == 0
EAST  == 1
SOUTH == 2
WEST  == 3
LOCAL_PORT == 4

xId(r) == r % xDim
yId(r) == r \div xDim

\* How the scripts in tests/ wire the ports.
RouterPorts(r) == NORTH .. WEST
LocalPorts     == LOCAL_PORT .. LOCAL_PORT + numLocalPorts - 1
Opposite(i)    == (i + 2) % 4
Neighbor(r, i) ==
  CASE i = NORTH -> xDim * ((yId(r) + 1) % yDim) + xId(r)
    [] i = EAST  -> xDim * yId(r) + ((xId(r) + 1) % xDim)
    [] i = SOUTH -> xDim * ((yId(r) + yDim - 1) % yDim) + xId(r)
    [] i = WEST  -> xDim * yId(r) + ((xId(r) + xDim - 1) % xDim)

getEndpointId(r, portnum) ==
  IF portnum < LOCAL_PORT THEN -1 ELSE r * numLocalPorts + (portnum - LOCAL_PORT)

\* Faulty: going down is taken for a negative number of hops up.
HopsUpUnwrapped(a, b, dim) == b - a

\* Hops from position a to position b of a ring of dim, going up.
HopsUp(a, b, dim) == IF b - a < 0 THEN b - a + dim ELSE b - a

routePacket(r, dest) ==
  LET destRtr == dest \div numLocalPorts
      UpIsShorter(a, b, dim) == HopsUp(a, b, dim) <= HopsUp(b, a, dim)
  IN  CASE destRtr = r -> LOCAL_PORT + (dest - r * numLocalPorts)
        [] destRtr # r /\ xId(destRtr) # xId(r) ->
             IF UpIsShorter(xId(r), xId(destRtr), xDim) THEN EAST ELSE WEST
        [] OTHER ->
             IF UpIsShorter(yId(r), yId(destRtr), yDim) THEN NORTH ELSE SOUTH

isWrapAroundOutput(r, portnum) ==
  \/ portnum = EAST  /\ xId(r) = xDim - 1
  \/ portnum = WEST  /\ xId(r) = 0
  \/ portnum = NORTH /\ yId(r) = yDim - 1
  \/ portnum = SOUTH /\ yId(r) = 0

\* Faulty: nothing stops a broadcast from going round the ring.
sendBroadcastAround(r, dirs) == dirs

\* sendBroadcast: a broadcast never crosses the ring boundary.
sendBroadcast(r, dirs) == {i \in dirs : ~isWrapAroundOutput(r, i)}

\* Faulty: a broadcast never turns from a row into a column.
broadcastGoesStraight(r, i) ==
  (LocalPorts \ {i}) \cup
    sendBroadcast(r, IF i < LOCAL_PORT THEN {Opposite(i)} ELSE NORTH .. WEST)

\* The ports a broadcast that came in on port i leaves by.
broadcastPorts(r, i) ==
  (LocalPorts \ {i}) \cup
    sendBroadcast(r, CASE i \in {NORTH, SOUTH} -> {Opposite(i)}
                       [] i \in {EAST, WEST}   -> {Opposite(i), NORTH, SOUTH}
                       [] OTHER                -> NORTH .. WEST)
=============================================================================
