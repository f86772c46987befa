----------------------------- MODULE Torus3DTopo -----------------------------
(***************************************************************************)
(* The three-dimensional torus: layers of two-dimensional tori joined into *)
(* rings along z.  Packets are routed along x, then y, then z.             *)
(***************************************************************************)
EXTENDS Integers

CONSTANTS xDim, yDim, zDim, numLocalPorts   \* all positive

RouterId == 0 .. xDim * yDim * zDim - 1
DestId   == 0 .. xDim * yDim * zDim * numLocalPorts - 1

NORTH  == 0
EAST   == 1
SOUTH  == 2
WEST   == 3
PLUSZ  == 4
MINUSZ == 5
LOCAL_PORT == 6

xId(r) == (r % (xDim * yDim)) % xDim
yId(r) == (r % (xDim * yDim)) \div xDim
zId(r) == r \div (xDim * yDim)

\* How the scripts in tests/ wire the ports.
RouterPorts(r) == NORTH .. MINUSZ
LocalPorts     == LOCAL_PORT .. LOCAL_PORT + numLocalPorts - 1
Opposite(i)    == IF i <= WEST THEN (i + 2) % 4 ELSE 9 - i
At(x, y, z)    == (z % zDim) * (xDim * yDim) + (y % yDim) * xDim + (x % xDim)
Neighbor(r, i) ==
  CASE i = NORTH  -> At(xId(r), yId(r) + 1, zId(r))
    [] i = EAST   -> At(xId(r) + 1, yId(r), zId(r))
    [] i = SOUTH  -> At(xId(r), yId(r) + yDim - 1, zId(r))
    [] i = WEST   -> At(xId(r) + xDim - 1, yId(r), zId(r))
    [] i = PLUSZ  -> At(xId(r), yId(r), zId(r) + 1)
    [] i = MINUSZ -> At(xId(r), yId(r), zId(r) + zDim - 1)

getEndpointId(r, portnum) ==
  IF portnum < LOCAL_PORT THEN -1 ELSE r * numLocalPorts + (portnum - LOCAL_PORT)

\* Faulty: the ring is not taken into account.
UpIsShorterInLine(a, b, dim) == b - a <= a - b

\* Faulty: only one way round is ever taken.
UpAlways(a, b, dim) == TRUE

\* Going up a ring of dim from a to b is no longer than going down.
UpIsShorter(a, b, dim) == (b - a + dim) % dim <= (a - b + dim) % dim

routePacket(r, dest) ==
  LET d == dest \div numLocalPorts
  IN  CASE d = r -> LOCAL_PORT + (dest - r * numLocalPorts)
        [] d # r /\ xId(d) # xId(r) ->
             IF UpIsShorter(xId(r), xId(d), xDim) THEN EAST ELSE WEST
        [] d # r /\ xId(d) = xId(r) /\ yId(d) # yId(r) ->
             IF UpIsShorter(yId(r), yId(d), yDim) THEN NORTH ELSE SOUTH
        [] OTHER ->
             IF UpIsShorter(zId(r), zId(d), zDim) THEN PLUSZ ELSE MINUSZ

\* The outputs that close a ring.  The class leaves TopologyAPI's answer to
\* isWrapAroundOutput as it is (never), so only sendBroadcast knows them.
ClosesRing(r, portnum) ==
  \/ portnum = EAST   /\ xId(r) = xDim - 1
  \/ portnum = WEST   /\ xId(r) = 0
  \/ portnum = NORTH  /\ yId(r) = yDim - 1
  \/ portnum = SOUTH  /\ yId(r) = 0
  \/ portnum = PLUSZ  /\ zId(r) = zDim - 1
  \/ portnum = MINUSZ /\ zId(r) = 0

isWrapAroundOutput(r, portnum) == FALSE

\* Faulty: nothing stops a broadcast from going round the ring.
sendBroadcastAround(r, dirs) == dirs

\* sendBroadcast: a broadcast never crosses the ring boundary.
sendBroadcast(r, dirs) == {i \in dirs : ~ClosesRing(r, i)}

\* Faulty: y does not spread into z.
broadcastSkipsLayers(r, i) ==
  (LocalPorts \ {i}) \cup
    sendBroadcast(r, IF i <= MINUSZ THEN {Opposite(i)} ELSE NORTH .. MINUSZ)

\* Dimension-ordered flood: x spreads into y and z, y into z, z straight on.
broadcastPorts(r, i) ==
  (LocalPorts \ {i}) \cup
    sendBroadcast(r, CASE i \in {PLUSZ, MINUSZ} -> {Opposite(i)}
                       [] i \in {NORTH, SOUTH}  -> {Opposite(i), PLUSZ, MINUSZ}
                       [] i \in {EAST, WEST}    -> (NORTH .. MINUSZ) \ {i}
                       [] OTHER                 -> NORTH .. MINUSZ)
=============================================================================
