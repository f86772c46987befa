-------------------------- MODULE Topologies_proofs --------------------------
(***************************************************************************)
(* Proofs about the networks the topology classes make, whatever their     *)
(* size: in a mesh no packets ever wait for each other in a circle, in     *)
(* meshes and tori packets take the shortest routes, and the flood of a    *)
(* broadcast is a tree.                                                    *)
(***************************************************************************)
EXTENDS Topologies, RouteWalk, SeqFacts, FiniteSetTheorems

CONSTANTS NumVcs, Network, Broadcast, Plan
VARIABLES first, held,
          network, plan, numSent, arriving, departing, initEvents, sSeenBroadcastOrigins

\* Who waits for whom in the network of the tables.
V == INSTANCE VcDependency WITH
       Router <- RouterId, Port <- PortTable, Nic <- NicTable, RouterOf <- RouterOfTable,
       Peer <- PeerTable, Route <- RouteTable, WrapPort <- WrapTable,
       NumVns <- 1, InCap <- <<>>, OutCap <- <<>>, Packet <- {}, Src <- <<>>, Dest <- <<>>,
       PktVn <- <<>>, NumFlits <- <<>>, None <- 0

\* Untimed data.
U == INSTANCE UntimedBroadcast_proofs

\* What the scripts in tests/ give the routers of a grid.
Grid == xDim \in Nat \ {0} /\ yDim \in Nat \ {0} /\ numLocalPorts \in Nat \ {0}

IsMesh  == Kind = "mesh" /\ Grid
IsTorus == Kind = "torus" /\ Grid

-----------------------------------------------------------------------------
(* Rows and columns.                                                       *)

\* The column and the row of a router.
Col(r) == r % xDim
Row(r) == r \div xDim

LEMMA ColRow ==
  ASSUME Grid, NEW r \in 0 .. (xDim * yDim) - 1
  PROVE  Col(r) \in 0 .. xDim - 1 /\ Row(r) \in 0 .. yDim - 1 /\ r = (xDim * Row(r)) + Col(r)
<1> DEFINE x == r % xDim
           y == r \div xDim
<1>1. xDim \in Nat \ {0} /\ yDim \in Nat \ {0} /\ xDim * yDim \in Nat /\ r \in Nat
      /\ r < xDim * yDim
  BY DEF Grid
<1>2. x \in 0 .. xDim - 1 /\ y \in Nat /\ r = (xDim * y) + x
  BY <1>1
<1> HIDE DEF x, y
<1>3. y < yDim
  <2> SUFFICES ASSUME y >= yDim PROVE FALSE
    BY <1>1, <1>2
  <2>1. xDim * yDim <= xDim * y
    BY <1>1, <1>2
  <2>2. xDim * y \in Nat
    BY <1>1, <1>2
  <2>3. QED
    BY <1>1, <1>2, <2>1, <2>2
<1>4. QED
  BY <1>1, <1>2, <1>3 DEF Col, Row, x, y

LEMMA CellOf ==
  ASSUME Grid, NEW x \in 0 .. xDim - 1, NEW y \in 0 .. yDim - 1
  PROVE  /\ (xDim * y) + x \in 0 .. (xDim * yDim) - 1
         /\ Col((xDim * y) + x) = x /\ Row((xDim * y) + x) = y
<1> DEFINE r == (xDim * y) + x
<1>1. xDim \in Nat \ {0} /\ yDim \in Nat \ {0} /\ x \in Nat /\ y \in Nat
  BY DEF Grid
<1>2. xDim * y \in Nat
  BY <1>1
<1>3. (xDim * y) + xDim <= xDim * yDim
  <2>1. xDim * (y + 1) <= xDim * yDim
    BY <1>1
  <2>2. xDim * (y + 1) = (xDim * y) + xDim
    BY <1>1
  <2>3. QED
    BY <2>1, <2>2
<1>4. r \in Nat /\ r < xDim * yDim /\ xDim * yDim \in Nat
  BY <1>1, <1>2, <1>3
<1> HIDE DEF r
<1>5. r \div xDim = y /\ r % xDim = x <=> r = (xDim * y) + x
  BY <1>1, <1>4, QuotientUnique
<1>6. QED
  BY <1>4, <1>5 DEF Col, Row, r

LEMMA SameCell ==
  ASSUME Grid, NEW r \in 0 .. (xDim * yDim) - 1, NEW s \in 0 .. (xDim * yDim) - 1,
         Col(r) = Col(s), Row(r) = Row(s)
  PROVE  r = s
BY ColRow

\* The router of an endpoint.
Home(e) == e \div numLocalPorts

LEMMA HomeType ==
  ASSUME numLocalPorts \in Nat \ {0}, NEW N \in Nat, NEW e \in 0 .. (N * numLocalPorts) - 1
  PROVE  /\ Home(e) \in 0 .. N - 1
         /\ e - Home(e) * numLocalPorts \in 0 .. numLocalPorts - 1
<1> DEFINE h == e \div numLocalPorts
           l == e % numLocalPorts
<1>1. e \in Nat /\ e < N * numLocalPorts /\ N * numLocalPorts \in Nat
  OBVIOUS
<1>2. h \in Nat /\ l \in 0 .. numLocalPorts - 1 /\ e = (numLocalPorts * h) + l
  BY <1>1
<1> HIDE DEF h, l
<1>3. h < N
  <2> SUFFICES ASSUME h >= N PROVE FALSE
    BY <1>1, <1>2
  <2>1. N * numLocalPorts <= numLocalPorts * h
    BY <1>1, <1>2
  <2>2. numLocalPorts * h \in Nat
    BY <1>2
  <2>3. QED
    BY <1>1, <1>2, <2>1, <2>2
<1>4. e - h * numLocalPorts = l
  <2>1. numLocalPorts * h \in Nat /\ h * numLocalPorts = numLocalPorts * h
    BY <1>1, <1>2
  <2>2. QED
    BY <1>2, <2>1
<1>5. QED
  BY <1>1, <1>2, <1>3, <1>4 DEF Home, h

\* The endpoints of a router.
LEMMA HomeUnique ==
  ASSUME numLocalPorts \in Nat \ {0}, NEW N \in Nat, NEW r \in 0 .. N - 1,
         NEW i \in 0 .. numLocalPorts - 1
  PROVE  /\ r * numLocalPorts + i \in 0 .. (N * numLocalPorts) - 1
         /\ Home(r * numLocalPorts + i) = r
<1> DEFINE e == r * numLocalPorts + i
<1>1. r \in Nat /\ i \in Nat /\ r + 1 <= N
  OBVIOUS
<1>2. r * numLocalPorts \in Nat /\ r * numLocalPorts = numLocalPorts * r
  BY <1>1
<1>3. (r * numLocalPorts) + numLocalPorts <= N * numLocalPorts
  <2>1. (r + 1) * numLocalPorts <= N * numLocalPorts
    BY <1>1
  <2>2. (r + 1) * numLocalPorts = (r * numLocalPorts) + numLocalPorts
    BY <1>1
  <2>3. QED
    BY <2>1, <2>2
<1>4. e \in Nat /\ e < N * numLocalPorts /\ e = (numLocalPorts * r) + i
      /\ N * numLocalPorts \in Nat
  BY <1>1, <1>2, <1>3
<1> HIDE DEF e
<1>5. e \div numLocalPorts = r /\ e % numLocalPorts = i <=> e = (numLocalPorts * r) + i
  BY <1>1, <1>4, QuotientUnique
<1>6. QED
  BY <1>4, <1>5 DEF Home, e

-----------------------------------------------------------------------------
(* Tables of N routers whose local ports begin with number lp.             *)

Regular(N, lp) ==
  /\ N \in Nat /\ lp \in Nat /\ numLocalPorts \in Nat \ {0}
  /\ RouterId = 0 .. N - 1 /\ DestId = 0 .. (N * numLocalPorts) - 1
  /\ LocalPorts = lp .. lp + numLocalPorts - 1
  /\ \A r \in RouterId : RouterPorts(r) \subseteq 0 .. lp - 1
  /\ \A r \in RouterId, i \in LocalPorts : getEndpointId(r, i) = r * numLocalPorts + (i - lp)
  /\ \A r \in RouterId : \A i \in RouterPorts(r) : \E s \in RouterId : \E j \in RouterPorts(s) :
       OtherEnd(r, i) = <<s, j>> /\ OtherEnd(s, j) = <<r, i>> /\ <<s, j>> # <<r, i>>
  /\ \A r \in RouterId, e \in DestId :
       \/ routePacket(r, e) \in RouterPorts(r)
       \/ r = Home(e) /\ routePacket(r, e) = lp + (e - r * numLocalPorts)

LEMMA EndpointIds ==
  ASSUME NEW N, NEW lp, Regular(N, lp)
  PROVE  /\ \A r \in RouterId, i \in LocalPorts :
              getEndpointId(r, i) \in DestId /\ Home(getEndpointId(r, i)) = r
         /\ \A e \in DestId :
              /\ Home(e) \in RouterId /\ lp + (e - Home(e) * numLocalPorts) \in LocalPorts
              /\ \A r \in RouterId, i \in LocalPorts :
                   getEndpointId(r, i) = e
                     <=> r = Home(e) /\ i = lp + (e - Home(e) * numLocalPorts)
<1>1. /\ N \in Nat /\ lp \in Nat /\ numLocalPorts \in Nat \ {0}
      /\ RouterId = 0 .. N - 1 /\ DestId = 0 .. (N * numLocalPorts) - 1
      /\ LocalPorts = lp .. lp + numLocalPorts - 1
      /\ \A r \in RouterId, i \in LocalPorts : getEndpointId(r, i) = r * numLocalPorts + (i - lp)
  BY DEF Regular
<1>2. ASSUME NEW r \in RouterId, NEW i \in LocalPorts
      PROVE  getEndpointId(r, i) \in DestId /\ Home(getEndpointId(r, i)) = r
  <2>1. i - lp \in 0 .. numLocalPorts - 1 /\ r \in 0 .. N - 1
    BY <1>1
  <2>2. QED
    BY <1>1, <2>1, HomeUnique
<1>3. ASSUME NEW e \in DestId
      PROVE  /\ Home(e) \in RouterId /\ lp + (e - Home(e) * numLocalPorts) \in LocalPorts
             /\ \A r \in RouterId, i \in LocalPorts :
                  getEndpointId(r, i) = e
                    <=> r = Home(e) /\ i = lp + (e - Home(e) * numLocalPorts)
  <2> DEFINE h == Home(e)
             l == e - h * numLocalPorts
             c == h * numLocalPorts
  <2>1. h \in 0 .. N - 1 /\ l \in 0 .. numLocalPorts - 1
    BY <1>1, HomeType
  <2>2. c \in Int /\ e \in Int /\ l = e - c
    BY <1>1, <2>1
  <2> HIDE DEF h, l, c
  <2>3. h \in RouterId /\ lp + l \in LocalPorts
    BY <1>1, <2>1
  <2>4. ASSUME NEW i \in LocalPorts PROVE getEndpointId(h, i) = e <=> i = lp + l
    <3>1. getEndpointId(h, i) = c + (i - lp) /\ i \in Int
      BY <1>1, <2>3 DEF c
    <3>2. QED
      BY <1>1, <2>2, <3>1
  <2>5. QED
    BY <1>2, <2>3, <2>4 DEF h, l
<1>4. QED
  BY <1>2, <1>3

LEMMA TablePorts ==
  ASSUME NEW N, NEW lp, Regular(N, lp)
  PROVE  /\ \A r, i : <<r, i>> \in RouterPort <=> r \in RouterId /\ i \in RouterPorts(r)
         /\ \A p \in RouterPort : p[1] \in RouterId /\ p[2] \in RouterPorts(p[1]) /\ p = <<p[1], p[2]>>
         /\ \A p \in LocalPort : p[1] \in RouterId /\ p[2] \in LocalPorts /\ p = <<p[1], p[2]>>
         /\ RouterPort \cap LocalPort = {} /\ PortTable \cap NicTable = {}
<1>1. \A r \in RouterId : RouterPorts(r) \cap LocalPorts = {}
  BY DEF Regular
<1>2. \A e : \A r, i : <<e>> # <<r, i>>
  OBVIOUS
<1>3. QED
  BY <1>1, <1>2 DEF RouterPort, LocalPort, PortTable, NicTable

\* Who is at the other end of a link.
LEMMA TablePeers ==
  ASSUME NEW N, NEW lp, Regular(N, lp)
  PROVE  /\ \A p \in RouterPort : /\ PeerTable[p] = OtherEnd(p[1], p[2])
                                  /\ PeerTable[p] \in RouterPort /\ PeerTable[p] # p
                                  /\ PeerTable[PeerTable[p]] = p
         /\ \A p \in LocalPort : /\ PeerTable[p] = <<getEndpointId(p[1], p[2])>>
                                 /\ PeerTable[p] \in NicTable
         /\ \A e \in DestId : PeerTable[<<e>>] = <<Home(e), lp + (e - Home(e) * numLocalPorts)>>
         /\ \A x \in NicTable : PeerTable[x] \in LocalPort
         /\ \A x \in NicTable \cup LocalPort : PeerTable[PeerTable[x]] = x
<1>1. /\ \A r, i : <<r, i>> \in RouterPort <=> r \in RouterId /\ i \in RouterPorts(r)
      /\ \A p \in RouterPort : p[1] \in RouterId /\ p[2] \in RouterPorts(p[1]) /\ p = <<p[1], p[2]>>
      /\ \A p \in LocalPort : p[1] \in RouterId /\ p[2] \in LocalPorts /\ p = <<p[1], p[2]>>
      /\ RouterPort \cap LocalPort = {} /\ PortTable \cap NicTable = {}
  BY TablePorts
<1>2. ASSUME NEW p \in RouterPort
      PROVE  PeerTable[p] = OtherEnd(p[1], p[2])
  BY DEF PeerTable, PortTable, LinkTable
<1>3. ASSUME NEW p \in LocalPort
      PROVE  PeerTable[p] = <<getEndpointId(p[1], p[2])>>
  BY <1>1 DEF PeerTable, PortTable, EndpointIdTable
<1>4. ASSUME NEW p \in RouterPort
      PROVE  PeerTable[p] \in RouterPort /\ PeerTable[p] # p /\ PeerTable[PeerTable[p]] = p
  <2>1. p[1] \in RouterId /\ p[2] \in RouterPorts(p[1]) /\ p = <<p[1], p[2]>>
    BY <1>1
  <2>2. PICK s \in RouterId : \E j \in RouterPorts(s) :
          /\ OtherEnd(p[1], p[2]) = <<s, j>> /\ OtherEnd(s, j) = <<p[1], p[2]>>
          /\ <<s, j>> # <<p[1], p[2]>>
    BY <2>1 DEF Regular
  <2>3. PICK j \in RouterPorts(s) : OtherEnd(p[1], p[2]) = <<s, j>> /\ OtherEnd(s, j) = p
                                    /\ <<s, j>> # p
    BY <2>1, <2>2
  <2>4. PeerTable[p] = <<s, j>> /\ <<s, j>> \in RouterPort
    BY <1>1, <1>2, <2>3
  <2>5. PeerTable[<<s, j>>] = p
    BY <1>2, <2>3, <2>4
  <2>6. QED
    BY <2>3, <2>4, <2>5
<1>5. ASSUME NEW p \in LocalPort
      PROVE  PeerTable[p] \in NicTable
  BY <1>1, <1>3, EndpointIds DEF NicTable
<1>6. ASSUME NEW e \in DestId
      PROVE  /\ PeerTable[<<e>>] = <<Home(e), lp + (e - Home(e) * numLocalPorts)>>
             /\ PeerTable[<<e>>] \in LocalPort
             /\ PeerTable[PeerTable[<<e>>]] = <<e>>
  <2> DEFINE h == Home(e)
             i == lp + (e - h * numLocalPorts)
             q == CHOOSE p \in LocalPort : EndpointIdTable[p] = e
  <2>1. h \in RouterId /\ i \in LocalPorts
        /\ \A r \in RouterId, l \in LocalPorts : getEndpointId(r, l) = e <=> r = h /\ l = i
    BY EndpointIds
  <2>2. <<e>> \in NicTable /\ <<e>> \notin PortTable
    BY <1>1 DEF NicTable
  <2>3. PeerTable[<<e>>] = q
    BY <2>2 DEF PeerTable, PortTable
  <2> HIDE DEF h, i
  <2>4. <<h, i>> \in LocalPort /\ EndpointIdTable[<<h, i>>] = e
    BY <2>1 DEF LocalPort, EndpointIdTable
  <2>5. q \in LocalPort /\ EndpointIdTable[q] = e
    BY <2>4
  <2> HIDE DEF q
  <2>6. getEndpointId(q[1], q[2]) = e /\ q = <<q[1], q[2]>> /\ q[1] \in RouterId /\ q[2] \in LocalPorts
    BY <1>1, <2>5 DEF EndpointIdTable
  <2>7. q = <<h, i>>
    BY <2>1, <2>6
  <2>8. PeerTable[q] = <<e>>
    BY <1>3, <2>5, <2>6
  <2>9. QED
    BY <2>3, <2>5, <2>7, <2>8 DEF h, i
<1>7. ASSUME NEW p \in LocalPort PROVE PeerTable[PeerTable[p]] = p
  <2> DEFINE e == getEndpointId(p[1], p[2])
  <2>1. p[1] \in RouterId /\ p[2] \in LocalPorts /\ p = <<p[1], p[2]>>
    BY <1>1
  <2>2. e \in DestId /\ p[1] = Home(e) /\ p[2] = lp + (e - Home(e) * numLocalPorts)
    BY <2>1, EndpointIds
  <2>3. PeerTable[p] = <<e>>
    BY <1>3
  <2> HIDE DEF e
  <2>4. PeerTable[<<e>>] = <<Home(e), lp + (e - Home(e) * numLocalPorts)>>
    BY <1>6, <2>2
  <2>5. QED
    BY <2>1, <2>2, <2>3, <2>4
<1>8. QED
  BY <1>2, <1>3, <1>4, <1>5, <1>6, <1>7 DEF NicTable

\* Where a packet goes.
LEMMA TableRoutes ==
  ASSUME NEW N, NEW lp, Regular(N, lp)
  PROVE  /\ RouterOfTable \in [PortTable -> RouterId] /\ \A p \in PortTable : RouterOfTable[p] = p[1]
         /\ RouteTable \in [RouterId -> [NicTable -> PortTable]]
         /\ \A r \in RouterId, e \in DestId : RouteTable[r][<<e>>] = <<r, routePacket(r, e)>>
         /\ \A r \in RouterId, x \in NicTable :
              /\ RouterOfTable[RouteTable[r][x]] = r
              /\ RouteTable[r][x] \in LocalPort => PeerTable[RouteTable[r][x]] = x
<1>1. /\ \A r, i : <<r, i>> \in RouterPort <=> r \in RouterId /\ i \in RouterPorts(r)
      /\ \A p \in RouterPort : p[1] \in RouterId /\ p[2] \in RouterPorts(p[1]) /\ p = <<p[1], p[2]>>
      /\ \A p \in LocalPort : p[1] \in RouterId /\ p[2] \in LocalPorts /\ p = <<p[1], p[2]>>
      /\ RouterPort \cap LocalPort = {}
  BY TablePorts
<1>2. RouterOfTable \in [PortTable -> RouterId] /\ \A p \in PortTable : RouterOfTable[p] = p[1]
  BY <1>1 DEF RouterOfTable, PortTable
<1>3. ASSUME NEW r \in RouterId, NEW e \in DestId
      PROVE  RouteTable[r][<<e>>] = <<r, routePacket(r, e)>>
  BY DEF RouteTable, NicTable
<1>4. ASSUME NEW r \in RouterId, NEW e \in DestId
      PROVE  /\ <<r, routePacket(r, e)>> \in PortTable
             /\ <<r, routePacket(r, e)>> \in LocalPort
                  => r = Home(e) /\ routePacket(r, e) = lp + (e - r * numLocalPorts)
  <2>1. CASE routePacket(r, e) \in RouterPorts(r)
    BY <1>1, <2>1 DEF PortTable
  <2>2. CASE r = Home(e) /\ routePacket(r, e) = lp + (e - r * numLocalPorts)
    <3>1. routePacket(r, e) \in LocalPorts
      BY <2>2, EndpointIds
    <3>2. QED
      BY <2>2, <3>1 DEF PortTable, LocalPort
  <2>3. QED
    BY <2>1, <2>2 DEF Regular
<1>5. RouteTable \in [RouterId -> [NicTable -> PortTable]]
  <2>1. \A r \in RouterId, x \in NicTable : <<r, routePacket(r, x[1])>> \in PortTable
    BY <1>4 DEF NicTable
  <2>2. QED
    BY <2>1 DEF RouteTable
<1>6. ASSUME NEW r \in RouterId, NEW e \in DestId, RouteTable[r][<<e>>] \in LocalPort
      PROVE  PeerTable[RouteTable[r][<<e>>]] = <<e>>
  <2>1. RouteTable[r][<<e>>] = <<Home(e), lp + (e - Home(e) * numLocalPorts)>>
    BY <1>3, <1>4, <1>6
  <2>2. PeerTable[<<e>>] = RouteTable[r][<<e>>] /\ <<e>> \in NicTable
    BY <2>1, TablePeers DEF NicTable
  <2>3. QED
    BY <2>2, TablePeers
<1>7. ASSUME NEW r \in RouterId, NEW e \in DestId
      PROVE  RouterOfTable[RouteTable[r][<<e>>]] = r
  BY <1>2, <1>3, <1>4
<1>8. ASSUME NEW r \in RouterId, NEW x \in NicTable
      PROVE  /\ RouterOfTable[RouteTable[r][x]] = r
             /\ RouteTable[r][x] \in LocalPort => PeerTable[RouteTable[r][x]] = x
  <2>1. PICK e \in DestId : x = <<e>>
    BY DEF NicTable
  <2>2. QED
    BY <1>6, <1>7, <2>1
<1>9. QED
  BY <1>2, <1>3, <1>5, <1>8

-----------------------------------------------------------------------------
(* The tables of a mesh.                                                   *)

Cells == 0 .. (xDim * yDim) - 1

\* Ports are NORTH = 0, EAST = 1, SOUTH = 2, WEST = 3 and local ports from 4 on.
LEMMA MeshIds ==
  ASSUME IsMesh
  PROVE  /\ RouterId = Cells
         /\ DestId = 0 .. (xDim * yDim * numLocalPorts) - 1
         /\ LocalPorts = 4 .. numLocalPorts + 3
         /\ \A r : RouterPorts(r) = {i \in 0 .. 3 : Mesh!Wired(r, i)}
         /\ \A r, i : Mesh!Wired(r, i) <=> \/ i = 0 /\ Row(r) < yDim - 1
                                           \/ i = 1 /\ Col(r) < xDim - 1
                                           \/ i = 2 /\ Row(r) > 0
                                           \/ i = 3 /\ Col(r) > 0
         /\ \A r, i : OtherEnd(r, i) = <<Mesh!Neighbor(r, i), Mesh!Opposite(i)>>
         /\ \A r, i : isWrapAroundOutput(r, i) = FALSE
         /\ \A r : \A i \in LocalPorts : getEndpointId(r, i) = r * numLocalPorts + (i - 4)
<1>1. Kind = "mesh"
  BY DEF IsMesh
<1>2. LocalPorts = 4 .. numLocalPorts + 3
  <2>1. LocalPorts = 4 .. 4 + numLocalPorts - 1 /\ numLocalPorts \in Nat
    BY <1>1 DEF LocalPorts, Mesh!LocalPorts, Mesh!LOCAL_PORT, IsMesh, Grid
  <2>2. QED
    BY <2>1
<1>3. \A r : \A i \in LocalPorts : getEndpointId(r, i) = r * numLocalPorts + (i - 4)
  BY <1>1, <1>2 DEF getEndpointId, Mesh!getEndpointId, Mesh!LOCAL_PORT, IsMesh, Grid
<1>4. /\ RouterId = Cells
      /\ DestId = 0 .. (xDim * yDim * numLocalPorts) - 1
      /\ \A r, i : OtherEnd(r, i) = <<Mesh!Neighbor(r, i), Mesh!Opposite(i)>>
      /\ \A r, i : isWrapAroundOutput(r, i) = FALSE
  BY <1>1 DEF RouterId, Mesh!RouterId, DestId, Mesh!DestId, OtherEnd, isWrapAroundOutput, Cells
<1>5. \A r : RouterPorts(r) = {i \in 0 .. 3 : Mesh!Wired(r, i)}
  BY <1>1 DEF RouterPorts, Mesh!RouterPorts, Mesh!NORTH, Mesh!WEST
<1>6. \A r, i : Mesh!Wired(r, i) <=> \/ i = 0 /\ Row(r) < yDim - 1
                                     \/ i = 1 /\ Col(r) < xDim - 1
                                     \/ i = 2 /\ Row(r) > 0
                                     \/ i = 3 /\ Col(r) > 0
  BY DEF Mesh!Wired, Mesh!NORTH, Mesh!EAST, Mesh!SOUTH, Mesh!WEST, Mesh!xId, Mesh!yId, Row, Col
<1>7. QED
  BY <1>2, <1>3, <1>4, <1>5, <1>6

\* What a link changes of the coordinates.
LEMMA MeshLink ==
  ASSUME IsMesh, NEW r \in Cells, NEW i \in RouterPorts(r)
  PROVE  LET s == Mesh!Neighbor(r, i)
             j == Mesh!Opposite(i)
         IN  /\ s \in Cells
             /\ Col(s) = CASE i = 1 -> Col(r) + 1 [] i = 3 -> Col(r) - 1 [] OTHER -> Col(r)
             /\ Row(s) = CASE i = 0 -> Row(r) + 1 [] i = 2 -> Row(r) - 1 [] OTHER -> Row(r)
             /\ j \in RouterPorts(s)
             /\ j = CASE i = 0 -> 2 [] i = 1 -> 3 [] i = 2 -> 0 [] i = 3 -> 1
             /\ Mesh!Neighbor(s, j) = r /\ Mesh!Opposite(j) = i
<1> DEFINE s == Mesh!Neighbor(r, i)
           j == Mesh!Opposite(i)
           x == Col(r)
           y == Row(r)
<1>1. xDim \in Nat \ {0} /\ yDim \in Nat \ {0} /\ Grid
  BY DEF IsMesh, Grid
<1>2. x \in 0 .. xDim - 1 /\ y \in 0 .. yDim - 1 /\ r = (xDim * y) + x
  BY <1>1, ColRow DEF Cells
<1>3. \/ i = 0 /\ y < yDim - 1
      \/ i = 1 /\ x < xDim - 1
      \/ i = 2 /\ y > 0
      \/ i = 3 /\ x > 0
  BY MeshIds
<1>4. \A q : Mesh!Neighbor(q, 0) = q + xDim /\ Mesh!Neighbor(q, 1) = q + 1
             /\ Mesh!Neighbor(q, 2) = q - xDim /\ Mesh!Neighbor(q, 3) = q - 1
  BY DEF Mesh!Neighbor, Mesh!NORTH, Mesh!EAST, Mesh!SOUTH, Mesh!WEST
<1>5. Mesh!Opposite(0) = 2 /\ Mesh!Opposite(1) = 3 /\ Mesh!Opposite(2) = 0 /\ Mesh!Opposite(3) = 1
  BY DEF Mesh!Opposite
<1> DEFINE nx == CASE i = 1 -> x + 1 [] i = 3 -> x - 1 [] OTHER -> x
           ny == CASE i = 0 -> y + 1 [] i = 2 -> y - 1 [] OTHER -> y
<1> HIDE DEF x, y
<1>6. nx \in 0 .. xDim - 1 /\ ny \in 0 .. yDim - 1
  BY <1>1, <1>2, <1>3
<1>7. s = (xDim * ny) + nx
  <2>1. /\ xDim * (y + 1) = (xDim * y) + xDim
        /\ xDim * (y - 1) = (xDim * y) - xDim
        /\ xDim * y \in Nat
    BY <1>1, <1>2
  <2>2. QED
    BY <1>1, <1>2, <1>3, <1>4, <2>1
<1>8. s \in Cells /\ Col(s) = nx /\ Row(s) = ny
  BY <1>1, <1>6, <1>7, CellOf DEF Cells
<1>9. j = (CASE i = 0 -> 2 [] i = 1 -> 3 [] i = 2 -> 0 [] i = 3 -> 1) /\ Mesh!Opposite(j) = i
  BY <1>3, <1>5
<1>10. j \in RouterPorts(s)
  <2>1. \/ j = 0 /\ ny < yDim - 1
        \/ j = 1 /\ nx < xDim - 1
        \/ j = 2 /\ ny > 0
        \/ j = 3 /\ nx > 0
    BY <1>1, <1>2, <1>3, <1>9
  <2> HIDE DEF s, j, nx, ny
  <2>2. j \in 0 .. 3
    BY <2>1
  <2>3. Mesh!Wired(s, j)
    BY <1>8, <2>1, MeshIds
  <2>4. QED
    BY <2>2, <2>3, MeshIds
<1>11. Mesh!Neighbor(s, j) = r
  <2>1. r \in Int
    BY DEF Cells
  <2>2. QED
    BY <1>1, <1>3, <1>4, <1>9, <2>1
<1>12. QED
  BY <1>8, <1>9, <1>10, <1>11 DEF x, y

\* What the routing answers.
LEMMA MeshRoute ==
  ASSUME IsMesh, NEW r \in Cells, NEW e \in DestId
  PROVE  LET i == routePacket(r, e)
             h == Home(e)
         IN  /\ h \in Cells
             /\ \/ i = 3 /\ Col(h) < Col(r)
                \/ i = 1 /\ Col(h) > Col(r)
                \/ i = 2 /\ Col(h) = Col(r) /\ Row(h) < Row(r)
                \/ i = 0 /\ Col(h) = Col(r) /\ Row(h) > Row(r)
                \/ i \in LocalPorts /\ h = r /\ getEndpointId(r, i) = e
             /\ i \in RouterPorts(r) \/ (i \in LocalPorts /\ h = r)
<1> DEFINE i == routePacket(r, e)
           h == Home(e)
<1>1. Kind = "mesh" /\ Grid
  BY DEF IsMesh
<1>2. h \in Cells /\ e - h * numLocalPorts \in 0 .. numLocalPorts - 1
  <2>1. numLocalPorts \in Nat \ {0} /\ xDim * yDim \in Nat /\ e \in 0 .. ((xDim * yDim) * numLocalPorts) - 1
    BY <1>1, MeshIds DEF Grid
  <2>2. QED
    BY <2>1, HomeType DEF Cells
<1>3. Col(h) \in 0 .. xDim - 1 /\ Row(h) \in 0 .. yDim - 1
      /\ Col(r) \in 0 .. xDim - 1 /\ Row(r) \in 0 .. yDim - 1
      /\ xDim \in Nat \ {0} /\ yDim \in Nat \ {0}
  BY <1>1, <1>2, ColRow DEF Cells, Grid
<1>4. i = CASE Col(h) < Col(r) -> 3
            [] Col(h) > Col(r) -> 1
            [] Col(h) = Col(r) /\ Row(h) < Row(r) -> 2
            [] Col(h) = Col(r) /\ Row(h) > Row(r) -> 0
            [] OTHER -> 4 + (e - r * numLocalPorts)
  BY <1>1 DEF routePacket, Mesh!routePacket, Mesh!WEST, Mesh!EAST, Mesh!SOUTH, Mesh!NORTH,
              Mesh!LOCAL_PORT, Mesh!xId, Mesh!yId, Col, Row, Home
<1> HIDE DEF i, h
<1>5. \/ i = 3 /\ Col(h) < Col(r)
      \/ i = 1 /\ Col(h) > Col(r)
      \/ i = 2 /\ Col(h) = Col(r) /\ Row(h) < Row(r)
      \/ i = 0 /\ Col(h) = Col(r) /\ Row(h) > Row(r)
      \/ i = 4 + (e - r * numLocalPorts) /\ Col(h) = Col(r) /\ Row(h) = Row(r)
  BY <1>3, <1>4
<1>6. CASE i = 4 + (e - r * numLocalPorts) /\ Col(h) = Col(r) /\ Row(h) = Row(r)
  <2>1. h = r
    BY <1>1, <1>2, <1>6, SameCell DEF Cells
  <2>2. i \in 4 .. numLocalPorts + 3
    BY <1>1, <1>2, <1>6, <2>1 DEF Grid
  <2>3. r * numLocalPorts \in Int /\ e \in Int
    BY <1>1, <1>2, <2>1, MeshIds DEF Cells, Grid
  <2>4. getEndpointId(r, i) = e
    BY <1>6, <2>2, <2>3, MeshIds
  <2>5. QED
    BY <1>2, <2>1, <2>2, <2>4, MeshIds DEF i, h
<1>7. CASE i \in 0 .. 3
  <2>1. \/ i = 3 /\ Col(h) < Col(r)
        \/ i = 1 /\ Col(h) > Col(r)
        \/ i = 2 /\ Col(h) = Col(r) /\ Row(h) < Row(r)
        \/ i = 0 /\ Col(h) = Col(r) /\ Row(h) > Row(r)
    <3>1. ~(i = 4 + (e - r * numLocalPorts) /\ Col(h) = Col(r) /\ Row(h) = Row(r))
      <4> SUFFICES ASSUME i = 4 + (e - r * numLocalPorts), Col(h) = Col(r), Row(h) = Row(r)
                   PROVE  FALSE
        OBVIOUS
      <4>1. h = r
        BY <1>1, <1>2, SameCell DEF Cells
      <4>2. e - r * numLocalPorts \in Nat
        BY <1>1, <1>2, <4>1 DEF Grid
      <4>3. QED
        BY <1>7, <4>2
    <3>2. QED
      BY <1>5, <3>1
  <2>2. Mesh!Wired(r, i)
    BY <1>3, <2>1, MeshIds
  <2>3. QED
    BY <1>2, <1>7, <2>1, <2>2, MeshIds DEF i, h
<1>8. QED
  BY <1>5, <1>6, <1>7

LEMMA MeshRegular == ASSUME IsMesh PROVE Regular(xDim * yDim, 4) /\ RouterId = Cells
<1> DEFINE N == xDim * yDim
<1>1. Grid
  BY DEF IsMesh
<1>2. N \in Nat /\ numLocalPorts \in Nat \ {0} /\ RouterId = 0 .. N - 1
      /\ DestId = 0 .. (N * numLocalPorts) - 1 /\ RouterId = Cells
  BY <1>1, MeshIds DEF Grid, Cells
<1>3. LocalPorts = 4 .. 4 + numLocalPorts - 1
  BY <1>2, MeshIds
<1>4. \A r \in RouterId : RouterPorts(r) \subseteq 0 .. 4 - 1
  BY MeshIds
<1>5. \A r \in RouterId, i \in LocalPorts : getEndpointId(r, i) = r * numLocalPorts + (i - 4)
  BY MeshIds
<1>6. ASSUME NEW r \in RouterId, NEW i \in RouterPorts(r)
      PROVE  \E s \in RouterId : \E j \in RouterPorts(s) :
               OtherEnd(r, i) = <<s, j>> /\ OtherEnd(s, j) = <<r, i>> /\ <<s, j>> # <<r, i>>
  <2> DEFINE s == Mesh!Neighbor(r, i)
             j == Mesh!Opposite(i)
  <2>1. /\ s \in Cells /\ j \in RouterPorts(s) /\ Mesh!Neighbor(s, j) = r /\ Mesh!Opposite(j) = i
        /\ j = CASE i = 0 -> 2 [] i = 1 -> 3 [] i = 2 -> 0 [] i = 3 -> 1
    BY <1>2, MeshLink
  <2>2. OtherEnd(r, i) = <<s, j>> /\ OtherEnd(s, j) = <<r, i>>
    BY <2>1, MeshIds
  <2>3. i \in 0 .. 3
    BY MeshIds
  <2> HIDE DEF s, j
  <2>4. j # i
    BY <2>1, <2>3
  <2>5. QED
    BY <1>2, <2>1, <2>2, <2>4
<1>7. ASSUME NEW r \in RouterId, NEW e \in DestId
      PROVE  \/ routePacket(r, e) \in RouterPorts(r)
             \/ r = Home(e) /\ routePacket(r, e) = 4 + (e - r * numLocalPorts)
  <2> DEFINE i == routePacket(r, e)
             c == r * numLocalPorts
  <2>1. i \in RouterPorts(r) \/ (i \in LocalPorts /\ Home(e) = r /\ getEndpointId(r, i) = e)
    <3>1. i \in RouterPorts(r) \/ (i \in LocalPorts /\ Home(e) = r)
      BY <1>2, MeshRoute
    <3>2. i \in LocalPorts => i \notin RouterPorts(r) /\ i \notin 0 .. 3
      BY <1>2, <1>3, <1>4
    <3>3. i \in {0, 1, 2, 3} \/ getEndpointId(r, i) = e
      BY <1>2, MeshRoute
    <3> HIDE DEF i, c
    <3>4. i \in LocalPorts => getEndpointId(r, i) = e
      BY <3>2, <3>3
    <3>5. QED
      BY <3>1, <3>4
  <2>2. c \in Int /\ e \in Int
    BY <1>2
  <2> HIDE DEF i, c
  <2>3. i \in LocalPorts => i \in Int /\ getEndpointId(r, i) = c + (i - 4)
    BY <1>2, <1>3, <1>5 DEF c
  <2>4. i \in RouterPorts(r) \/ (Home(e) = r /\ i = 4 + (e - c))
    BY <2>1, <2>2, <2>3
  <2>5. QED
    BY <2>4 DEF i, c
<1> HIDE DEF N
<1>8. Regular(N, 4)
  <2>1. 4 \in Nat
    OBVIOUS
  <2>2. QED
    BY <1>2, <1>3, <1>4, <1>5, <1>6, <1>7, <2>1 DEF Regular
<1>9. QED
  BY <1>2, <1>8 DEF N

-----------------------------------------------------------------------------
(* Who may wait for whom.                                                  *)

\* Nothing waits in a circle where every wait is for a link of lower rank.
LEMMA Ranked ==
  ASSUME NEW rank, \A p \in V!RouterLink : rank[p] \in Int,
         \A p \in V!RouterLink : \A q \in V!NextLinks(p) : q \in V!RouterLink /\ rank[q] < rank[p]
  PROVE  V!Spec => V!AcyclicDependencies
<1> DEFINE Below == /\ first[1] \in V!RouterLink /\ held[1] \in V!RouterLink
                    /\ rank[held[1]] <= rank[first[1]]
<1>1. V!Init => Below
  <2> SUFFICES ASSUME V!Init PROVE Below
    OBVIOUS
  <2>1. first \in V!RouterLink \X V!VC /\ held = first
    BY DEF V!Init, V!Channel
  <2>2. first[1] \in V!RouterLink /\ rank[first[1]] \in Int
    BY <2>1
  <2>3. QED
    BY <2>1, <2>2
<1>2. ASSUME Below, V!Next PROVE Below' /\ held' # first
  <2>1. PICK q \in V!NextLinks(held[1]) : \E vc : held' = <<q, vc>>
    BY <1>2 DEF V!Next, V!WaitForVc, V!WaitForConnection
  <2>2. held'[1] = q /\ first' = first
    BY <1>2, <2>1 DEF V!Next, V!WaitForVc, V!WaitForConnection
  <2>3. q \in V!RouterLink /\ rank[q] < rank[held[1]]
    BY <1>2, <2>1
  <2>4. rank[q] \in Int /\ rank[held[1]] \in Int /\ rank[first[1]] \in Int
    BY <1>2, <2>3
  <2>5. rank[q] < rank[first[1]]
    BY <1>2, <2>3, <2>4
  <2>6. q # first[1]
    BY <2>4, <2>5
  <2>7. QED
    BY <1>2, <2>2, <2>3, <2>4, <2>5, <2>6
<1>3. Below /\ [V!Next]_V!vars => Below' /\ [held' # first]_V!vars
  <2> SUFFICES ASSUME Below, [V!Next]_V!vars PROVE Below' /\ [held' # first]_V!vars
    OBVIOUS
  <2>1. CASE V!Next
    BY <1>2, <2>1
  <2>2. CASE UNCHANGED V!vars
    BY <2>2 DEF V!vars
  <2>3. QED
    BY <2>1, <2>2
<1> HIDE DEF Below
<1>4. QED
  BY <1>1, <1>3, PTL DEF V!Spec, V!AcyclicDependencies

LEMMA NextOf ==
  ASSUME NEW N, NEW lp, Regular(N, lp)
  PROVE  /\ V!RouterLink = RouterPort
         /\ \A p \in RouterPort : \A q \in V!NextLinks(p) :
              /\ q \in RouterPort /\ q[1] = OtherEnd(p[1], p[2])[1]
              /\ \E e \in DestId : p[2] = routePacket(p[1], e) /\ q[2] = routePacket(q[1], e)
<1>1. /\ \A p \in RouterPort : PeerTable[p] = OtherEnd(p[1], p[2]) /\ PeerTable[p] \in RouterPort
      /\ \A p \in LocalPort : PeerTable[p] \in NicTable
      /\ PortTable \cap NicTable = {}
      /\ \A p \in RouterPort : p[1] \in RouterId /\ p[2] \in RouterPorts(p[1]) /\ p = <<p[1], p[2]>>
  BY TablePeers, TablePorts
<1>2. V!RouterLink = RouterPort
  BY <1>1 DEF V!RouterLink, PortTable
<1>3. ASSUME NEW p \in RouterPort, NEW q \in V!NextLinks(p)
      PROVE  /\ q \in RouterPort /\ q[1] = OtherEnd(p[1], p[2])[1]
             /\ \E e \in DestId : p[2] = routePacket(p[1], e) /\ q[2] = routePacket(q[1], e)
  <2> DEFINE s == PeerTable[p][1]
  <2>1. p \in PortTable /\ PeerTable[p] \in PortTable /\ s \in RouterId /\ p[1] \in RouterId
    BY <1>1 DEF PortTable
  <2>2. RouterOfTable[p] = p[1] /\ RouterOfTable[PeerTable[p]] = s
    BY <2>1, TableRoutes
  <2>3. PICK x \in NicTable : RouteTable[p[1]][x] = p /\ q = RouteTable[s][x]
                              /\ PeerTable[q] \in PortTable
    BY <2>2 DEF V!NextLinks
  <2>4. PICK e \in DestId : x = <<e>>
    BY <2>3 DEF NicTable
  <2>5. p = <<p[1], routePacket(p[1], e)>> /\ q = <<s, routePacket(s, e)>>
    BY <2>1, <2>3, <2>4, TableRoutes
  <2>6. q \in RouterPort
    <3>1. q \in PortTable
      BY <2>1, <2>3, TableRoutes
    <3>2. QED
      BY <1>1, <2>3, <3>1 DEF PortTable
  <2>7. p[2] = routePacket(p[1], e) /\ q[1] = s /\ q[2] = routePacket(q[1], e)
    BY <2>5
  <2>8. s = OtherEnd(p[1], p[2])[1]
    BY <1>1
  <2>9. QED
    BY <2>6, <2>7, <2>8
<1>4. QED
  BY <1>2, <1>3

\* The rank of a link of a mesh: a packet never turns from a column into a row, and
\* gets closer to the end of the row or column with every link.
MeshRank(r, i) ==
  CASE i = 1 -> yDim + xDim - Col(r)
    [] i = 3 -> yDim + Col(r)
    [] i = 0 -> yDim - Row(r)
    [] OTHER -> Row(r)

\* NO DEADLOCK IN A MESH (property AcyclicDependencies), of any size, with any number of
\* endpoints and virtual channels: packets never wait for each other in a circle, for
\* channels or for connections of the crossbar.
THEOREM MeshAcyclic == IsMesh => (V!Spec => V!AcyclicDependencies)
<1> SUFFICES ASSUME IsMesh PROVE V!Spec => V!AcyclicDependencies
  OBVIOUS
<1> DEFINE rank == [p \in RouterPort |-> MeshRank(p[1], p[2])]
<1>1. Regular(xDim * yDim, 4) /\ RouterId = Cells
  BY MeshRegular
<1>2. Grid /\ xDim \in Nat \ {0} /\ yDim \in Nat \ {0}
  BY DEF IsMesh, Grid
<1>3. \A r \in Cells : Col(r) \in 0 .. xDim - 1 /\ Row(r) \in 0 .. yDim - 1
  BY <1>2, ColRow DEF Cells
<1>4. V!RouterLink = RouterPort
  BY <1>1, NextOf
<1>5. \A p \in RouterPort : p[1] \in Cells /\ p[2] \in RouterPorts(p[1])
  BY <1>1, TablePorts
<1>6. \A p \in RouterPort : rank[p] \in Int
  <2>1. \A i : \A r \in Cells : MeshRank(r, i) \in Int
    BY <1>2, <1>3 DEF MeshRank
  <2>2. QED
    BY <1>5, <2>1
<1>7. ASSUME NEW p \in RouterPort, NEW q \in V!NextLinks(p)
      PROVE  q \in RouterPort /\ rank[q] < rank[p]
  <2> DEFINE r == p[1]
             i == p[2]
             s == q[1]
             j == q[2]
  <2>1. q \in RouterPort /\ s = OtherEnd(r, i)[1]
    BY <1>1, NextOf
  <2>2. PICK e \in DestId : i = routePacket(r, e) /\ j = routePacket(s, e)
    BY <1>1, NextOf
  <2>3. r \in Cells /\ i \in RouterPorts(r) /\ s \in Cells /\ j \in RouterPorts(s)
    BY <1>5, <2>1
  <2>4. s = Mesh!Neighbor(r, i)
    BY <2>1, MeshIds
  <2> HIDE DEF r, i, s, j
  <2>5. /\ Col(s) = CASE i = 1 -> Col(r) + 1 [] i = 3 -> Col(r) - 1 [] OTHER -> Col(r)
        /\ Row(s) = CASE i = 0 -> Row(r) + 1 [] i = 2 -> Row(r) - 1 [] OTHER -> Row(r)
    BY <2>3, <2>4, MeshLink
  <2> DEFINE h == Home(e)
  <2>6. LocalPorts \cap (0 .. 3) = {} /\ i \in 0 .. 3 /\ j \in 0 .. 3
    BY <2>3, MeshIds
  <2>7. /\ \/ i = 3 /\ Col(h) < Col(r)
           \/ i = 1 /\ Col(h) > Col(r)
           \/ i = 2 /\ Col(h) = Col(r) /\ Row(h) < Row(r)
           \/ i = 0 /\ Col(h) = Col(r) /\ Row(h) > Row(r)
        /\ h \in Cells
    BY <2>2, <2>3, <2>6, MeshRoute
  <2>8. \/ j = 3 /\ Col(h) < Col(s)
        \/ j = 1 /\ Col(h) > Col(s)
        \/ j = 2 /\ Col(h) = Col(s) /\ Row(h) < Row(s)
        \/ j = 0 /\ Col(h) = Col(s) /\ Row(h) > Row(s)
    BY <2>2, <2>3, <2>6, MeshRoute
  <2> HIDE DEF h
  <2>9. /\ Col(r) \in 0 .. xDim - 1 /\ Row(r) \in 0 .. yDim - 1
        /\ Col(s) \in 0 .. xDim - 1 /\ Row(s) \in 0 .. yDim - 1
        /\ Col(h) \in 0 .. xDim - 1 /\ Row(h) \in 0 .. yDim - 1
    BY <1>3, <2>3, <2>7
  <2>10. MeshRank(s, j) < MeshRank(r, i)
    BY <1>2, <2>5, <2>7, <2>8, <2>9 DEF MeshRank
  <2>11. QED
    BY <2>1, <2>10 DEF r, i, s, j
<1> HIDE DEF rank
<1>8. QED
  BY <1>4, <1>6, <1>7, Ranked

-----------------------------------------------------------------------------
(* The way of a packet.                                                    *)

\* dist is the distance of routers: a link changes it by one at most, and the link
\* that a packet takes makes it less.
Distance(dist) ==
  /\ dist \in [RouterId \X RouterId -> Nat]
  /\ \A r, h \in RouterId : dist[<<r, h>>] = 0 <=> r = h
  /\ \A r, h \in RouterId : \A i \in RouterPorts(r) :
       dist[<<r, h>>] <= dist[<<OtherEnd(r, i)[1], h>>] + 1
  /\ \A r \in RouterId, e \in DestId : routePacket(r, e) \in RouterPorts(r) =>
       dist[<<OtherEnd(r, routePacket(r, e))[1], Home(e)>>] < dist[<<r, Home(e)>>]

\* No router that was reached in as many links is nearer.
Nearest(dist) ==
  /\ goal \in DestId /\ at \in RouterId /\ ball \subseteq RouterId
  /\ \A b \in ball : dist[<<at, Home(goal)>>] <= dist[<<b, Home(goal)>>]
  /\ ejected \subseteq {goal}

LEMMA Walks ==
  ASSUME NEW N, NEW lp, Regular(N, lp), Topology[topo] = Walk
  PROVE  /\ Link = LinkTable /\ DOMAIN Link = RouterPort
         /\ EndpointId = EndpointIdTable /\ DOMAIN EndpointId = LocalPort
         /\ at \in RouterId /\ goal \in DestId => Out = <<at, routePacket(at, goal)>>
<1>2. Link = LinkTable /\ EndpointId = EndpointIdTable
      /\ Out = <<at, OutPortTable[at][goal]>>
  BY DEF Link, EndpointId, Out, Walk
<1>3. at \in RouterId /\ goal \in DestId => OutPortTable[at][goal] = routePacket(at, goal)
  BY DEF OutPortTable
<1>4. QED
  BY <1>2, <1>3 DEF LinkTable, EndpointIdTable

LEMMA NearestKept ==
  ASSUME NEW N, NEW lp, Regular(N, lp), NEW dist, Distance(dist),
         Topology[topo] = Walk, Nearest(dist), Next
  PROVE  Nearest(dist)'
<1>1. /\ goal \in DestId /\ at \in RouterId /\ ball \subseteq RouterId
      /\ \A b \in ball : dist[<<at, Home(goal)>>] <= dist[<<b, Home(goal)>>]
      /\ ejected \subseteq {goal}
  BY DEF Nearest
<1>2. /\ Link = LinkTable /\ DOMAIN Link = RouterPort
      /\ EndpointId = EndpointIdTable /\ DOMAIN EndpointId = LocalPort
      /\ Out = <<at, routePacket(at, goal)>>
  BY <1>1, Walks
<1>3. \A x \in RouterPort : x[1] \in RouterId /\ x[2] \in RouterPorts(x[1])
                            /\ LinkTable[x] = OtherEnd(x[1], x[2])
                            /\ OtherEnd(x[1], x[2])[1] \in RouterId
  <2>1. \A x \in RouterPort : LinkTable[x] = OtherEnd(x[1], x[2])
    BY DEF LinkTable
  <2>2. \A x \in RouterPort : OtherEnd(x[1], x[2]) \in RouterPort
    BY TablePeers
  <2>3. QED
    BY <2>1, <2>2, TablePorts
<1>4. Home(goal) \in RouterId
  BY <1>1, EndpointIds
<1>5. dist \in [RouterId \X RouterId -> Nat]
  BY DEF Distance
<1> DEFINE h == Home(goal)
           D(r) == dist[<<r, h>>]
<1>6. \A r \in RouterId : D(r) \in Nat
  BY <1>4, <1>5
<1>7. CASE Hop
  <2>1. /\ Out \in RouterPort /\ at' = LinkTable[Out][1]
        /\ ball' = ball \cup {LinkTable[x][1] : x \in {y \in RouterPort : y[1] \in ball}}
        /\ UNCHANGED <<topo, goal, ejected>>
    BY <1>2, <1>7 DEF Hop
  <2>2. /\ routePacket(at, goal) \in RouterPorts(at)
        /\ at' = OtherEnd(at, routePacket(at, goal))[1] /\ at' \in RouterId
    BY <1>2, <1>3, <2>1
  <2>3. D(at') < D(at)
    BY <1>1, <2>2 DEF Distance
  <2>4. ASSUME NEW b \in ball' PROVE b \in RouterId /\ D(at') <= D(b)
    <3>1. CASE b \in ball
      BY <1>1, <1>6, <2>2, <2>3, <3>1
    <3>2. CASE b \notin ball
      <4>1. PICK x \in RouterPort : x[1] \in ball /\ b = LinkTable[x][1]
        BY <2>1, <3>2
      <4>2. x[1] \in RouterId /\ x[2] \in RouterPorts(x[1]) /\ b = OtherEnd(x[1], x[2])[1]
            /\ b \in RouterId
        BY <1>3, <4>1
      <4>3. D(x[1]) <= D(b) + 1
        BY <1>4, <4>2 DEF Distance
      <4>4. D(at) <= D(x[1])
        BY <1>1, <4>1
      <4>5. D(at) \in Nat /\ D(at') \in Nat /\ D(b) \in Nat /\ D(x[1]) \in Nat
        BY <1>1, <1>6, <2>2, <4>2
      <4> HIDE DEF D
      <4>6. QED
        BY <2>3, <4>2, <4>3, <4>4, <4>5
    <3>3. QED
      BY <3>1, <3>2
  <2>5. h' = h
    BY <2>1 DEF Home
  <2>6. \A b \in ball' : dist[<<at', h'>>] <= dist[<<b, h'>>]
    BY <2>4, <2>5
  <2>7. QED
    BY <1>1, <2>1, <2>2, <2>4, <2>6 DEF Nearest
<1>8. CASE Arrive
  <2>1. /\ <<at, routePacket(at, goal)>> \in LocalPort
        /\ ejected' = {EndpointIdTable[<<at, routePacket(at, goal)>>]}
        /\ UNCHANGED <<topo, goal, at, ball>>
    BY <1>2, <1>8 DEF Arrive
  <2> DEFINE i == routePacket(at, goal)
  <2>2. ejected' = {getEndpointId(at, i)} /\ i \in LocalPorts
    <3>1. EndpointIdTable[<<at, i>>] = getEndpointId(at, i)
      BY <2>1 DEF EndpointIdTable
    <3>2. i \in LocalPorts
      BY <2>1 DEF LocalPort
    <3>3. QED
      BY <2>1, <3>1, <3>2
  <2>3. i \notin RouterPorts(at)
    BY <1>1, <2>2 DEF Regular
  <2>4. at = Home(goal) /\ i = lp + (goal - Home(goal) * numLocalPorts)
    BY <1>1, <2>3 DEF Regular
  <2>5. getEndpointId(at, i) = goal
    BY <1>1, <2>2, <2>4, EndpointIds
  <2>6. Home(goal)' = Home(goal)
    BY <2>1 DEF Home
  <2>7. QED
    BY <1>1, <2>1, <2>2, <2>5, <2>6 DEF Nearest
<1>9. QED
  BY <1>7, <1>8 DEF Next

LEMMA NearestShortest ==
  ASSUME NEW N, NEW lp, Regular(N, lp), NEW dist, Distance(dist),
         Topology[topo] = Walk, Nearest(dist)
  PROVE  ShortestRoute
<1>1. /\ goal \in DestId /\ at \in RouterId /\ ball \subseteq RouterId
      /\ \A b \in ball : dist[<<at, Home(goal)>>] <= dist[<<b, Home(goal)>>]
  BY DEF Nearest
<1>2. EndpointId = EndpointIdTable /\ DOMAIN EndpointId = LocalPort
  BY <1>1, Walks
<1>3. SUFFICES ASSUME NEW x \in LocalPort, EndpointIdTable[x] = goal, x[1] \in ball
               PROVE  x[1] = at
  BY <1>2 DEF ShortestRoute
<1>4. x[1] \in RouterId /\ x[2] \in LocalPorts /\ getEndpointId(x[1], x[2]) = goal
  BY <1>3, TablePorts DEF EndpointIdTable
<1>5. x[1] = Home(goal)
  BY <1>1, <1>4, EndpointIds
<1>6. dist[<<x[1], x[1]>>] = 0 /\ dist[<<at, x[1]>>] \in Nat
  BY <1>1, <1>4 DEF Distance
<1>7. dist[<<at, x[1]>>] = 0
  BY <1>1, <1>3, <1>5, <1>6
<1>8. QED
  BY <1>1, <1>4, <1>7 DEF Distance

LEMMA ShortestByDistance ==
  ASSUME NEW N, NEW lp, Regular(N, lp), NEW dist, Distance(dist)
  PROVE  Spec => [](Topology[topo] = Walk => ShortestRoute /\ ejected \subseteq {goal})
<1> DEFINE IInv == Topology[topo] = Walk => Nearest(dist)
<1>1. Init => IInv
  <2> SUFFICES ASSUME Init, Topology[topo] = Walk PROVE Nearest(dist)
    OBVIOUS
  <2>1. at \in RouterId /\ goal \in DestId /\ ejected = {} /\ ball = {at}
    <3>1. at \in RouterId /\ goal \in DOMAIN OutPortTable[at]
      BY DEF Init, Walk, OutPortTable
    <3>2. goal \in DestId
      BY <3>1 DEF OutPortTable
    <3>3. QED
      BY <3>1, <3>2 DEF Init
  <2>2. dist[<<at, Home(goal)>>] \in Nat
    BY <2>1, EndpointIds DEF Distance
  <2>3. QED
    BY <2>1, <2>2 DEF Nearest
<1>2. IInv /\ [Next]_vars => IInv'
  <2> SUFFICES ASSUME IInv, [Next]_vars, (Topology[topo] = Walk)' PROVE Nearest(dist)'
    OBVIOUS
  <2>1. topo' = topo
    BY DEF Next, Hop, Arrive, vars
  <2>2. Topology[topo] = Walk
    BY <2>1 DEF Walk, OutPortTable, LinkTable, EndpointIdTable
  <2>3. CASE Next
    BY <2>2, <2>3, NearestKept
  <2>4. CASE UNCHANGED vars
    BY <2>2, <2>4 DEF vars, Nearest, Home
  <2>5. QED
    BY <2>3, <2>4
<1>3. IInv => (Topology[topo] = Walk => ShortestRoute /\ ejected \subseteq {goal})
  BY NearestShortest DEF Nearest
<1>4. QED
  BY <1>1, <1>2, <1>3, PTL DEF Spec

\* How far a and b are apart on a line.
Gap(a, b) == IF a < b THEN b - a ELSE a - b

LEMMA MeshDistance == ASSUME IsMesh PROVE \E dist : Distance(dist)
<1> DEFINE dist == [x \in RouterId \X RouterId |->
                      Gap(Col(x[1]), Col(x[2])) + Gap(Row(x[1]), Row(x[2]))]
           D(r, h) == Gap(Col(r), Col(h)) + Gap(Row(r), Row(h))
<1>1. Regular(xDim * yDim, 4) /\ RouterId = Cells /\ Grid
      /\ xDim \in Nat \ {0} /\ yDim \in Nat \ {0}
  BY MeshRegular DEF IsMesh, Grid
<1>2. \A r \in RouterId : Col(r) \in 0 .. xDim - 1 /\ Row(r) \in 0 .. yDim - 1
  BY <1>1, ColRow DEF Cells
<1>3. \A r, h \in RouterId : dist[<<r, h>>] = D(r, h)
  OBVIOUS
<1>4. dist \in [RouterId \X RouterId -> Nat]
  <2>1. \A r, h \in RouterId : D(r, h) \in Nat
    BY <1>2 DEF Gap
  <2>2. QED
    BY <2>1
<1> HIDE DEF dist
<1>5. ASSUME NEW r \in RouterId, NEW h \in RouterId
      PROVE  dist[<<r, h>>] = 0 <=> r = h
  <2>1. D(r, h) = 0 <=> Col(r) = Col(h) /\ Row(r) = Row(h)
    BY <1>2 DEF Gap
  <2>2. Col(r) = Col(h) /\ Row(r) = Row(h) => r = h
    BY <1>1, SameCell DEF Cells
  <2>3. QED
    BY <1>3, <2>1, <2>2
<1>6. ASSUME NEW r \in RouterId, NEW i \in RouterPorts(r)
      PROVE  LET s == OtherEnd(r, i)[1]
             IN  /\ s \in RouterId
                 /\ Col(s) = CASE i = 1 -> Col(r) + 1 [] i = 3 -> Col(r) - 1 [] OTHER -> Col(r)
                 /\ Row(s) = CASE i = 0 -> Row(r) + 1 [] i = 2 -> Row(r) - 1 [] OTHER -> Row(r)
                 /\ i \in 0 .. 3
  <2>1. OtherEnd(r, i)[1] = Mesh!Neighbor(r, i) /\ i \in 0 .. 3
    BY MeshIds
  <2>2. QED
    BY <1>1, <2>1, MeshLink
<1>7. ASSUME NEW r \in RouterId, NEW h \in RouterId, NEW i \in RouterPorts(r)
      PROVE  dist[<<r, h>>] <= dist[<<OtherEnd(r, i)[1], h>>] + 1
  <2> DEFINE s == OtherEnd(r, i)[1]
  <2>1. /\ s \in RouterId /\ i \in 0 .. 3
        /\ Col(s) = CASE i = 1 -> Col(r) + 1 [] i = 3 -> Col(r) - 1 [] OTHER -> Col(r)
        /\ Row(s) = CASE i = 0 -> Row(r) + 1 [] i = 2 -> Row(r) - 1 [] OTHER -> Row(r)
    BY <1>6
  <2> HIDE DEF s
  <2>2. D(r, h) <= D(s, h) + 1
    BY <1>2, <2>1 DEF Gap
  <2>3. QED
    BY <1>3, <2>1, <2>2 DEF s
<1>8. ASSUME NEW r \in RouterId, NEW e \in DestId, routePacket(r, e) \in RouterPorts(r)
      PROVE  dist[<<OtherEnd(r, routePacket(r, e))[1], Home(e)>>] < dist[<<r, Home(e)>>]
  <2> DEFINE i == routePacket(r, e)
             s == OtherEnd(r, i)[1]
             h == Home(e)
  <2>1. /\ s \in RouterId /\ i \in 0 .. 3
        /\ Col(s) = CASE i = 1 -> Col(r) + 1 [] i = 3 -> Col(r) - 1 [] OTHER -> Col(r)
        /\ Row(s) = CASE i = 0 -> Row(r) + 1 [] i = 2 -> Row(r) - 1 [] OTHER -> Row(r)
    BY <1>6, <1>8
  <2>2. /\ h \in RouterId
        /\ \/ i = 3 /\ Col(h) < Col(r)
           \/ i = 1 /\ Col(h) > Col(r)
           \/ i = 2 /\ Col(h) = Col(r) /\ Row(h) < Row(r)
           \/ i = 0 /\ Col(h) = Col(r) /\ Row(h) > Row(r)
           \/ i \in LocalPorts
    BY <1>1, MeshRoute
  <2>3. i \notin LocalPorts
    BY <2>1, MeshIds
  <2> HIDE DEF i, s, h
  <2>4. D(s, h) < D(r, h)
    BY <1>2, <2>1, <2>2, <2>3 DEF Gap
  <2>5. QED
    BY <1>3, <2>1, <2>2, <2>4 DEF i, s, h
<1>9. Distance(dist)
  BY <1>4, <1>5, <1>7, <1>8 DEF Distance
<1>10. QED
  BY <1>9

\* SHORTEST ROUTES IN A MESH (property ShortestRoute), of any size, with any number of
\* endpoints: a packet is handed to the endpoint it is for and to no other, over as few
\* links as any route takes.
THEOREM MeshShortest ==
  IsMesh => (Spec => [](Topology[topo] = Walk => ShortestRoute /\ ejected \subseteq {goal}))
<1> SUFFICES ASSUME IsMesh
             PROVE  Spec => [](Topology[topo] = Walk => ShortestRoute /\ ejected \subseteq {goal})
  OBVIOUS
<1>1. PICK dist : Distance(dist)
  BY MeshDistance
<1>2. QED
  BY <1>1, MeshRegular, ShortestByDistance

-----------------------------------------------------------------------------
(* The tables of a torus.                                                  *)

\* The next position up or down a ring.
Up(a, dim)   == IF a = dim - 1 THEN 0 ELSE a + 1
Down(a, dim) == IF a = 0 THEN dim - 1 ELSE a - 1

LEMMA RingStep ==
  ASSUME NEW dim \in Nat \ {0}, NEW a \in 0 .. dim - 1
  PROVE  /\ (a + 1) % dim = Up(a, dim) /\ (a + dim - 1) % dim = Down(a, dim)
         /\ Up(a, dim) \in 0 .. dim - 1 /\ Down(a, dim) \in 0 .. dim - 1
         /\ Up(Down(a, dim), dim) = a /\ Down(Up(a, dim), dim) = a
<1>1. Up(a, dim) \in 0 .. dim - 1 /\ Down(a, dim) \in 0 .. dim - 1
      /\ Up(Down(a, dim), dim) = a /\ Down(Up(a, dim), dim) = a
  BY DEF Up, Down
<1>2. ASSUME NEW b \in Nat, NEW q \in {0, 1}, NEW c \in 0 .. dim - 1, b = (dim * q) + c
      PROVE  b % dim = c
  BY <1>2, QuotientUnique
<1>3. (a + 1) % dim = Up(a, dim)
  <2>1. CASE a = dim - 1
    <3>1. a + 1 = (dim * 1) + 0 /\ a + 1 \in Nat /\ 0 \in 0 .. dim - 1
      BY <2>1
    <3>2. QED
      BY <1>2, <2>1, <3>1 DEF Up
  <2>2. CASE a # dim - 1
    <3>1. a + 1 = (dim * 0) + (a + 1) /\ a + 1 \in Nat /\ a + 1 \in 0 .. dim - 1
      BY <2>2
    <3>2. QED
      BY <1>2, <2>2, <3>1 DEF Up
  <2>3. QED
    BY <2>1, <2>2
<1>4. (a + dim - 1) % dim = Down(a, dim)
  <2>1. CASE a = 0
    <3>1. a + dim - 1 = (dim * 0) + (dim - 1) /\ a + dim - 1 \in Nat /\ dim - 1 \in 0 .. dim - 1
      BY <2>1
    <3>2. QED
      BY <1>2, <2>1, <3>1 DEF Down
  <2>2. CASE a # 0
    <3>1. a + dim - 1 = (dim * 1) + (a - 1) /\ a + dim - 1 \in Nat /\ a - 1 \in 0 .. dim - 1
      BY <2>2
    <3>2. QED
      BY <1>2, <2>2, <3>1 DEF Down
  <2>3. QED
    BY <2>1, <2>2
<1>5. QED
  BY <1>1, <1>3, <1>4

LEMMA TorusIds ==
  ASSUME IsTorus
  PROVE  /\ RouterId = Cells
         /\ DestId = 0 .. (xDim * yDim * numLocalPorts) - 1
         /\ LocalPorts = 4 .. 4 + numLocalPorts - 1
         /\ \A r : RouterPorts(r) = 0 .. 3
         /\ \A r, i : OtherEnd(r, i) = <<Torus!Neighbor(r, i), Torus!Opposite(i)>>
         /\ \A r : \A i \in LocalPorts : getEndpointId(r, i) = r * numLocalPorts + (i - 4)
         /\ \A r, i : isWrapAroundOutput(r, i) <=> \/ i = 1 /\ Col(r) = xDim - 1
                                                   \/ i = 3 /\ Col(r) = 0
                                                   \/ i = 0 /\ Row(r) = yDim - 1
                                                   \/ i = 2 /\ Row(r) = 0
<1>1. Kind = "torus"
  BY DEF IsTorus
<1>2. LocalPorts = 4 .. 4 + numLocalPorts - 1
  BY <1>1 DEF LocalPorts, Torus!LocalPorts, Torus!LOCAL_PORT
<1>3. \A r : \A i \in LocalPorts : getEndpointId(r, i) = r * numLocalPorts + (i - 4)
  BY <1>1, <1>2 DEF getEndpointId, Torus!getEndpointId, Torus!LOCAL_PORT, IsTorus, Grid
<1>4. /\ RouterId = Cells
      /\ DestId = 0 .. (xDim * yDim * numLocalPorts) - 1
      /\ \A r, i : OtherEnd(r, i) = <<Torus!Neighbor(r, i), Torus!Opposite(i)>>
      /\ \A r : RouterPorts(r) = 0 .. 3
  BY <1>1 DEF RouterId, Torus!RouterId, DestId, Torus!DestId, OtherEnd, Cells,
              RouterPorts, Torus!RouterPorts, Torus!NORTH, Torus!WEST
<1>5. \A r, i : isWrapAroundOutput(r, i) <=> \/ i = 1 /\ Col(r) = xDim - 1
                                             \/ i = 3 /\ Col(r) = 0
                                             \/ i = 0 /\ Row(r) = yDim - 1
                                             \/ i = 2 /\ Row(r) = 0
  BY <1>1 DEF isWrapAroundOutput, Torus!isWrapAroundOutput, Torus!NORTH, Torus!EAST,
              Torus!SOUTH, Torus!WEST, Torus!xId, Torus!yId, Row, Col
<1>6. QED
  BY <1>2, <1>3, <1>4, <1>5

LEMMA TorusStep ==
  ASSUME IsTorus, NEW r \in Cells, NEW i \in 0 .. 3
  PROVE  LET s == Torus!Neighbor(r, i)
         IN  /\ s \in Cells
             /\ Col(s) = CASE i = 1 -> Up(Col(r), xDim) [] i = 3 -> Down(Col(r), xDim)
                           [] OTHER -> Col(r)
             /\ Row(s) = CASE i = 0 -> Up(Row(r), yDim) [] i = 2 -> Down(Row(r), yDim)
                           [] OTHER -> Row(r)
<1> DEFINE s == Torus!Neighbor(r, i)
           x == Col(r)
           y == Row(r)
           nx == CASE i = 1 -> Up(x, xDim) [] i = 3 -> Down(x, xDim) [] OTHER -> x
           ny == CASE i = 0 -> Up(y, yDim) [] i = 2 -> Down(y, yDim) [] OTHER -> y
<1>1. xDim \in Nat \ {0} /\ yDim \in Nat \ {0} /\ Grid
  BY DEF IsTorus, Grid
<1>2. x \in 0 .. xDim - 1 /\ y \in 0 .. yDim - 1
  BY <1>1, ColRow DEF Cells
<1>3. s = CASE i = 0 -> xDim * ((y + 1) % yDim) + x
            [] i = 1 -> xDim * y + ((x + 1) % xDim)
            [] i = 2 -> xDim * ((y + yDim - 1) % yDim) + x
            [] i = 3 -> xDim * y + ((x + xDim - 1) % xDim)
  BY DEF Torus!Neighbor, Torus!NORTH, Torus!EAST, Torus!SOUTH, Torus!WEST,
         Torus!xId, Torus!yId, Col, Row
<1> HIDE DEF s, x, y
<1>4. /\ (x + 1) % xDim = Up(x, xDim) /\ (x + xDim - 1) % xDim = Down(x, xDim)
      /\ Up(x, xDim) \in 0 .. xDim - 1 /\ Down(x, xDim) \in 0 .. xDim - 1
      /\ (y + 1) % yDim = Up(y, yDim) /\ (y + yDim - 1) % yDim = Down(y, yDim)
      /\ Up(y, yDim) \in 0 .. yDim - 1 /\ Down(y, yDim) \in 0 .. yDim - 1
  BY <1>1, <1>2, RingStep
<1>5. nx \in 0 .. xDim - 1 /\ ny \in 0 .. yDim - 1
  BY <1>2, <1>4
<1>6. s = (xDim * ny) + nx
  <2>1. i = 0 \/ i = 1 \/ i = 2 \/ i = 3
    OBVIOUS
  <2>2. QED
    BY <1>3, <1>4, <2>1
<1>7. s \in Cells /\ Col(s) = nx /\ Row(s) = ny
  BY <1>1, <1>5, <1>6, CellOf DEF Cells
<1>8. QED
  BY <1>7 DEF s, x, y

LEMMA TorusLink ==
  ASSUME IsTorus, NEW r \in Cells, NEW i \in 0 .. 3
  PROVE  LET s == Torus!Neighbor(r, i)
             j == Torus!Opposite(i)
         IN  /\ s \in Cells
             /\ j = CASE i = 0 -> 2 [] i = 1 -> 3 [] i = 2 -> 0 [] i = 3 -> 1
             /\ Torus!Neighbor(s, j) = r /\ Torus!Opposite(j) = i
<1> DEFINE s == Torus!Neighbor(r, i)
           j == Torus!Opposite(i)
           t == Torus!Neighbor(s, j)
<1>1. xDim \in Nat \ {0} /\ yDim \in Nat \ {0} /\ Grid
  BY DEF IsTorus, Grid
<1>2. Col(r) \in 0 .. xDim - 1 /\ Row(r) \in 0 .. yDim - 1
  BY <1>1, ColRow DEF Cells
<1>3. j \in 0 .. 3 /\ Torus!Opposite(j) = i
      /\ j = CASE i = 0 -> 2 [] i = 1 -> 3 [] i = 2 -> 0 [] i = 3 -> 1
  <2>1. Torus!Opposite(0) = 2 /\ Torus!Opposite(1) = 3 /\ Torus!Opposite(2) = 0 /\ Torus!Opposite(3) = 1
    BY DEF Torus!Opposite
  <2>2. i = 0 \/ i = 1 \/ i = 2 \/ i = 3
    OBVIOUS
  <2>3. QED
    BY <2>1, <2>2
<1>4. /\ s \in Cells
      /\ Col(s) = CASE i = 1 -> Up(Col(r), xDim) [] i = 3 -> Down(Col(r), xDim) [] OTHER -> Col(r)
      /\ Row(s) = CASE i = 0 -> Up(Row(r), yDim) [] i = 2 -> Down(Row(r), yDim) [] OTHER -> Row(r)
  BY TorusStep
<1> HIDE DEF s, j
<1>5. /\ t \in Cells
      /\ Col(t) = CASE j = 1 -> Up(Col(s), xDim) [] j = 3 -> Down(Col(s), xDim) [] OTHER -> Col(s)
      /\ Row(t) = CASE j = 0 -> Up(Row(s), yDim) [] j = 2 -> Down(Row(s), yDim) [] OTHER -> Row(s)
  BY <1>3, <1>4, TorusStep
<1> HIDE DEF t
<1>6. /\ Up(Down(Col(r), xDim), xDim) = Col(r) /\ Down(Up(Col(r), xDim), xDim) = Col(r)
      /\ Up(Down(Row(r), yDim), yDim) = Row(r) /\ Down(Up(Row(r), yDim), yDim) = Row(r)
  BY <1>1, <1>2, RingStep
<1>7. Col(t) = Col(r) /\ Row(t) = Row(r)
  <2>1. i = 0 \/ i = 1 \/ i = 2 \/ i = 3
    OBVIOUS
  <2>2. QED
    BY <1>3, <1>4, <1>5, <1>6, <2>1
<1>8. t = r
  BY <1>1, <1>5, <1>7, SameCell DEF Cells
<1>9. QED
  BY <1>3, <1>4, <1>8 DEF s, j, t

\* How many links up or down a ring to b, whichever is less.
Ring(a, b, dim) == IF 2 * Gap(a, b) <= dim THEN Gap(a, b) ELSE dim - Gap(a, b)

\* Going up from a to b is no longer than going down.
UpFirst(a, b, dim) == Torus!HopsUp(a, b, dim) <= Torus!HopsUp(b, a, dim)

LEMMA RingDistance ==
  ASSUME NEW dim \in Nat \ {0}, NEW a \in 0 .. dim - 1, NEW b \in 0 .. dim - 1
  PROVE  /\ Ring(a, b, dim) \in Nat /\ (Ring(a, b, dim) = 0 <=> a = b)
         /\ Ring(a, b, dim) <= Ring(Up(a, dim), b, dim) + 1
         /\ Ring(a, b, dim) <= Ring(Down(a, dim), b, dim) + 1
         /\ a # b /\ UpFirst(a, b, dim) => Ring(Up(a, dim), b, dim) < Ring(a, b, dim)
         /\ a # b /\ ~UpFirst(a, b, dim) => Ring(Down(a, dim), b, dim) < Ring(a, b, dim)
<1>1. Ring(a, b, dim) \in Nat /\ (Ring(a, b, dim) = 0 <=> a = b)
  BY DEF Ring, Gap
<1>2. /\ Ring(a, b, dim) <= Ring(Up(a, dim), b, dim) + 1
      /\ a # b /\ UpFirst(a, b, dim) => Ring(Up(a, dim), b, dim) < Ring(a, b, dim)
  <2>1. CASE a = dim - 1
    BY <2>1 DEF Ring, Gap, Up, UpFirst, Torus!HopsUp
  <2>2. CASE a # dim - 1
    BY <2>2 DEF Ring, Gap, Up, UpFirst, Torus!HopsUp
  <2>3. QED
    BY <2>1, <2>2
<1>3. /\ Ring(a, b, dim) <= Ring(Down(a, dim), b, dim) + 1
      /\ a # b /\ ~UpFirst(a, b, dim) => Ring(Down(a, dim), b, dim) < Ring(a, b, dim)
  <2>1. CASE a = 0
    BY <2>1 DEF Ring, Gap, Down, UpFirst, Torus!HopsUp
  <2>2. CASE a # 0
    BY <2>2 DEF Ring, Gap, Down, UpFirst, Torus!HopsUp
  <2>3. QED
    BY <2>1, <2>2
<1>4. QED
  BY <1>1, <1>2, <1>3

LEMMA TorusRoute ==
  ASSUME IsTorus, NEW r \in Cells, NEW e \in DestId
  PROVE  LET i == routePacket(r, e)
             h == Home(e)
         IN  /\ h \in Cells
             /\ \/ i = 1 /\ Col(h) # Col(r) /\ UpFirst(Col(r), Col(h), xDim)
                \/ i = 3 /\ Col(h) # Col(r) /\ ~UpFirst(Col(r), Col(h), xDim)
                \/ i = 0 /\ Col(h) = Col(r) /\ Row(h) # Row(r) /\ UpFirst(Row(r), Row(h), yDim)
                \/ i = 2 /\ Col(h) = Col(r) /\ Row(h) # Row(r) /\ ~UpFirst(Row(r), Row(h), yDim)
                \/ h = r /\ i = 4 + (e - r * numLocalPorts)
<1> DEFINE h == Home(e)
           i == routePacket(r, e)
<1>1. Kind = "torus" /\ Grid
  BY DEF IsTorus
<1>2. h \in Cells
  <2>1. numLocalPorts \in Nat \ {0} /\ xDim * yDim \in Nat /\ e \in 0 .. ((xDim * yDim) * numLocalPorts) - 1
    BY <1>1, TorusIds DEF Grid
  <2>2. QED
    BY <2>1, HomeType DEF Cells
<1>3. i = CASE h = r -> 4 + (e - r * numLocalPorts)
            [] h # r /\ Col(h) # Col(r) -> IF UpFirst(Col(r), Col(h), xDim) THEN 1 ELSE 3
            [] OTHER -> IF UpFirst(Row(r), Row(h), yDim) THEN 0 ELSE 2
  BY <1>1 DEF routePacket, Torus!routePacket, Torus!WEST, Torus!EAST, Torus!SOUTH, Torus!NORTH,
              Torus!LOCAL_PORT, Torus!xId, Torus!yId, Col, Row, Home, UpFirst
<1> HIDE DEF h, i
<1>4. h # r => Col(h) # Col(r) \/ Row(h) # Row(r)
  BY <1>1, <1>2, SameCell DEF Cells
<1>5. QED
  BY <1>2, <1>3, <1>4 DEF h, i

LEMMA TorusRegular == ASSUME IsTorus PROVE Regular(xDim * yDim, 4) /\ RouterId = Cells
<1> DEFINE N == xDim * yDim
<1>1. Grid
  BY DEF IsTorus
<1>2. N \in Nat /\ numLocalPorts \in Nat \ {0} /\ RouterId = 0 .. N - 1
      /\ DestId = 0 .. (N * numLocalPorts) - 1 /\ RouterId = Cells
  BY <1>1, TorusIds DEF Grid, Cells
<1>3. LocalPorts = 4 .. 4 + numLocalPorts - 1
  BY TorusIds
<1>4. \A r \in RouterId : RouterPorts(r) = 0 .. 3
  BY TorusIds
<1>5. \A r \in RouterId, i \in LocalPorts : getEndpointId(r, i) = r * numLocalPorts + (i - 4)
  BY TorusIds
<1>6. ASSUME NEW r \in RouterId, NEW i \in RouterPorts(r)
      PROVE  \E s \in RouterId : \E j \in RouterPorts(s) :
               OtherEnd(r, i) = <<s, j>> /\ OtherEnd(s, j) = <<r, i>> /\ <<s, j>> # <<r, i>>
  <2> DEFINE s == Torus!Neighbor(r, i)
             j == Torus!Opposite(i)
  <2>1. /\ s \in Cells /\ Torus!Neighbor(s, j) = r /\ Torus!Opposite(j) = i
        /\ j = CASE i = 0 -> 2 [] i = 1 -> 3 [] i = 2 -> 0 [] i = 3 -> 1
    BY <1>2, <1>4, TorusLink
  <2>2. OtherEnd(r, i) = <<s, j>> /\ OtherEnd(s, j) = <<r, i>>
    BY <2>1, TorusIds
  <2>3. i \in 0 .. 3
    BY <1>4
  <2> HIDE DEF s, j
  <2>4. j # i /\ j \in 0 .. 3
    BY <2>1, <2>3
  <2>5. QED
    BY <1>2, <1>4, <2>1, <2>2, <2>4
<1>7. ASSUME NEW r \in RouterId, NEW e \in DestId
      PROVE  \/ routePacket(r, e) \in RouterPorts(r)
             \/ r = Home(e) /\ routePacket(r, e) = 4 + (e - r * numLocalPorts)
  <2>1. routePacket(r, e) \in 0 .. 3 \/ (r = Home(e) /\ routePacket(r, e) = 4 + (e - r * numLocalPorts))
    BY <1>2, TorusRoute
  <2>2. QED
    BY <1>4, <2>1
<1> HIDE DEF N
<1>8. Regular(N, 4)
  <2>1. 4 \in Nat /\ 0 .. 3 \subseteq 0 .. 4 - 1
    OBVIOUS
  <2>2. QED
    BY <1>2, <1>3, <1>4, <1>5, <1>6, <1>7, <2>1 DEF Regular
<1>9. QED
  BY <1>2, <1>8 DEF N

LEMMA TorusDistance == ASSUME IsTorus PROVE \E dist : Distance(dist)
<1> DEFINE dist == [x \in RouterId \X RouterId |->
                      Ring(Col(x[1]), Col(x[2]), xDim) + Ring(Row(x[1]), Row(x[2]), yDim)]
           D(r, h) == Ring(Col(r), Col(h), xDim) + Ring(Row(r), Row(h), yDim)
<1>1. RouterId = Cells /\ Grid /\ xDim \in Nat \ {0} /\ yDim \in Nat \ {0}
  BY TorusRegular DEF IsTorus, Grid
<1>2. \A r \in RouterId : Col(r) \in 0 .. xDim - 1 /\ Row(r) \in 0 .. yDim - 1
  BY <1>1, ColRow DEF Cells
<1>3. \A r, h \in RouterId : dist[<<r, h>>] = D(r, h)
  OBVIOUS
<1>4. ASSUME NEW r \in RouterId, NEW h \in RouterId
      PROVE  /\ Ring(Col(r), Col(h), xDim) \in Nat /\ Ring(Row(r), Row(h), yDim) \in Nat
             /\ Ring(Col(r), Col(h), xDim) = 0 <=> Col(r) = Col(h)
             /\ Ring(Row(r), Row(h), yDim) = 0 <=> Row(r) = Row(h)
  BY <1>1, <1>2, RingDistance
<1>5. dist \in [RouterId \X RouterId -> Nat]
  <2>1. \A r, h \in RouterId : D(r, h) \in Nat
    BY <1>4
  <2>2. QED
    BY <2>1
<1> HIDE DEF dist
<1>6. ASSUME NEW r \in RouterId, NEW h \in RouterId
      PROVE  dist[<<r, h>>] = 0 <=> r = h
  <2>1. D(r, h) = 0 <=> Col(r) = Col(h) /\ Row(r) = Row(h)
    BY <1>4
  <2>2. Col(r) = Col(h) /\ Row(r) = Row(h) => r = h
    BY <1>1, SameCell DEF Cells
  <2>3. QED
    BY <1>3, <2>1, <2>2
<1>7. ASSUME NEW r \in RouterId, NEW i \in RouterPorts(r)
      PROVE  LET s == OtherEnd(r, i)[1]
             IN  /\ s \in RouterId
                 /\ Col(s) = CASE i = 1 -> Up(Col(r), xDim) [] i = 3 -> Down(Col(r), xDim)
                               [] OTHER -> Col(r)
                 /\ Row(s) = CASE i = 0 -> Up(Row(r), yDim) [] i = 2 -> Down(Row(r), yDim)
                               [] OTHER -> Row(r)
                 /\ i \in 0 .. 3
  <2> DEFINE q == Torus!Neighbor(r, i)
  <2>1. OtherEnd(r, i)[1] = q /\ i \in 0 .. 3
    BY TorusIds
  <2>2. /\ q \in Cells
        /\ Col(q) = CASE i = 1 -> Up(Col(r), xDim) [] i = 3 -> Down(Col(r), xDim) [] OTHER -> Col(r)
        /\ Row(q) = CASE i = 0 -> Up(Row(r), yDim) [] i = 2 -> Down(Row(r), yDim) [] OTHER -> Row(r)
    BY <1>1, <2>1, TorusStep
  <2> HIDE DEF q
  <2>3. QED
    BY <1>1, <2>1, <2>2
<1>8. ASSUME NEW r \in RouterId, NEW h \in RouterId, NEW i \in RouterPorts(r)
      PROVE  dist[<<r, h>>] <= dist[<<OtherEnd(r, i)[1], h>>] + 1
  <2> DEFINE s == OtherEnd(r, i)[1]
  <2>1. /\ s \in RouterId /\ i \in 0 .. 3
        /\ Col(s) = CASE i = 1 -> Up(Col(r), xDim) [] i = 3 -> Down(Col(r), xDim) [] OTHER -> Col(r)
        /\ Row(s) = CASE i = 0 -> Up(Row(r), yDim) [] i = 2 -> Down(Row(r), yDim) [] OTHER -> Row(r)
    BY <1>7
  <2> HIDE DEF s
  <2>2. /\ Ring(Col(r), Col(h), xDim) <= Ring(Up(Col(r), xDim), Col(h), xDim) + 1
        /\ Ring(Col(r), Col(h), xDim) <= Ring(Down(Col(r), xDim), Col(h), xDim) + 1
        /\ Ring(Row(r), Row(h), yDim) <= Ring(Up(Row(r), yDim), Row(h), yDim) + 1
        /\ Ring(Row(r), Row(h), yDim) <= Ring(Down(Row(r), yDim), Row(h), yDim) + 1
    BY <1>1, <1>2, RingDistance
  <2>3. /\ Ring(Col(r), Col(h), xDim) \in Nat /\ Ring(Row(r), Row(h), yDim) \in Nat
        /\ Ring(Col(s), Col(h), xDim) \in Nat /\ Ring(Row(s), Row(h), yDim) \in Nat
    BY <1>4, <2>1
  <2>4. D(r, h) <= D(s, h) + 1
    BY <2>1, <2>2, <2>3
  <2>5. QED
    BY <1>3, <2>1, <2>4 DEF s
<1>9. ASSUME NEW r \in RouterId, NEW e \in DestId, routePacket(r, e) \in RouterPorts(r)
      PROVE  dist[<<OtherEnd(r, routePacket(r, e))[1], Home(e)>>] < dist[<<r, Home(e)>>]
  <2> DEFINE i == routePacket(r, e)
             s == OtherEnd(r, i)[1]
             h == Home(e)
  <2>1. /\ s \in RouterId /\ i \in 0 .. 3
        /\ Col(s) = CASE i = 1 -> Up(Col(r), xDim) [] i = 3 -> Down(Col(r), xDim) [] OTHER -> Col(r)
        /\ Row(s) = CASE i = 0 -> Up(Row(r), yDim) [] i = 2 -> Down(Row(r), yDim) [] OTHER -> Row(r)
    BY <1>7, <1>9
  <2>2. /\ h \in RouterId
        /\ \/ i = 1 /\ Col(h) # Col(r) /\ UpFirst(Col(r), Col(h), xDim)
           \/ i = 3 /\ Col(h) # Col(r) /\ ~UpFirst(Col(r), Col(h), xDim)
           \/ i = 0 /\ Col(h) = Col(r) /\ Row(h) # Row(r) /\ UpFirst(Row(r), Row(h), yDim)
           \/ i = 2 /\ Col(h) = Col(r) /\ Row(h) # Row(r) /\ ~UpFirst(Row(r), Row(h), yDim)
           \/ h = r /\ i = 4 + (e - r * numLocalPorts)
    BY <1>1, TorusRoute
  <2>3. ~(h = r /\ i = 4 + (e - r * numLocalPorts))
    <3> SUFFICES ASSUME h = r, i = 4 + (e - r * numLocalPorts) PROVE FALSE
      OBVIOUS
    <3>1. i \in LocalPorts
      BY TorusRegular, EndpointIds
    <3>2. QED
      BY <2>1, <3>1, TorusIds
  <2> HIDE DEF i, s, h
  <2>4. /\ Ring(Col(r), Col(h), xDim) \in Nat /\ Ring(Row(r), Row(h), yDim) \in Nat
        /\ Ring(Col(s), Col(h), xDim) \in Nat /\ Ring(Row(s), Row(h), yDim) \in Nat
    BY <1>4, <2>1, <2>2
  <2>5. /\ Col(r) # Col(h) /\ UpFirst(Col(r), Col(h), xDim) =>
             Ring(Up(Col(r), xDim), Col(h), xDim) < Ring(Col(r), Col(h), xDim)
        /\ Col(r) # Col(h) /\ ~UpFirst(Col(r), Col(h), xDim) =>
             Ring(Down(Col(r), xDim), Col(h), xDim) < Ring(Col(r), Col(h), xDim)
        /\ Row(r) # Row(h) /\ UpFirst(Row(r), Row(h), yDim) =>
             Ring(Up(Row(r), yDim), Row(h), yDim) < Ring(Row(r), Row(h), yDim)
        /\ Row(r) # Row(h) /\ ~UpFirst(Row(r), Row(h), yDim) =>
             Ring(Down(Row(r), yDim), Row(h), yDim) < Ring(Row(r), Row(h), yDim)
    BY <1>1, <1>2, <2>2, RingDistance
  <2>6. D(s, h) < D(r, h)
    <3>1. CASE i = 1 \/ i = 3
      BY <2>1, <2>2, <2>3, <2>4, <2>5, <3>1
    <3>2. CASE i = 0 \/ i = 2
      BY <2>1, <2>2, <2>3, <2>4, <2>5, <3>2
    <3>3. QED
      BY <2>2, <2>3, <3>1, <3>2
  <2>7. QED
    BY <1>3, <2>1, <2>2, <2>6 DEF i, s, h
<1>10. Distance(dist)
  BY <1>5, <1>6, <1>8, <1>9 DEF Distance
<1>11. QED
  BY <1>10

\* SHORTEST ROUTES IN A TORUS (property ShortestRoute), of any size: the packet is handed
\* to the endpoint it is for, and going the shorter way round every ring takes as few
\* links as any route, rings of one or two routers included.
THEOREM TorusShortest ==
  IsTorus => (Spec => [](Topology[topo] = Walk => ShortestRoute /\ ejected \subseteq {goal}))
<1> SUFFICES ASSUME IsTorus
             PROVE  Spec => [](Topology[topo] = Walk => ShortestRoute /\ ejected \subseteq {goal})
  OBVIOUS
<1>1. PICK dist : Distance(dist)
  BY TorusDistance
<1>2. QED
  BY <1>1, TorusRegular, ShortestByDistance

-----------------------------------------------------------------------------
(* The flood of a broadcast.                                               *)

\* entry tells at which port each router gets the broadcast of endpoint e.
Enters(entry, e) ==
  /\ <<Home(e), entry[Home(e)]>> = PeerTable[<<e>>]
  /\ \A r \in RouterId :
       /\ broadcastPorts(r, entry[r]) \subseteq (LocalPorts \ {entry[r]}) \cup RouterPorts(r)
       /\ \A i \in broadcastPorts(r, entry[r]) \cap RouterPorts(r) : \E s \in RouterId \ {Home(e)} :
            OtherEnd(r, i) = <<s, entry[s]>>

LEMMA EnteredOnce ==
  ASSUME NEW N, NEW lp, Regular(N, lp), NEW e \in DestId, NEW entry, Enters(entry, e)
  PROVE  \E reach : U!FloodTree(Net, <<e>>, reach)
<1> DEFINE start == PeerTable[<<e>>]
           h == Home(e)
           ports == {<<r, entry[r]>> : r \in RouterId} \cap PortTable
           nics == NicTable \ {<<e>>}
           reach == ports \cup nics
<1>1. /\ Net.Port = PortTable /\ Net.Nic = NicTable /\ Net.Peer = PeerTable /\ Net.Flood = FloodTable
  BY DEF Net
<1>2. h \in RouterId /\ <<e>> \in NicTable /\ start \in LocalPort /\ PeerTable[start] = <<e>>
      /\ start = <<h, entry[h]>>
  <2>1. h \in RouterId
    BY EndpointIds
  <2>2. <<e>> \in NicTable
    BY DEF NicTable
  <2>3. start \in LocalPort /\ PeerTable[start] = <<e>>
    BY <2>2, TablePeers
  <2>4. QED
    BY <2>1, <2>2, <2>3 DEF Enters
<1>3. /\ RouterPort \cap LocalPort = {} /\ PortTable \cap NicTable = {}
      /\ \A r, i : <<r, i>> \in RouterPort <=> r \in RouterId /\ i \in RouterPorts(r)
  BY TablePorts
<1> HIDE DEF start
<1>4. start \in ports /\ ports \subseteq PortTable
  BY <1>2 DEF PortTable
<1>5. \A p \in ports : p[1] \in RouterId /\ p = <<p[1], entry[p[1]]>>
  OBVIOUS
<1>6. ASSUME NEW p \in ports, NEW q \in FloodTable[p]
      PROVE  /\ q[1] = p[1] /\ q # start
             /\ q \in LocalPort \/ (q \in RouterPort /\ \E s \in RouterId : PeerTable[q] = <<s, entry[s]>> /\ s # h)
  <2> DEFINE r == p[1]
  <2>1. r \in RouterId /\ p = <<r, entry[r]>> /\ p \in PortTable
    BY <1>4, <1>5
  <2>2. FloodTable[p] = {<<r, i>> : i \in broadcastPorts(r, entry[r])}
    <3>1. p[2] = entry[r]
      BY <2>1
    <3>2. FloodTable[p] = {<<p[1], i>> : i \in broadcastPorts(p[1], p[2])}
      BY <2>1 DEF FloodTable
    <3>3. QED
      BY <3>1, <3>2
  <2> HIDE DEF r
  <2>3. PICK i \in broadcastPorts(r, entry[r]) : q = <<r, i>>
    BY <2>2
  <2>4. i \in (LocalPorts \ {entry[r]}) \cup RouterPorts(r)
    BY <2>1, <2>3 DEF Enters
  <2>5. q # start
    <3>1. CASE r = h
      <4>1. i # entry[h]
        <5>1. entry[h] \in LocalPorts
          BY <1>2 DEF LocalPort
        <5>2. LocalPorts \cap RouterPorts(r) = {}
          BY <2>1 DEF Regular
        <5>3. QED
          BY <2>4, <3>1, <5>1, <5>2
      <4>2. QED
        BY <1>2, <2>3, <3>1, <4>1
    <3>2. CASE r # h
      BY <1>2, <2>3, <3>2
    <3>3. QED
      BY <3>1, <3>2
  <2>6. CASE i \in LocalPorts
    BY <2>1, <2>3, <2>5, <2>6 DEF LocalPort, r
  <2>7. CASE i \in RouterPorts(r)
    <3>1. PICK s \in RouterId \ {h} : OtherEnd(r, i) = <<s, entry[s]>>
      BY <2>1, <2>3, <2>7 DEF Enters
    <3>2. q \in RouterPort /\ PeerTable[q] = OtherEnd(r, i)
      BY <1>3, <2>1, <2>3, <2>7, TablePeers
    <3>3. QED
      BY <2>3, <2>5, <3>1, <3>2 DEF r
  <2>8. QED
    BY <2>4, <2>6, <2>7
<1>7. ASSUME NEW p \in ports, NEW q \in FloodTable[p]
      PROVE  PeerTable[q] \in reach /\ PeerTable[q] # start
  <2>1. CASE q \in LocalPort
    <3>1. PeerTable[q] \in NicTable /\ PeerTable[PeerTable[q]] = q
      BY <2>1, TablePeers
    <3>2. PeerTable[q] # <<e>>
      BY <1>6, <3>1 DEF start
    <3>3. start \notin NicTable
      BY <1>3, <1>4
    <3>4. QED
      BY <3>1, <3>2, <3>3
  <2>2. CASE q \notin LocalPort
    <3>1. q \in RouterPort
      BY <1>6, <2>2
    <3>2. PICK s \in RouterId : PeerTable[q] = <<s, entry[s]>> /\ s # h
      BY <1>6, <2>2
    <3>3. PeerTable[q] \in RouterPort
      BY <3>1, TablePeers
    <3>4. PeerTable[q] \in ports
      BY <3>2, <3>3 DEF PortTable
    <3>5. PeerTable[q] # start
      BY <1>2, <1>3, <3>3
    <3>6. QED
      BY <3>4, <3>5
  <2>3. QED
    BY <2>1, <2>2
<1>8. ASSUME NEW p \in ports, NEW q \in FloodTable[p], NEW o \in ports, q \in FloodTable[o]
      PROVE  o = p
  BY <1>5, <1>6, <1>8
<1>9. reach \cap PortTable = ports
  BY <1>3, <1>4
<1>10. start \in reach /\ <<e>> \notin reach
  BY <1>2, <1>3, <1>4
<1> HIDE DEF reach, ports
<1>11. U!FloodTree(Net, <<e>>, reach)
  BY <1>1, <1>7, <1>8, <1>9, <1>10 DEF U!FloodTree, start
<1>12. QED
  BY <1>11

\* Where a broadcast from router h comes in at router r: along the row of h first, and
\* from there along the columns.
EntryPort(h, r) ==
  CASE Row(r) > Row(h) -> 2
    [] Row(r) < Row(h) -> 0
    [] Row(r) = Row(h) /\ Col(r) > Col(h) -> 3
    [] OTHER -> 1

MeshEntry(e) ==
  [r \in RouterId |-> IF r = Home(e) THEN PeerTable[<<e>>][2] ELSE EntryPort(Home(e), r)]

\* A step away from h, out of row or straight on.
LEMMA EntryStep ==
  ASSUME NEW h, NEW r, NEW s, NEW i \in 0 .. 3, Row(h) \in Nat, Col(h) \in Nat,
         Row(r) \in Nat, Col(r) \in Nat, Row(s) \in Nat, Col(s) \in Nat,
         \/ i = 0 /\ Row(s) = Row(r) + 1 /\ Col(s) = Col(r)
         \/ i = 1 /\ Row(s) = Row(r) /\ Col(s) = Col(r) + 1
         \/ i = 2 /\ Row(s) = Row(r) - 1 /\ Col(s) = Col(r)
         \/ i = 3 /\ Row(s) = Row(r) /\ Col(s) = Col(r) - 1,
         \/ r = h
         \/ r # h /\ (Row(r) = Row(h) => Col(r) # Col(h)) /\ EntryPort(h, r) \in {1, 3} /\ i # EntryPort(h, r)
         \/ r # h /\ EntryPort(h, r) = 2 /\ i = 0
         \/ r # h /\ EntryPort(h, r) = 0 /\ i = 2
  PROVE  EntryPort(h, s) = (CASE i = 0 -> 2 [] i = 1 -> 3 [] i = 2 -> 0 [] i = 3 -> 1) /\ s # h
<1>1. CASE r = h
  BY <1>1 DEF EntryPort
<1>2. CASE r # h /\ (Row(r) = Row(h) => Col(r) # Col(h)) /\ EntryPort(h, r) \in {1, 3} /\ i # EntryPort(h, r)
  <2>1. Row(r) = Row(h) /\ ((Col(r) > Col(h) /\ i # 3) \/ (Col(r) < Col(h) /\ i # 1))
    BY <1>2 DEF EntryPort
  <2>2. QED
    BY <1>2, <2>1 DEF EntryPort
<1>3. CASE r # h /\ EntryPort(h, r) = 2 /\ i = 0
  <2>1. Row(r) > Row(h)
    BY <1>3 DEF EntryPort
  <2>2. QED
    BY <1>3, <2>1 DEF EntryPort
<1>4. CASE r # h /\ EntryPort(h, r) = 0 /\ i = 2
  <2>1. Row(r) < Row(h)
    BY <1>4 DEF EntryPort
  <2>2. QED
    BY <1>4, <2>1 DEF EntryPort
<1>5. QED
  BY <1>1, <1>2, <1>3, <1>4

LEMMA MeshEnters == ASSUME IsMesh, NEW e \in DestId PROVE Enters(MeshEntry(e), e)
<1> DEFINE h == Home(e)
           entry == MeshEntry(e)
<1>1. Regular(xDim * yDim, 4) /\ RouterId = Cells /\ Grid /\ Kind = "mesh"
  BY MeshRegular DEF IsMesh
<1>2. /\ h \in RouterId /\ PeerTable[<<e>>] = <<h, 4 + (e - h * numLocalPorts)>>
      /\ 4 + (e - h * numLocalPorts) \in LocalPorts
  BY <1>1, EndpointIds, TablePeers
<1>3. \A r \in RouterId : /\ Col(r) \in Nat /\ Row(r) \in Nat
                          /\ Row(r) = Row(h) /\ Col(r) = Col(h) => r = h
  BY <1>1, <1>2, ColRow, SameCell DEF Cells, Grid
<1> HIDE DEF h, entry
<1>4. /\ entry[h] = 4 + (e - h * numLocalPorts) /\ entry[h] \in LocalPorts
      /\ \A r \in RouterId : r # h => entry[r] = EntryPort(h, r)
  BY <1>2 DEF MeshEntry, entry, h
<1>5. LocalPorts \cap (0 .. 3) = {} /\ LocalPorts = Mesh!LocalPorts
      /\ \A r : RouterPorts(r) = Mesh!RouterPorts(r) /\ RouterPorts(r) \subseteq 0 .. 3
  BY <1>1, MeshIds DEF LocalPorts, RouterPorts
<1>6. \A r, i : broadcastPorts(r, i) =
        (LocalPorts \ {i}) \cup
          CASE i \in {0, 2} -> {Mesh!Opposite(i)} \cap RouterPorts(r)
            [] i \in {1, 3} -> RouterPorts(r) \ {i}
            [] OTHER        -> RouterPorts(r)
  BY <1>1, <1>5 DEF broadcastPorts, Mesh!broadcastPorts, Mesh!NORTH, Mesh!EAST, Mesh!SOUTH, Mesh!WEST
<1>7. Mesh!Opposite(0) = 2 /\ Mesh!Opposite(2) = 0
  BY DEF Mesh!Opposite
<1>8. ASSUME NEW r \in RouterId
      PROVE  broadcastPorts(r, entry[r]) \subseteq (LocalPorts \ {entry[r]}) \cup RouterPorts(r)
  <2> DEFINE i == entry[r]
  <2> HIDE DEF i
  <2>1. i \in {0, 2} \/ i \in {1, 3} \/ (i \notin {0, 2} /\ i \notin {1, 3})
    OBVIOUS
  <2>2. broadcastPorts(r, i) \subseteq (LocalPorts \ {i}) \cup RouterPorts(r)
    BY <1>6, <2>1
  <2>3. QED
    BY <2>2 DEF i
<1>9. ASSUME NEW r \in RouterId, NEW i \in broadcastPorts(r, entry[r]) \cap RouterPorts(r)
      PROVE  \E s \in RouterId \ {h} : OtherEnd(r, i) = <<s, entry[s]>>
  <2> DEFINE s == Mesh!Neighbor(r, i)
             j == Mesh!Opposite(i)
  <2>1. OtherEnd(r, i) = <<s, j>> /\ i \in 0 .. 3 /\ i \notin LocalPorts
    BY <1>5, MeshIds
  <2>2. /\ s \in RouterId
        /\ Col(s) = CASE i = 1 -> Col(r) + 1 [] i = 3 -> Col(r) - 1 [] OTHER -> Col(r)
        /\ Row(s) = CASE i = 0 -> Row(r) + 1 [] i = 2 -> Row(r) - 1 [] OTHER -> Row(r)
        /\ j = CASE i = 0 -> 2 [] i = 1 -> 3 [] i = 2 -> 0 [] i = 3 -> 1
    BY <1>1, MeshLink
  <2> HIDE DEF s, j
  <2>3. \/ r = h
        \/ r # h /\ EntryPort(h, r) \in {1, 3} /\ i # EntryPort(h, r)
        \/ r # h /\ EntryPort(h, r) = 2 /\ i = 0
        \/ r # h /\ EntryPort(h, r) = 0 /\ i = 2
    <3> SUFFICES ASSUME r # h
                 PROVE  \/ EntryPort(h, r) \in {1, 3} /\ i # EntryPort(h, r)
                        \/ EntryPort(h, r) = 2 /\ i = 0
                        \/ EntryPort(h, r) = 0 /\ i = 2
      OBVIOUS
    <3>1. entry[r] = EntryPort(h, r) /\ EntryPort(h, r) \in {0, 1, 2, 3}
      BY <1>4 DEF EntryPort
    <3>2. i \in CASE entry[r] \in {0, 2} -> {Mesh!Opposite(entry[r])} \cap RouterPorts(r)
                  [] entry[r] \in {1, 3} -> RouterPorts(r) \ {entry[r]}
                  [] OTHER               -> RouterPorts(r)
      BY <1>6, <2>1
    <3>3. QED
      BY <1>7, <3>1, <3>2
  <2>4. EntryPort(h, s) = j /\ s # h
    <3>1. /\ Row(h) \in Nat /\ Col(h) \in Nat /\ Row(r) \in Nat /\ Col(r) \in Nat
          /\ Row(s) \in Nat /\ Col(s) \in Nat
          /\ r # h => (Row(r) = Row(h) => Col(r) # Col(h))
      BY <1>2, <1>3, <2>2
    <3>2. \/ i = 0 /\ Row(s) = Row(r) + 1 /\ Col(s) = Col(r)
          \/ i = 1 /\ Row(s) = Row(r) /\ Col(s) = Col(r) + 1
          \/ i = 2 /\ Row(s) = Row(r) - 1 /\ Col(s) = Col(r)
          \/ i = 3 /\ Row(s) = Row(r) /\ Col(s) = Col(r) - 1
      BY <2>1, <2>2
    <3>3. QED
      BY <2>1, <2>2, <2>3, <3>1, <3>2, EntryStep
  <2>5. QED
    BY <1>4, <2>1, <2>2, <2>4
<1>10. QED
  BY <1>2, <1>4, <1>8, <1>9 DEF Enters, entry, h

LEMMA TorusEnters == ASSUME IsTorus, NEW e \in DestId PROVE Enters(MeshEntry(e), e)
<1> DEFINE h == Home(e)
           entry == MeshEntry(e)
<1>1. Regular(xDim * yDim, 4) /\ RouterId = Cells /\ Grid /\ Kind = "torus"
      /\ xDim \in Nat \ {0} /\ yDim \in Nat \ {0}
  BY TorusRegular DEF IsTorus, Grid
<1>2. /\ h \in RouterId /\ PeerTable[<<e>>] = <<h, 4 + (e - h * numLocalPorts)>>
      /\ 4 + (e - h * numLocalPorts) \in LocalPorts
  BY <1>1, EndpointIds, TablePeers
<1>3. \A r \in RouterId : /\ Col(r) \in 0 .. xDim - 1 /\ Row(r) \in 0 .. yDim - 1
                          /\ Row(r) = Row(h) /\ Col(r) = Col(h) => r = h
  BY <1>1, <1>2, ColRow, SameCell DEF Cells
<1> HIDE DEF h, entry
<1>4. /\ entry[h] = 4 + (e - h * numLocalPorts) /\ entry[h] \in LocalPorts
      /\ \A r \in RouterId : r # h => entry[r] = EntryPort(h, r)
  BY <1>2 DEF MeshEntry, entry, h
<1>5. LocalPorts \cap (0 .. 3) = {} /\ LocalPorts = Torus!LocalPorts
      /\ \A r : RouterPorts(r) = 0 .. 3
  <2>1. LocalPorts = Torus!LocalPorts
    BY <1>1 DEF LocalPorts
  <2>2. QED
    BY <2>1, TorusIds
<1>6. \A r, i : broadcastPorts(r, i) =
        (LocalPorts \ {i}) \cup
          {d \in CASE i \in {0, 2} -> {Torus!Opposite(i)}
                   [] i \in {1, 3} -> {Torus!Opposite(i), 0, 2}
                   [] OTHER        -> 0 .. 3 : ~isWrapAroundOutput(r, d)}
  BY <1>1, <1>5 DEF broadcastPorts, Torus!broadcastPorts, Torus!sendBroadcast, isWrapAroundOutput,
                    Torus!NORTH, Torus!EAST, Torus!SOUTH, Torus!WEST
<1>7. /\ Torus!Opposite(0) = 2 /\ Torus!Opposite(2) = 0
      /\ Torus!Opposite(1) = 3 /\ Torus!Opposite(3) = 1
  BY DEF Torus!Opposite
<1>8. \A i : (CASE i \in {0, 2} -> {Torus!Opposite(i)}
                [] i \in {1, 3} -> {Torus!Opposite(i), 0, 2}
                [] OTHER        -> 0 .. 3) =
             CASE i = 0 -> {2} [] i = 2 -> {0} [] i = 1 -> {3, 0, 2} [] i = 3 -> {1, 0, 2}
               [] OTHER -> 0 .. 3
  BY <1>7
<1>9. ASSUME NEW r \in RouterId
      PROVE  broadcastPorts(r, entry[r]) \subseteq (LocalPorts \ {entry[r]}) \cup RouterPorts(r)
  <2> DEFINE i == entry[r]
             dirs == CASE i = 0 -> {2} [] i = 2 -> {0} [] i = 1 -> {3, 0, 2} [] i = 3 -> {1, 0, 2}
                       [] OTHER -> 0 .. 3
  <2> HIDE DEF i
  <2>1. dirs \subseteq 0 .. 3
    OBVIOUS
  <2>2. broadcastPorts(r, i) = (LocalPorts \ {i}) \cup {d \in dirs : ~isWrapAroundOutput(r, d)}
    BY <1>6, <1>8
  <2> HIDE DEF dirs
  <2>3. QED
    BY <1>5, <2>1, <2>2 DEF i
<1>10. ASSUME NEW r \in RouterId, NEW i \in broadcastPorts(r, entry[r]) \cap RouterPorts(r)
       PROVE  \E s \in RouterId \ {h} : OtherEnd(r, i) = <<s, entry[s]>>
  <2> DEFINE s == Torus!Neighbor(r, i)
             j == Torus!Opposite(i)
  <2>1. OtherEnd(r, i) = <<s, j>> /\ i \in 0 .. 3 /\ i \notin LocalPorts
    BY <1>5, TorusIds
  <2>2. /\ s \in RouterId
        /\ Col(s) = CASE i = 1 -> Up(Col(r), xDim) [] i = 3 -> Down(Col(r), xDim) [] OTHER -> Col(r)
        /\ Row(s) = CASE i = 0 -> Up(Row(r), yDim) [] i = 2 -> Down(Row(r), yDim) [] OTHER -> Row(r)
        /\ j = CASE i = 0 -> 2 [] i = 1 -> 3 [] i = 2 -> 0 [] i = 3 -> 1
    BY <1>1, <2>1, TorusStep, TorusLink
  <2> HIDE DEF s, j
  <2>3. /\ i \in CASE entry[r] = 0 -> {2} [] entry[r] = 2 -> {0} [] entry[r] = 1 -> {3, 0, 2}
                   [] entry[r] = 3 -> {1, 0, 2} [] OTHER -> 0 .. 3
        /\ ~isWrapAroundOutput(r, i)
    BY <1>6, <1>8, <2>1
  <2>4. \/ r = h
        \/ r # h /\ EntryPort(h, r) \in {1, 3} /\ i # EntryPort(h, r)
        \/ r # h /\ EntryPort(h, r) = 2 /\ i = 0
        \/ r # h /\ EntryPort(h, r) = 0 /\ i = 2
    <3> SUFFICES ASSUME r # h
                 PROVE  \/ EntryPort(h, r) \in {1, 3} /\ i # EntryPort(h, r)
                        \/ EntryPort(h, r) = 2 /\ i = 0
                        \/ EntryPort(h, r) = 0 /\ i = 2
      OBVIOUS
    <3>1. entry[r] = EntryPort(h, r) /\ EntryPort(h, r) \in {0, 1, 2, 3}
      BY <1>4 DEF EntryPort
    <3>2. QED
      BY <2>3, <3>1
  <2>5. \/ i = 0 /\ Row(s) = Row(r) + 1 /\ Col(s) = Col(r)
        \/ i = 1 /\ Row(s) = Row(r) /\ Col(s) = Col(r) + 1
        \/ i = 2 /\ Row(s) = Row(r) - 1 /\ Col(s) = Col(r)
        \/ i = 3 /\ Row(s) = Row(r) /\ Col(s) = Col(r) - 1
    <3>1. ~(\/ i = 1 /\ Col(r) = xDim - 1
            \/ i = 3 /\ Col(r) = 0
            \/ i = 0 /\ Row(r) = yDim - 1
            \/ i = 2 /\ Row(r) = 0)
      BY <2>3, TorusIds
    <3>2. QED
      BY <2>1, <2>2, <3>1 DEF Up, Down
  <2>6. EntryPort(h, s) = j /\ s # h
    <3>1. /\ Row(h) \in Nat /\ Col(h) \in Nat /\ Row(r) \in Nat /\ Col(r) \in Nat
          /\ Row(s) \in Nat /\ Col(s) \in Nat
          /\ r # h => (Row(r) = Row(h) => Col(r) # Col(h))
      BY <1>2, <1>3, <2>2
    <3>2. QED
      BY <2>1, <2>2, <2>4, <2>5, <3>1, EntryStep
  <2>7. QED
    BY <1>4, <2>1, <2>2, <2>6
<1>11. QED
  BY <1>2, <1>4, <1>9, <1>10 DEF Enters, entry, h

-----------------------------------------------------------------------------
(* The three-dimensional torus: layers of grids.                           *)

Grid3D == Grid /\ zDim \in Nat \ {0}
IsTorus3D == Kind = "torus3D" /\ Grid3D

Cells3D  == 0 .. (xDim * yDim * zDim) - 1
Place(r) == r % (xDim * yDim)
Layer(r) == r \div (xDim * yDim)
X(r) == Col(Place(r))
Y(r) == Row(Place(r))

LEMMA Places ==
  ASSUME Grid3D, NEW r \in Cells3D
  PROVE  /\ Place(r) \in Cells /\ Layer(r) \in 0 .. zDim - 1
         /\ X(r) \in 0 .. xDim - 1 /\ Y(r) \in 0 .. yDim - 1
         /\ r = (Layer(r) * (xDim * yDim)) + (Y(r) * xDim) + X(r)
<1> DEFINE a == xDim * yDim
           c == r % a
           z == r \div a
<1>1. a \in Nat \ {0} /\ zDim \in Nat \ {0} /\ Grid /\ xDim \in Nat \ {0} /\ yDim \in Nat \ {0}
  BY DEF Grid3D, Grid
<1>2. r \in Nat /\ r < a * zDim
  <2>1. a * zDim \in Nat
    BY <1>1
  <2>2. QED
    BY <2>1 DEF Cells3D
<1> HIDE DEF a
<1>3. c \in 0 .. a - 1 /\ z \in Nat /\ r = (a * z) + c
  BY <1>1, <1>2
<1> HIDE DEF c, z
<1>4. z < zDim
  <2> SUFFICES ASSUME z >= zDim PROVE FALSE
    BY <1>1, <1>3
  <2>1. a * zDim <= a * z /\ a * z \in Nat /\ a * zDim \in Nat
    BY <1>1, <1>3
  <2>2. QED
    BY <1>2, <1>3, <2>1
<1>5. c \in Cells
  BY <1>3 DEF Cells, a
<1>6. Col(c) \in 0 .. xDim - 1 /\ Row(c) \in 0 .. yDim - 1 /\ c = (xDim * Row(c)) + Col(c)
  BY <1>1, <1>5, ColRow DEF Cells
<1>7. r = (z * a) + (Row(c) * xDim) + Col(c)
  <2>1. a * z = z * a /\ z * a \in Nat
    BY <1>1, <1>3
  <2>2. xDim * Row(c) = Row(c) * xDim /\ Row(c) * xDim \in Nat
    BY <1>1, <1>6
  <2>3. QED
    BY <1>3, <1>6, <2>1, <2>2
<1>8. Place(r) = c /\ Layer(r) = z
  BY DEF Place, Layer, a, c, z
<1>9. z \in 0 .. zDim - 1
  BY <1>1, <1>3, <1>4
<1>10. QED
  BY <1>5, <1>6, <1>7, <1>8, <1>9 DEF X, Y, a

LEMMA PlaceOf ==
  ASSUME Grid3D, NEW x \in 0 .. xDim - 1, NEW y \in 0 .. yDim - 1, NEW z \in 0 .. zDim - 1
  PROVE  LET r == (z * (xDim * yDim)) + (y * xDim) + x
         IN  r \in Cells3D /\ X(r) = x /\ Y(r) = y /\ Layer(r) = z
<1> DEFINE a == xDim * yDim
           c == (xDim * y) + x
           r == (z * a) + (y * xDim) + x
<1>1. a \in Nat \ {0} /\ zDim \in Nat \ {0} /\ Grid /\ xDim \in Nat \ {0} /\ yDim \in Nat \ {0}
      /\ x \in Nat /\ y \in Nat /\ z \in Nat
  BY DEF Grid3D, Grid
<1>2. c \in 0 .. a - 1 /\ Col(c) = x /\ Row(c) = y
  BY <1>1, CellOf
<1>3. r = (a * z) + c
  <2>1. a * z = z * a /\ z * a \in Nat
    BY <1>1
  <2>2. xDim * y = y * xDim /\ y * xDim \in Nat
    BY <1>1
  <2> HIDE DEF a
  <2>3. QED
    BY <1>1, <2>1, <2>2
<1> HIDE DEF r, c, a
<1>4. (a * z) + a <= a * zDim
  <2>1. a * (z + 1) <= a * zDim
    BY <1>1
  <2>2. a * (z + 1) = (a * z) + a
    BY <1>1
  <2>3. QED
    BY <2>1, <2>2
<1>5. r \in Nat /\ r < a * zDim /\ a * zDim \in Nat /\ a * z \in Nat
  <2>1. a * z \in Nat /\ a * zDim \in Nat
    BY <1>1
  <2>2. QED
    BY <1>1, <1>2, <1>3, <1>4, <2>1
<1>6. r \div a = z /\ r % a = c <=> r = (a * z) + c
  BY <1>1, <1>2, <1>5, QuotientUnique
<1>7. Place(r) = c /\ Layer(r) = z
  BY <1>3, <1>6 DEF Place, Layer, a
<1>8. r \in Cells3D
  BY <1>5 DEF Cells3D, a
<1>9. QED
  BY <1>2, <1>7, <1>8 DEF X, Y, r, a

LEMMA SamePlace ==
  ASSUME Grid3D, NEW r \in Cells3D, NEW s \in Cells3D, X(r) = X(s), Y(r) = Y(s), Layer(r) = Layer(s)
  PROVE  r = s
BY Places

LEMMA Torus3DIds ==
  ASSUME IsTorus3D
  PROVE  /\ RouterId = Cells3D
         /\ DestId = 0 .. (xDim * yDim * zDim * numLocalPorts) - 1
         /\ LocalPorts = 6 .. 6 + numLocalPorts - 1
         /\ \A r : RouterPorts(r) = 0 .. 5
         /\ \A r, i : OtherEnd(r, i) = <<Torus3D!Neighbor(r, i), Torus3D!Opposite(i)>>
         /\ \A r : \A i \in LocalPorts : getEndpointId(r, i) = r * numLocalPorts + (i - 6)
         /\ \A r, i : Torus3D!ClosesRing(r, i) <=> \/ i = 1 /\ X(r) = xDim - 1
                                                   \/ i = 3 /\ X(r) = 0
                                                   \/ i = 0 /\ Y(r) = yDim - 1
                                                   \/ i = 2 /\ Y(r) = 0
                                                   \/ i = 4 /\ Layer(r) = zDim - 1
                                                   \/ i = 5 /\ Layer(r) = 0
<1>1. Kind = "torus3D"
  BY DEF IsTorus3D
<1>2. LocalPorts = 6 .. 6 + numLocalPorts - 1
  BY <1>1 DEF LocalPorts, Torus3D!LocalPorts, Torus3D!LOCAL_PORT
<1>3. \A r : \A i \in LocalPorts : getEndpointId(r, i) = r * numLocalPorts + (i - 6)
  BY <1>1, <1>2 DEF getEndpointId, Torus3D!getEndpointId, Torus3D!LOCAL_PORT, IsTorus3D, Grid3D, Grid
<1>4. /\ RouterId = Cells3D
      /\ DestId = 0 .. (xDim * yDim * zDim * numLocalPorts) - 1
      /\ \A r, i : OtherEnd(r, i) = <<Torus3D!Neighbor(r, i), Torus3D!Opposite(i)>>
      /\ \A r : RouterPorts(r) = 0 .. 5
  BY <1>1 DEF RouterId, Torus3D!RouterId, DestId, Torus3D!DestId, OtherEnd, Cells3D,
              RouterPorts, Torus3D!RouterPorts, Torus3D!NORTH, Torus3D!MINUSZ
<1>5. \A r, i : Torus3D!ClosesRing(r, i) <=> \/ i = 1 /\ X(r) = xDim - 1
                                             \/ i = 3 /\ X(r) = 0
                                             \/ i = 0 /\ Y(r) = yDim - 1
                                             \/ i = 2 /\ Y(r) = 0
                                             \/ i = 4 /\ Layer(r) = zDim - 1
                                             \/ i = 5 /\ Layer(r) = 0
  BY DEF Torus3D!ClosesRing, Torus3D!NORTH, Torus3D!EAST, Torus3D!SOUTH, Torus3D!WEST,
         Torus3D!PLUSZ, Torus3D!MINUSZ, Torus3D!xId, Torus3D!yId, Torus3D!zId, X, Y, Layer,
         Place, Row, Col
<1>6. QED
  BY <1>2, <1>3, <1>4, <1>5

LEMMA Torus3DStep ==
  ASSUME IsTorus3D, NEW r \in Cells3D, NEW i \in 0 .. 5
  PROVE  LET s == Torus3D!Neighbor(r, i)
         IN  /\ s \in Cells3D
             /\ X(s) = CASE i = 1 -> Up(X(r), xDim) [] i = 3 -> Down(X(r), xDim) [] OTHER -> X(r)
             /\ Y(s) = CASE i = 0 -> Up(Y(r), yDim) [] i = 2 -> Down(Y(r), yDim) [] OTHER -> Y(r)
             /\ Layer(s) = CASE i = 4 -> Up(Layer(r), zDim) [] i = 5 -> Down(Layer(r), zDim)
                             [] OTHER -> Layer(r)
<1> DEFINE s == Torus3D!Neighbor(r, i)
           x == X(r)
           y == Y(r)
           z == Layer(r)
           nx == CASE i = 1 -> Up(x, xDim) [] i = 3 -> Down(x, xDim) [] OTHER -> x
           ny == CASE i = 0 -> Up(y, yDim) [] i = 2 -> Down(y, yDim) [] OTHER -> y
           nz == CASE i = 4 -> Up(z, zDim) [] i = 5 -> Down(z, zDim) [] OTHER -> z
<1>1. xDim \in Nat \ {0} /\ yDim \in Nat \ {0} /\ zDim \in Nat \ {0} /\ Grid3D
  BY DEF IsTorus3D, Grid3D, Grid
<1>2. x \in 0 .. xDim - 1 /\ y \in 0 .. yDim - 1 /\ z \in 0 .. zDim - 1
  BY <1>1, Places
<1>3. s = CASE i = 0 -> Torus3D!At(x, y + 1, z)
            [] i = 1 -> Torus3D!At(x + 1, y, z)
            [] i = 2 -> Torus3D!At(x, y + yDim - 1, z)
            [] i = 3 -> Torus3D!At(x + xDim - 1, y, z)
            [] i = 4 -> Torus3D!At(x, y, z + 1)
            [] i = 5 -> Torus3D!At(x, y, z + zDim - 1)
  BY DEF Torus3D!Neighbor, Torus3D!NORTH, Torus3D!EAST, Torus3D!SOUTH, Torus3D!WEST,
         Torus3D!PLUSZ, Torus3D!MINUSZ, Torus3D!xId, Torus3D!yId, Torus3D!zId,
         X, Y, Layer, Place, Col, Row
<1> HIDE DEF s, x, y, z
<1>4. /\ (x + 1) % xDim = Up(x, xDim) /\ (x + xDim - 1) % xDim = Down(x, xDim)
      /\ Up(x, xDim) \in 0 .. xDim - 1 /\ Down(x, xDim) \in 0 .. xDim - 1
      /\ (y + 1) % yDim = Up(y, yDim) /\ (y + yDim - 1) % yDim = Down(y, yDim)
      /\ Up(y, yDim) \in 0 .. yDim - 1 /\ Down(y, yDim) \in 0 .. yDim - 1
      /\ (z + 1) % zDim = Up(z, zDim) /\ (z + zDim - 1) % zDim = Down(z, zDim)
      /\ Up(z, zDim) \in 0 .. zDim - 1 /\ Down(z, zDim) \in 0 .. zDim - 1
  BY <1>1, <1>2, RingStep
<1>5. x % xDim = x /\ y % yDim = y /\ z % zDim = z
  <2>1. ASSUME NEW dim \in Nat \ {0}, NEW a \in 0 .. dim - 1 PROVE a % dim = a
    <3>1. a = (dim * 0) + a /\ 0 \in Nat /\ a \in Nat
      OBVIOUS
    <3>2. QED
      BY <3>1, QuotientUnique
  <2>2. QED
    BY <1>1, <1>2, <2>1
<1>6. nx \in 0 .. xDim - 1 /\ ny \in 0 .. yDim - 1 /\ nz \in 0 .. zDim - 1
  BY <1>2, <1>4
<1>7. s = (nz * (xDim * yDim)) + (ny * xDim) + nx
  <2>1. \A a, b, c : Torus3D!At(a, b, c) =
          (c % zDim) * (xDim * yDim) + (b % yDim) * xDim + (a % xDim)
    BY DEF Torus3D!At
  <2>2. i = 0 \/ i = 1 \/ i = 2 \/ i = 3 \/ i = 4 \/ i = 5
    OBVIOUS
  <2>3. s = CASE i = 0 -> z * (xDim * yDim) + Up(y, yDim) * xDim + x
              [] i = 1 -> z * (xDim * yDim) + y * xDim + Up(x, xDim)
              [] i = 2 -> z * (xDim * yDim) + Down(y, yDim) * xDim + x
              [] i = 3 -> z * (xDim * yDim) + y * xDim + Down(x, xDim)
              [] i = 4 -> Up(z, zDim) * (xDim * yDim) + y * xDim + x
              [] i = 5 -> Down(z, zDim) * (xDim * yDim) + y * xDim + x
    BY <1>3, <1>4, <1>5, <2>1, <2>2
  <2>4. QED
    BY <2>2, <2>3
<1>8. s \in Cells3D /\ X(s) = nx /\ Y(s) = ny /\ Layer(s) = nz
  BY <1>1, <1>6, <1>7, PlaceOf
<1>9. QED
  BY <1>8 DEF s, x, y, z

LEMMA Torus3DLink ==
  ASSUME IsTorus3D, NEW r \in Cells3D, NEW i \in 0 .. 5
  PROVE  LET s == Torus3D!Neighbor(r, i)
             j == Torus3D!Opposite(i)
         IN  /\ s \in Cells3D
             /\ j = CASE i = 0 -> 2 [] i = 1 -> 3 [] i = 2 -> 0 [] i = 3 -> 1
                      [] i = 4 -> 5 [] i = 5 -> 4
             /\ Torus3D!Neighbor(s, j) = r /\ Torus3D!Opposite(j) = i
<1> DEFINE s == Torus3D!Neighbor(r, i)
           j == Torus3D!Opposite(i)
           t == Torus3D!Neighbor(s, j)
<1>1. xDim \in Nat \ {0} /\ yDim \in Nat \ {0} /\ zDim \in Nat \ {0} /\ Grid3D
  BY DEF IsTorus3D, Grid3D, Grid
<1>2. X(r) \in 0 .. xDim - 1 /\ Y(r) \in 0 .. yDim - 1 /\ Layer(r) \in 0 .. zDim - 1
  BY <1>1, Places
<1>3. i = 0 \/ i = 1 \/ i = 2 \/ i = 3 \/ i = 4 \/ i = 5
  OBVIOUS
<1>4. j \in 0 .. 5 /\ Torus3D!Opposite(j) = i
      /\ j = CASE i = 0 -> 2 [] i = 1 -> 3 [] i = 2 -> 0 [] i = 3 -> 1 [] i = 4 -> 5 [] i = 5 -> 4
  <2>1. /\ Torus3D!Opposite(0) = 2 /\ Torus3D!Opposite(1) = 3 /\ Torus3D!Opposite(2) = 0
        /\ Torus3D!Opposite(3) = 1 /\ Torus3D!Opposite(4) = 5 /\ Torus3D!Opposite(5) = 4
    BY DEF Torus3D!Opposite, Torus3D!WEST
  <2>2. QED
    BY <1>3, <2>1
<1>5. /\ s \in Cells3D
      /\ X(s) = CASE i = 1 -> Up(X(r), xDim) [] i = 3 -> Down(X(r), xDim) [] OTHER -> X(r)
      /\ Y(s) = CASE i = 0 -> Up(Y(r), yDim) [] i = 2 -> Down(Y(r), yDim) [] OTHER -> Y(r)
      /\ Layer(s) = CASE i = 4 -> Up(Layer(r), zDim) [] i = 5 -> Down(Layer(r), zDim)
                      [] OTHER -> Layer(r)
  BY Torus3DStep
<1> HIDE DEF s, j
<1>6. /\ t \in Cells3D
      /\ X(t) = CASE j = 1 -> Up(X(s), xDim) [] j = 3 -> Down(X(s), xDim) [] OTHER -> X(s)
      /\ Y(t) = CASE j = 0 -> Up(Y(s), yDim) [] j = 2 -> Down(Y(s), yDim) [] OTHER -> Y(s)
      /\ Layer(t) = CASE j = 4 -> Up(Layer(s), zDim) [] j = 5 -> Down(Layer(s), zDim)
                      [] OTHER -> Layer(s)
  BY <1>4, <1>5, Torus3DStep
<1> HIDE DEF t
<1>7. /\ Up(Down(X(r), xDim), xDim) = X(r) /\ Down(Up(X(r), xDim), xDim) = X(r)
      /\ Up(Down(Y(r), yDim), yDim) = Y(r) /\ Down(Up(Y(r), yDim), yDim) = Y(r)
      /\ Up(Down(Layer(r), zDim), zDim) = Layer(r) /\ Down(Up(Layer(r), zDim), zDim) = Layer(r)
  BY <1>1, <1>2, RingStep
<1>8. X(t) = X(r) /\ Y(t) = Y(r) /\ Layer(t) = Layer(r)
  BY <1>3, <1>4, <1>5, <1>6, <1>7
<1>9. t = r
  BY <1>1, <1>6, <1>8, SamePlace
<1>10. QED
  BY <1>4, <1>5, <1>9 DEF s, j, t

\* The two ways of writing which way round is shorter are the same.
LEMMA SameWayRound ==
  ASSUME NEW dim \in Nat \ {0}, NEW a \in 0 .. dim - 1, NEW b \in 0 .. dim - 1
  PROVE  Torus3D!UpIsShorter(a, b, dim) <=> UpFirst(a, b, dim)
<1>1. ASSUME NEW c \in 0 .. dim - 1, NEW d \in 0 .. dim - 1
      PROVE  (d - c + dim) % dim = Torus!HopsUp(c, d, dim)
  <2>1. CASE d - c < 0
    <3>1. d - c + dim = (dim * 0) + (d - c + dim) /\ d - c + dim \in 0 .. dim - 1 /\ 0 \in Nat
          /\ d - c + dim \in Nat
      BY <2>1
    <3>2. (d - c + dim) % dim = d - c + dim
      BY <3>1, QuotientUnique
    <3>3. QED
      BY <2>1, <3>2 DEF Torus!HopsUp
  <2>2. CASE ~(d - c < 0)
    <3>1. d - c + dim = (dim * 1) + (d - c) /\ d - c \in 0 .. dim - 1 /\ 1 \in Nat
          /\ d - c + dim \in Nat
      BY <2>2
    <3>2. (d - c + dim) % dim = d - c
      BY <3>1, QuotientUnique
    <3>3. QED
      BY <2>2, <3>2 DEF Torus!HopsUp
  <2>3. QED
    BY <2>1, <2>2
<1>2. (b - a + dim) % dim = Torus!HopsUp(a, b, dim) /\ (a - b + dim) % dim = Torus!HopsUp(b, a, dim)
  BY <1>1
<1>3. QED
  BY <1>2 DEF Torus3D!UpIsShorter, UpFirst

LEMMA Torus3DRoute ==
  ASSUME IsTorus3D, NEW r \in Cells3D, NEW e \in DestId
  PROVE  LET i == routePacket(r, e)
             h == Home(e)
         IN  /\ h \in Cells3D
             /\ \/ i = 1 /\ X(h) # X(r) /\ UpFirst(X(r), X(h), xDim)
                \/ i = 3 /\ X(h) # X(r) /\ ~UpFirst(X(r), X(h), xDim)
                \/ i = 0 /\ X(h) = X(r) /\ Y(h) # Y(r) /\ UpFirst(Y(r), Y(h), yDim)
                \/ i = 2 /\ X(h) = X(r) /\ Y(h) # Y(r) /\ ~UpFirst(Y(r), Y(h), yDim)
                \/ /\ i = 4 /\ X(h) = X(r) /\ Y(h) = Y(r) /\ Layer(h) # Layer(r)
                   /\ UpFirst(Layer(r), Layer(h), zDim)
                \/ /\ i = 5 /\ X(h) = X(r) /\ Y(h) = Y(r) /\ Layer(h) # Layer(r)
                   /\ ~UpFirst(Layer(r), Layer(h), zDim)
                \/ h = r /\ i = 6 + (e - r * numLocalPorts)
<1> DEFINE h == Home(e)
           i == routePacket(r, e)
<1>1. Kind = "torus3D" /\ Grid3D /\ xDim \in Nat \ {0} /\ yDim \in Nat \ {0} /\ zDim \in Nat \ {0}
  BY DEF IsTorus3D, Grid3D, Grid
<1>2. h \in Cells3D
  <2>1. numLocalPorts \in Nat \ {0} /\ xDim * yDim * zDim \in Nat
        /\ e \in 0 .. ((xDim * yDim * zDim) * numLocalPorts) - 1
    BY <1>1, Torus3DIds DEF Grid3D, Grid
  <2>2. QED
    BY <2>1, HomeType DEF Cells3D
<1>3. i = CASE h = r -> 6 + (e - r * numLocalPorts)
            [] h # r /\ X(h) # X(r) -> IF Torus3D!UpIsShorter(X(r), X(h), xDim) THEN 1 ELSE 3
            [] h # r /\ X(h) = X(r) /\ Y(h) # Y(r) ->
                 IF Torus3D!UpIsShorter(Y(r), Y(h), yDim) THEN 0 ELSE 2
            [] OTHER -> IF Torus3D!UpIsShorter(Layer(r), Layer(h), zDim) THEN 4 ELSE 5
  BY <1>1 DEF routePacket, Torus3D!routePacket, Torus3D!WEST, Torus3D!EAST, Torus3D!SOUTH,
              Torus3D!NORTH, Torus3D!PLUSZ, Torus3D!MINUSZ, Torus3D!LOCAL_PORT,
              Torus3D!xId, Torus3D!yId, Torus3D!zId, X, Y, Layer, Place, Col, Row, Home
<1> HIDE DEF h, i
<1>4. h # r => X(h) # X(r) \/ Y(h) # Y(r) \/ Layer(h) # Layer(r)
  BY <1>1, <1>2, SamePlace
<1>5. /\ Torus3D!UpIsShorter(X(r), X(h), xDim) <=> UpFirst(X(r), X(h), xDim)
      /\ Torus3D!UpIsShorter(Y(r), Y(h), yDim) <=> UpFirst(Y(r), Y(h), yDim)
      /\ Torus3D!UpIsShorter(Layer(r), Layer(h), zDim) <=> UpFirst(Layer(r), Layer(h), zDim)
  <2>1. /\ X(r) \in 0 .. xDim - 1 /\ Y(r) \in 0 .. yDim - 1 /\ Layer(r) \in 0 .. zDim - 1
        /\ X(h) \in 0 .. xDim - 1 /\ Y(h) \in 0 .. yDim - 1 /\ Layer(h) \in 0 .. zDim - 1
    BY <1>1, <1>2, Places
  <2>2. QED
    BY <1>1, <2>1, SameWayRound
<1>6. QED
  BY <1>2, <1>3, <1>4, <1>5 DEF h, i

LEMMA Torus3DRegular == ASSUME IsTorus3D PROVE Regular(xDim * yDim * zDim, 6) /\ RouterId = Cells3D
<1> DEFINE N == xDim * yDim * zDim
<1>1. Grid3D
  BY DEF IsTorus3D
<1>2. N \in Nat /\ numLocalPorts \in Nat \ {0} /\ RouterId = 0 .. N - 1
      /\ DestId = 0 .. (N * numLocalPorts) - 1 /\ RouterId = Cells3D
  BY <1>1, Torus3DIds DEF Grid3D, Grid, Cells3D
<1>3. LocalPorts = 6 .. 6 + numLocalPorts - 1
  BY Torus3DIds
<1>4. \A r \in RouterId : RouterPorts(r) = 0 .. 5
  BY Torus3DIds
<1>5. \A r \in RouterId, i \in LocalPorts : getEndpointId(r, i) = r * numLocalPorts + (i - 6)
  BY Torus3DIds
<1>6. ASSUME NEW r \in RouterId, NEW i \in RouterPorts(r)
      PROVE  \E s \in RouterId : \E j \in RouterPorts(s) :
               OtherEnd(r, i) = <<s, j>> /\ OtherEnd(s, j) = <<r, i>> /\ <<s, j>> # <<r, i>>
  <2> DEFINE s == Torus3D!Neighbor(r, i)
             j == Torus3D!Opposite(i)
  <2>1. /\ s \in Cells3D /\ Torus3D!Neighbor(s, j) = r /\ Torus3D!Opposite(j) = i
        /\ j = CASE i = 0 -> 2 [] i = 1 -> 3 [] i = 2 -> 0 [] i = 3 -> 1 [] i = 4 -> 5 [] i = 5 -> 4
    BY <1>2, <1>4, Torus3DLink
  <2>2. OtherEnd(r, i) = <<s, j>> /\ OtherEnd(s, j) = <<r, i>>
    BY <2>1, Torus3DIds
  <2>3. i \in 0 .. 5
    BY <1>4
  <2> HIDE DEF s, j
  <2>4. j # i /\ j \in 0 .. 5
    BY <2>1, <2>3
  <2>5. QED
    BY <1>2, <1>4, <2>1, <2>2, <2>4
<1>7. ASSUME NEW r \in RouterId, NEW e \in DestId
      PROVE  \/ routePacket(r, e) \in RouterPorts(r)
             \/ r = Home(e) /\ routePacket(r, e) = 6 + (e - r * numLocalPorts)
  <2>1. routePacket(r, e) \in 0 .. 5 \/ (Home(e) = r /\ routePacket(r, e) = 6 + (e - r * numLocalPorts))
    BY <1>2, Torus3DRoute, SMTT(30)
  <2>2. QED
    BY <1>4, <2>1
<1> HIDE DEF N
<1>8. Regular(N, 6)
  <2>1. 6 \in Nat /\ 0 .. 5 \subseteq 0 .. 6 - 1
    OBVIOUS
  <2>2. QED
    BY <1>2, <1>3, <1>4, <1>5, <1>6, <1>7, <2>1 DEF Regular
<1>9. QED
  BY <1>2, <1>8 DEF N

LEMMA Torus3DDistance == ASSUME IsTorus3D PROVE \E dist : Distance(dist)
<1> DEFINE D(r, h) == Ring(X(r), X(h), xDim) + Ring(Y(r), Y(h), yDim)
                        + Ring(Layer(r), Layer(h), zDim)
           dist == [x \in RouterId \X RouterId |-> D(x[1], x[2])]
<1>1. RouterId = Cells3D /\ Grid3D
      /\ xDim \in Nat \ {0} /\ yDim \in Nat \ {0} /\ zDim \in Nat \ {0}
  BY Torus3DRegular DEF IsTorus3D, Grid3D, Grid
<1>2. \A r \in RouterId : /\ X(r) \in 0 .. xDim - 1 /\ Y(r) \in 0 .. yDim - 1
                          /\ Layer(r) \in 0 .. zDim - 1
  BY <1>1, Places
<1>3. \A r, h \in RouterId : dist[<<r, h>>] = D(r, h)
  OBVIOUS
<1>4. ASSUME NEW r \in RouterId, NEW h \in RouterId
      PROVE  /\ Ring(X(r), X(h), xDim) \in Nat /\ Ring(Y(r), Y(h), yDim) \in Nat
             /\ Ring(Layer(r), Layer(h), zDim) \in Nat
             /\ Ring(X(r), X(h), xDim) = 0 <=> X(r) = X(h)
             /\ Ring(Y(r), Y(h), yDim) = 0 <=> Y(r) = Y(h)
             /\ Ring(Layer(r), Layer(h), zDim) = 0 <=> Layer(r) = Layer(h)
  BY <1>1, <1>2, RingDistance
<1>5. dist \in [RouterId \X RouterId -> Nat]
  <2>1. \A r, h \in RouterId : D(r, h) \in Nat
    BY <1>4
  <2>2. QED
    BY <2>1
<1> HIDE DEF dist
<1>6. ASSUME NEW r \in RouterId, NEW h \in RouterId
      PROVE  dist[<<r, h>>] = 0 <=> r = h
  <2>1. D(r, h) = 0 <=> X(r) = X(h) /\ Y(r) = Y(h) /\ Layer(r) = Layer(h)
    BY <1>4
  <2>2. X(r) = X(h) /\ Y(r) = Y(h) /\ Layer(r) = Layer(h) => r = h
    BY <1>1, SamePlace
  <2>3. QED
    BY <1>3, <2>1, <2>2
<1>7. ASSUME NEW r \in RouterId, NEW i \in RouterPorts(r)
      PROVE  LET s == OtherEnd(r, i)[1]
             IN  /\ s \in RouterId /\ i \in 0 .. 5
                 /\ X(s) = CASE i = 1 -> Up(X(r), xDim) [] i = 3 -> Down(X(r), xDim) [] OTHER -> X(r)
                 /\ Y(s) = CASE i = 0 -> Up(Y(r), yDim) [] i = 2 -> Down(Y(r), yDim) [] OTHER -> Y(r)
                 /\ Layer(s) = CASE i = 4 -> Up(Layer(r), zDim) [] i = 5 -> Down(Layer(r), zDim)
                                 [] OTHER -> Layer(r)
  <2> DEFINE q == Torus3D!Neighbor(r, i)
  <2>1. OtherEnd(r, i)[1] = q /\ i \in 0 .. 5
    BY Torus3DIds
  <2>2. /\ q \in Cells3D
        /\ X(q) = CASE i = 1 -> Up(X(r), xDim) [] i = 3 -> Down(X(r), xDim) [] OTHER -> X(r)
        /\ Y(q) = CASE i = 0 -> Up(Y(r), yDim) [] i = 2 -> Down(Y(r), yDim) [] OTHER -> Y(r)
        /\ Layer(q) = CASE i = 4 -> Up(Layer(r), zDim) [] i = 5 -> Down(Layer(r), zDim)
                        [] OTHER -> Layer(r)
    BY <1>1, <2>1, Torus3DStep
  <2> HIDE DEF q
  <2>3. QED
    BY <1>1, <2>1, <2>2
<1>8. ASSUME NEW r \in RouterId, NEW h \in RouterId, NEW i \in RouterPorts(r)
      PROVE  dist[<<r, h>>] <= dist[<<OtherEnd(r, i)[1], h>>] + 1
  <2> DEFINE s == OtherEnd(r, i)[1]
  <2>1. /\ s \in RouterId /\ i \in 0 .. 5
        /\ X(s) = CASE i = 1 -> Up(X(r), xDim) [] i = 3 -> Down(X(r), xDim) [] OTHER -> X(r)
        /\ Y(s) = CASE i = 0 -> Up(Y(r), yDim) [] i = 2 -> Down(Y(r), yDim) [] OTHER -> Y(r)
        /\ Layer(s) = CASE i = 4 -> Up(Layer(r), zDim) [] i = 5 -> Down(Layer(r), zDim)
                        [] OTHER -> Layer(r)
    BY <1>7
  <2> HIDE DEF s
  <2>2. /\ Ring(X(r), X(h), xDim) <= Ring(Up(X(r), xDim), X(h), xDim) + 1
        /\ Ring(X(r), X(h), xDim) <= Ring(Down(X(r), xDim), X(h), xDim) + 1
        /\ Ring(Y(r), Y(h), yDim) <= Ring(Up(Y(r), yDim), Y(h), yDim) + 1
        /\ Ring(Y(r), Y(h), yDim) <= Ring(Down(Y(r), yDim), Y(h), yDim) + 1
        /\ Ring(Layer(r), Layer(h), zDim) <= Ring(Up(Layer(r), zDim), Layer(h), zDim) + 1
        /\ Ring(Layer(r), Layer(h), zDim) <= Ring(Down(Layer(r), zDim), Layer(h), zDim) + 1
    BY <1>1, <1>2, RingDistance
  <2>3. /\ Ring(X(r), X(h), xDim) \in Nat /\ Ring(Y(r), Y(h), yDim) \in Nat
        /\ Ring(X(s), X(h), xDim) \in Nat /\ Ring(Y(s), Y(h), yDim) \in Nat
        /\ Ring(Layer(r), Layer(h), zDim) \in Nat /\ Ring(Layer(s), Layer(h), zDim) \in Nat
    BY <1>4, <2>1
  <2>4. D(r, h) <= D(s, h) + 1
    <3>1. CASE i = 0 \/ i = 2
      BY <2>1, <2>2, <2>3, <3>1
    <3>2. CASE i = 1 \/ i = 3
      BY <2>1, <2>2, <2>3, <3>2
    <3>3. CASE i = 4 \/ i = 5
      BY <2>1, <2>2, <2>3, <3>3
    <3>4. QED
      BY <2>1, <3>1, <3>2, <3>3
  <2>5. QED
    BY <1>3, <2>1, <2>4 DEF s
<1>9. ASSUME NEW r \in RouterId, NEW e \in DestId, routePacket(r, e) \in RouterPorts(r)
      PROVE  dist[<<OtherEnd(r, routePacket(r, e))[1], Home(e)>>] < dist[<<r, Home(e)>>]
  <2> DEFINE i == routePacket(r, e)
             s == OtherEnd(r, i)[1]
             h == Home(e)
  <2>1. /\ s \in RouterId /\ i \in 0 .. 5
        /\ X(s) = CASE i = 1 -> Up(X(r), xDim) [] i = 3 -> Down(X(r), xDim) [] OTHER -> X(r)
        /\ Y(s) = CASE i = 0 -> Up(Y(r), yDim) [] i = 2 -> Down(Y(r), yDim) [] OTHER -> Y(r)
        /\ Layer(s) = CASE i = 4 -> Up(Layer(r), zDim) [] i = 5 -> Down(Layer(r), zDim)
                        [] OTHER -> Layer(r)
    BY <1>7, <1>9
  <2>2. /\ h \in RouterId
        /\ \/ i = 1 /\ X(h) # X(r) /\ UpFirst(X(r), X(h), xDim)
           \/ i = 3 /\ X(h) # X(r) /\ ~UpFirst(X(r), X(h), xDim)
           \/ i = 0 /\ X(h) = X(r) /\ Y(h) # Y(r) /\ UpFirst(Y(r), Y(h), yDim)
           \/ i = 2 /\ X(h) = X(r) /\ Y(h) # Y(r) /\ ~UpFirst(Y(r), Y(h), yDim)
           \/ i = 4 /\ Layer(h) # Layer(r) /\ UpFirst(Layer(r), Layer(h), zDim)
           \/ i = 5 /\ Layer(h) # Layer(r) /\ ~UpFirst(Layer(r), Layer(h), zDim)
           \/ h = r /\ i = 6 + (e - r * numLocalPorts)
    BY <1>1, Torus3DRoute
  <2>3. ~(h = r /\ i = 6 + (e - r * numLocalPorts))
    <3> SUFFICES ASSUME h = r, i = 6 + (e - r * numLocalPorts) PROVE FALSE
      OBVIOUS
    <3>1. i \in LocalPorts
      BY Torus3DRegular, EndpointIds
    <3>2. QED
      BY <2>1, <3>1, Torus3DIds
  <2> HIDE DEF i, s, h
  <2>4. /\ Ring(X(r), X(h), xDim) \in Nat /\ Ring(Y(r), Y(h), yDim) \in Nat
        /\ Ring(X(s), X(h), xDim) \in Nat /\ Ring(Y(s), Y(h), yDim) \in Nat
        /\ Ring(Layer(r), Layer(h), zDim) \in Nat /\ Ring(Layer(s), Layer(h), zDim) \in Nat
    BY <1>4, <2>1, <2>2
  <2>5. /\ X(r) # X(h) /\ UpFirst(X(r), X(h), xDim) =>
             Ring(Up(X(r), xDim), X(h), xDim) < Ring(X(r), X(h), xDim)
        /\ X(r) # X(h) /\ ~UpFirst(X(r), X(h), xDim) =>
             Ring(Down(X(r), xDim), X(h), xDim) < Ring(X(r), X(h), xDim)
        /\ Y(r) # Y(h) /\ UpFirst(Y(r), Y(h), yDim) =>
             Ring(Up(Y(r), yDim), Y(h), yDim) < Ring(Y(r), Y(h), yDim)
        /\ Y(r) # Y(h) /\ ~UpFirst(Y(r), Y(h), yDim) =>
             Ring(Down(Y(r), yDim), Y(h), yDim) < Ring(Y(r), Y(h), yDim)
        /\ Layer(r) # Layer(h) /\ UpFirst(Layer(r), Layer(h), zDim) =>
             Ring(Up(Layer(r), zDim), Layer(h), zDim) < Ring(Layer(r), Layer(h), zDim)
        /\ Layer(r) # Layer(h) /\ ~UpFirst(Layer(r), Layer(h), zDim) =>
             Ring(Down(Layer(r), zDim), Layer(h), zDim) < Ring(Layer(r), Layer(h), zDim)
    BY <1>1, <1>2, <2>2, RingDistance
  <2>6. D(s, h) < D(r, h)
    <3>1. CASE i = 1 \/ i = 3
      BY <2>1, <2>2, <2>3, <2>4, <2>5, <3>1
    <3>2. CASE i = 0 \/ i = 2
      BY <2>1, <2>2, <2>3, <2>4, <2>5, <3>2
    <3>3. CASE i = 4 \/ i = 5
      BY <2>1, <2>2, <2>3, <2>4, <2>5, <3>3
    <3>4. QED
      BY <2>2, <2>3, <3>1, <3>2, <3>3
  <2>7. QED
    BY <1>3, <2>1, <2>2, <2>6 DEF i, s, h
<1>10. Distance(dist)
  BY <1>5, <1>6, <1>8, <1>9 DEF Distance
<1>11. QED
  BY <1>10

\* SHORTEST ROUTES IN A THREE-DIMENSIONAL TORUS (property ShortestRoute), of any size.
THEOREM Torus3DShortest ==
  IsTorus3D => (Spec => [](Topology[topo] = Walk => ShortestRoute /\ ejected \subseteq {goal}))
<1> SUFFICES ASSUME IsTorus3D
             PROVE  Spec => [](Topology[topo] = Walk => ShortestRoute /\ ejected \subseteq {goal})
  OBVIOUS
<1>1. PICK dist : Distance(dist)
  BY Torus3DDistance
<1>2. QED
  BY <1>1, Torus3DRegular, ShortestByDistance

\* Where a broadcast from router h comes in at router r: along x first, then y, then z.
EntryPort3D(h, r) ==
  CASE Layer(r) > Layer(h) -> 5
    [] Layer(r) < Layer(h) -> 4
    [] Layer(r) = Layer(h) /\ Y(r) > Y(h) -> 2
    [] Layer(r) = Layer(h) /\ Y(r) < Y(h) -> 0
    [] Layer(r) = Layer(h) /\ Y(r) = Y(h) /\ X(r) > X(h) -> 3
    [] OTHER -> 1

Torus3DEntry(e) ==
  [r \in RouterId |-> IF r = Home(e) THEN PeerTable[<<e>>][2] ELSE EntryPort3D(Home(e), r)]

\* A step away from h, into a later dimension or straight on.
LEMMA EntryStep3D ==
  ASSUME NEW h, NEW r, NEW s, NEW i \in 0 .. 5,
         X(h) \in Nat, Y(h) \in Nat, Layer(h) \in Nat,
         X(r) \in Nat, Y(r) \in Nat, Layer(r) \in Nat,
         X(s) \in Nat, Y(s) \in Nat, Layer(s) \in Nat,
         \/ i = 0 /\ Y(s) = Y(r) + 1 /\ X(s) = X(r) /\ Layer(s) = Layer(r)
         \/ i = 1 /\ X(s) = X(r) + 1 /\ Y(s) = Y(r) /\ Layer(s) = Layer(r)
         \/ i = 2 /\ Y(s) = Y(r) - 1 /\ X(s) = X(r) /\ Layer(s) = Layer(r)
         \/ i = 3 /\ X(s) = X(r) - 1 /\ Y(s) = Y(r) /\ Layer(s) = Layer(r)
         \/ i = 4 /\ Layer(s) = Layer(r) + 1 /\ X(s) = X(r) /\ Y(s) = Y(r)
         \/ i = 5 /\ Layer(s) = Layer(r) - 1 /\ X(s) = X(r) /\ Y(s) = Y(r),
         r # h => X(r) # X(h) \/ Y(r) # Y(h) \/ Layer(r) # Layer(h),
         \/ r = h
         \/ r # h /\ EntryPort3D(h, r) \in {1, 3} /\ i # EntryPort3D(h, r)
         \/ r # h /\ EntryPort3D(h, r) = 2 /\ i \in {0, 4, 5}
         \/ r # h /\ EntryPort3D(h, r) = 0 /\ i \in {2, 4, 5}
         \/ r # h /\ EntryPort3D(h, r) = 5 /\ i = 4
         \/ r # h /\ EntryPort3D(h, r) = 4 /\ i = 5
  PROVE  /\ EntryPort3D(h, s) = CASE i = 0 -> 2 [] i = 1 -> 3 [] i = 2 -> 0 [] i = 3 -> 1
                                  [] i = 4 -> 5 [] i = 5 -> 4
         /\ s # h
<1>1. CASE r = h
  BY <1>1 DEF EntryPort3D
<1>2. CASE r # h /\ EntryPort3D(h, r) \in {1, 3} /\ i # EntryPort3D(h, r)
  <2>1. Layer(r) = Layer(h) /\ Y(r) = Y(h)
        /\ ((X(r) > X(h) /\ i # 3) \/ (X(r) < X(h) /\ i # 1))
    BY <1>2 DEF EntryPort3D
  <2>2. QED
    BY <1>2, <2>1 DEF EntryPort3D
<1>3. CASE r # h /\ EntryPort3D(h, r) = 2 /\ i \in {0, 4, 5}
  <2>1. Layer(r) = Layer(h) /\ Y(r) > Y(h)
    BY <1>3 DEF EntryPort3D
  <2>2. QED
    BY <1>3, <2>1 DEF EntryPort3D
<1>4. CASE r # h /\ EntryPort3D(h, r) = 0 /\ i \in {2, 4, 5}
  <2>1. Layer(r) = Layer(h) /\ Y(r) < Y(h)
    BY <1>4 DEF EntryPort3D
  <2>2. QED
    BY <1>4, <2>1 DEF EntryPort3D
<1>5. CASE r # h /\ EntryPort3D(h, r) = 5 /\ i = 4
  <2>1. Layer(r) > Layer(h)
    BY <1>5 DEF EntryPort3D
  <2>2. QED
    BY <1>5, <2>1 DEF EntryPort3D
<1>6. CASE r # h /\ EntryPort3D(h, r) = 4 /\ i = 5
  <2>1. Layer(r) < Layer(h)
    BY <1>6 DEF EntryPort3D
  <2>2. QED
    BY <1>6, <2>1 DEF EntryPort3D
<1>7. QED
  BY <1>1, <1>2, <1>3, <1>4, <1>5, <1>6

LEMMA Torus3DEnters == ASSUME IsTorus3D, NEW e \in DestId PROVE Enters(Torus3DEntry(e), e)
<1> DEFINE h == Home(e)
           entry == Torus3DEntry(e)
<1>1. Regular(xDim * yDim * zDim, 6) /\ RouterId = Cells3D /\ Grid3D /\ Kind = "torus3D"
      /\ xDim \in Nat \ {0} /\ yDim \in Nat \ {0} /\ zDim \in Nat \ {0}
  BY Torus3DRegular DEF IsTorus3D, Grid3D, Grid
<1>2. /\ h \in RouterId /\ PeerTable[<<e>>] = <<h, 6 + (e - h * numLocalPorts)>>
      /\ 6 + (e - h * numLocalPorts) \in LocalPorts
  BY <1>1, EndpointIds, TablePeers
<1>3. \A r \in RouterId : /\ X(r) \in 0 .. xDim - 1 /\ Y(r) \in 0 .. yDim - 1
                          /\ Layer(r) \in 0 .. zDim - 1
                          /\ X(r) = X(h) /\ Y(r) = Y(h) /\ Layer(r) = Layer(h) => r = h
  BY <1>1, <1>2, Places, SamePlace
<1> HIDE DEF h, entry
<1>4. /\ entry[h] = 6 + (e - h * numLocalPorts) /\ entry[h] \in LocalPorts
      /\ \A r \in RouterId : r # h => entry[r] = EntryPort3D(h, r)
  BY <1>2 DEF Torus3DEntry, entry, h
<1>5. LocalPorts \cap (0 .. 5) = {} /\ LocalPorts = Torus3D!LocalPorts
      /\ \A r : RouterPorts(r) = 0 .. 5
  <2>1. LocalPorts = Torus3D!LocalPorts
    BY <1>1 DEF LocalPorts
  <2>2. QED
    BY <2>1, Torus3DIds
<1> DEFINE dirs(i) == CASE i = 4 -> {5} [] i = 5 -> {4} [] i = 0 -> {2, 4, 5} [] i = 2 -> {0, 4, 5}
                        [] i = 1 -> (0 .. 5) \ {1} [] i = 3 -> (0 .. 5) \ {3}
                        [] OTHER -> 0 .. 5
<1>6. \A r, i : broadcastPorts(r, i) =
        (LocalPorts \ {i}) \cup {d \in dirs(i) : ~Torus3D!ClosesRing(r, d)}
  <2>1. \A r, i : broadcastPorts(r, i) =
          (LocalPorts \ {i}) \cup
            {d \in CASE i \in {4, 5} -> {Torus3D!Opposite(i)}
                     [] i \in {0, 2} -> {Torus3D!Opposite(i), 4, 5}
                     [] i \in {1, 3} -> (0 .. 5) \ {i}
                     [] OTHER        -> 0 .. 5 : ~Torus3D!ClosesRing(r, d)}
    BY <1>1, <1>5 DEF broadcastPorts, Torus3D!broadcastPorts, Torus3D!sendBroadcast,
                      Torus3D!NORTH, Torus3D!EAST, Torus3D!SOUTH, Torus3D!WEST,
                      Torus3D!PLUSZ, Torus3D!MINUSZ
  <2>2. /\ Torus3D!Opposite(0) = 2 /\ Torus3D!Opposite(2) = 0
        /\ Torus3D!Opposite(4) = 5 /\ Torus3D!Opposite(5) = 4
    BY DEF Torus3D!Opposite, Torus3D!WEST
  <2>3. \A i : (CASE i \in {4, 5} -> {Torus3D!Opposite(i)}
                  [] i \in {0, 2} -> {Torus3D!Opposite(i), 4, 5}
                  [] i \in {1, 3} -> (0 .. 5) \ {i}
                  [] OTHER        -> 0 .. 5) = dirs(i)
    BY <2>2
  <2> HIDE DEF dirs
  <2>4. QED
    BY <2>1, <2>3
<1>7. ASSUME NEW r \in RouterId
      PROVE  broadcastPorts(r, entry[r]) \subseteq (LocalPorts \ {entry[r]}) \cup RouterPorts(r)
  <2>1. \A i : dirs(i) \subseteq 0 .. 5
    OBVIOUS
  <2> HIDE DEF dirs
  <2>2. QED
    BY <1>5, <1>6, <2>1
<1>8. ASSUME NEW r \in RouterId, NEW i \in broadcastPorts(r, entry[r]) \cap RouterPorts(r)
      PROVE  \E s \in RouterId \ {h} : OtherEnd(r, i) = <<s, entry[s]>>
  <2> DEFINE s == Torus3D!Neighbor(r, i)
             j == Torus3D!Opposite(i)
  <2>1. OtherEnd(r, i) = <<s, j>> /\ i \in 0 .. 5 /\ i \notin LocalPorts
    BY <1>5, Torus3DIds
  <2>2. /\ s \in RouterId
        /\ X(s) = CASE i = 1 -> Up(X(r), xDim) [] i = 3 -> Down(X(r), xDim) [] OTHER -> X(r)
        /\ Y(s) = CASE i = 0 -> Up(Y(r), yDim) [] i = 2 -> Down(Y(r), yDim) [] OTHER -> Y(r)
        /\ Layer(s) = CASE i = 4 -> Up(Layer(r), zDim) [] i = 5 -> Down(Layer(r), zDim)
                        [] OTHER -> Layer(r)
        /\ j = CASE i = 0 -> 2 [] i = 1 -> 3 [] i = 2 -> 0 [] i = 3 -> 1 [] i = 4 -> 5 [] i = 5 -> 4
    BY <1>1, <2>1, Torus3DStep, Torus3DLink
  <2> HIDE DEF s, j
  <2>3. i \in dirs(entry[r]) /\ ~Torus3D!ClosesRing(r, i)
    <3> HIDE DEF dirs
    <3>1. QED
      BY <1>6, <2>1
  <2>4. \/ r = h
        \/ r # h /\ EntryPort3D(h, r) \in {1, 3} /\ i # EntryPort3D(h, r)
        \/ r # h /\ EntryPort3D(h, r) = 2 /\ i \in {0, 4, 5}
        \/ r # h /\ EntryPort3D(h, r) = 0 /\ i \in {2, 4, 5}
        \/ r # h /\ EntryPort3D(h, r) = 5 /\ i = 4
        \/ r # h /\ EntryPort3D(h, r) = 4 /\ i = 5
    <3> SUFFICES ASSUME r # h
                 PROVE  \/ EntryPort3D(h, r) \in {1, 3} /\ i # EntryPort3D(h, r)
                        \/ EntryPort3D(h, r) = 2 /\ i \in {0, 4, 5}
                        \/ EntryPort3D(h, r) = 0 /\ i \in {2, 4, 5}
                        \/ EntryPort3D(h, r) = 5 /\ i = 4
                        \/ EntryPort3D(h, r) = 4 /\ i = 5
      OBVIOUS
    <3>1. entry[r] = EntryPort3D(h, r) /\ EntryPort3D(h, r) \in {0, 1, 2, 3, 4, 5}
      BY <1>4 DEF EntryPort3D
    <3>2. QED
      BY <2>3, <3>1
  <2>5. \/ i = 0 /\ Y(s) = Y(r) + 1 /\ X(s) = X(r) /\ Layer(s) = Layer(r)
        \/ i = 1 /\ X(s) = X(r) + 1 /\ Y(s) = Y(r) /\ Layer(s) = Layer(r)
        \/ i = 2 /\ Y(s) = Y(r) - 1 /\ X(s) = X(r) /\ Layer(s) = Layer(r)
        \/ i = 3 /\ X(s) = X(r) - 1 /\ Y(s) = Y(r) /\ Layer(s) = Layer(r)
        \/ i = 4 /\ Layer(s) = Layer(r) + 1 /\ X(s) = X(r) /\ Y(s) = Y(r)
        \/ i = 5 /\ Layer(s) = Layer(r) - 1 /\ X(s) = X(r) /\ Y(s) = Y(r)
    <3>1. ~(\/ i = 1 /\ X(r) = xDim - 1
            \/ i = 3 /\ X(r) = 0
            \/ i = 0 /\ Y(r) = yDim - 1
            \/ i = 2 /\ Y(r) = 0
            \/ i = 4 /\ Layer(r) = zDim - 1
            \/ i = 5 /\ Layer(r) = 0)
      BY <2>3, Torus3DIds
    <3> HIDE DEF dirs
    <3>2. QED
      BY <2>1, <2>2, <3>1 DEF Up, Down
  <2>6. EntryPort3D(h, s) = j /\ s # h
    <3>1. /\ X(h) \in Nat /\ Y(h) \in Nat /\ Layer(h) \in Nat
          /\ X(r) \in Nat /\ Y(r) \in Nat /\ Layer(r) \in Nat
          /\ X(s) \in Nat /\ Y(s) \in Nat /\ Layer(s) \in Nat
          /\ r # h => X(r) # X(h) \/ Y(r) # Y(h) \/ Layer(r) # Layer(h)
      BY <1>2, <1>3, <2>2
    <3> HIDE DEF dirs
    <3>2. QED
      BY <2>1, <2>2, <2>4, <2>5, <3>1, EntryStep3D
  <2>7. QED
    BY <1>4, <2>1, <2>2, <2>6
<1>9. QED
  BY <1>2, <1>4, <1>7, <1>8 DEF Enters, entry, h
-----------------------------------------------------------------------------
(* Broadcasts in meshes and tori.                                          *)

\* FLOODS ARE TREES in every mesh and every torus: a broadcast comes to each router over
\* one way only, along the dimensions one after the other.
LEMMA GridFloods == ASSUME IsMesh \/ IsTorus \/ IsTorus3D PROVE U!FloodsAreTrees(Net)
<1>1. ASSUME NEW e \in DestId PROVE \E reach : U!FloodTree(Net, <<e>>, reach)
  <2>1. CASE IsMesh
    BY <2>1, MeshRegular, MeshEnters, EnteredOnce
  <2>2. CASE IsTorus
    BY <2>2, TorusRegular, TorusEnters, EnteredOnce
  <2>3. CASE IsTorus3D
    BY <2>3, Torus3DRegular, Torus3DEnters, EnteredOnce
  <2>4. QED
    BY <2>1, <2>2, <2>3
<1>2. Net.Nic = NicTable
  BY DEF Net
<1>3. QED
  BY <1>1, <1>2 DEF U!FloodsAreTrees, NicTable

\* BROADCASTS ARE HEARD ONCE (property HeardAtMostOnce) in meshes and tori of any size,
\* whoever sends what: the flood reaches no endpoint by two ways, and what is for one
\* endpoint reaches no other.
THEOREM GridHeardOnce ==
  (IsMesh \/ IsTorus \/ IsTorus3D) /\ U!TablesAssumption
    => (U!Spec => [](U!wired = Net => U!HeardAtMostOnce))
<1> SUFFICES ASSUME IsMesh \/ IsTorus \/ IsTorus3D, U!TablesAssumption
             PROVE  U!Spec => [](U!wired = Net => U!HeardAtMostOnce)
  OBVIOUS
<1>1. U!wired = Net => U!FloodsAreTrees(U!wired)
  BY GridFloods
<1>2. U!Spec => [](U!FloodsAreTrees(U!wired) => U!HeardAtMostOnce)
  BY U!FloodsHeardOnce
<1>3. QED
  BY <1>1, <1>2, PTL

-----------------------------------------------------------------------------
(* What the other modules assume of a network.                             *)

\* A broadcast is not sent where there is no link.
FloodsStay ==
  \A r \in RouterId : \A i \in LocalPorts \cup RouterPorts(r) :
    broadcastPorts(r, i) \subseteq LocalPorts \cup RouterPorts(r)

LEMMA TablesFit ==
  ASSUME NEW N, NEW lp, Regular(N, lp)
  PROVE  /\ V!LinkAssumption /\ V!TopologyAssumption
         /\ FloodsStay /\ Broadcast \notin NicTable => U!WellFormed(Net)
<1> DEFINE Ends == PortTable \cup NicTable
<1>1. /\ RouterPort \cap LocalPort = {} /\ PortTable \cap NicTable = {}
      /\ \A p \in RouterPort : p[1] \in RouterId /\ p[2] \in RouterPorts(p[1]) /\ p = <<p[1], p[2]>>
      /\ \A p \in LocalPort : p[1] \in RouterId /\ p[2] \in LocalPorts /\ p = <<p[1], p[2]>>
      /\ \A r, i : <<r, i>> \in RouterPort <=> r \in RouterId /\ i \in RouterPorts(r)
  BY TablePorts
<1>2. ASSUME NEW x \in Ends PROVE PeerTable[x] \in Ends /\ PeerTable[x] # x /\ PeerTable[PeerTable[x]] = x
  <2>1. CASE x \in RouterPort
    BY <2>1, TablePeers DEF PortTable
  <2>2. CASE x \in LocalPort
    <3>1. PeerTable[x] \in NicTable /\ PeerTable[PeerTable[x]] = x
      BY <2>2, TablePeers
    <3>2. QED
      BY <1>1, <2>2, <3>1 DEF PortTable
  <2>3. CASE x \in NicTable
    <3>1. PeerTable[x] \in LocalPort /\ PeerTable[PeerTable[x]] = x
      BY <2>3, TablePeers
    <3>2. QED
      BY <1>1, <2>3, <3>1 DEF PortTable
  <2>4. QED
    BY <2>1, <2>2, <2>3 DEF PortTable
<1>3. PeerTable \in [Ends -> Ends]
  BY <1>2 DEF PeerTable
<1>4. \A x \in NicTable : PeerTable[x] \in PortTable
  BY TablePeers DEF PortTable
<1>5. /\ RouterOfTable \in [PortTable -> RouterId]
      /\ RouteTable \in [RouterId -> [NicTable -> PortTable]]
      /\ \A r \in RouterId, x \in NicTable :
           /\ RouterOfTable[RouteTable[r][x]] = r
           /\ RouteTable[r][x] \in LocalPort => PeerTable[RouteTable[r][x]] = x
  BY TableRoutes
<1>6. V!LinkAssumption
  BY <1>1, <1>2, <1>3, <1>4 DEF V!LinkAssumption, V!End
<1>7. V!TopologyAssumption
  <2>1. WrapTable \subseteq PortTable
    BY DEF WrapTable, PortTable
  <2>2. QED
    BY <1>5, <2>1 DEF V!TopologyAssumption
<1>8. ASSUME FloodsStay, Broadcast \notin NicTable PROVE U!WellFormed(Net)
  <2>1. /\ Net.Port = PortTable /\ Net.Nic = NicTable /\ Net.Peer = PeerTable
        /\ Net.RouterOf = RouterOfTable /\ Net.Route = RouteTable /\ Net.Flood = FloodTable
        /\ Net.GatewayPort = {}
    BY DEF Net
  <2>2. {RouterOfTable[p] : p \in PortTable} = RouterId
    <3>1. ASSUME NEW r \in RouterId PROVE \E p \in PortTable : RouterOfTable[p] = r
      <4>1. lp \in LocalPorts
        BY DEF Regular
      <4>2. <<r, lp>> \in PortTable
        BY <4>1 DEF PortTable, LocalPort
      <4>3. RouterOfTable[<<r, lp>>] = r
        BY <4>2 DEF RouterOfTable
      <4>4. QED
        BY <4>2, <4>3
    <3>2. \A p \in PortTable : RouterOfTable[p] \in RouterId
      BY <1>5
    <3>3. QED
      BY <3>1, <3>2
  <2>3. \A r \in RouterId, x \in NicTable :
          PeerTable[RouteTable[r][x]] \in NicTable => PeerTable[RouteTable[r][x]] = x
    <3> SUFFICES ASSUME NEW r \in RouterId, NEW x \in NicTable,
                        PeerTable[RouteTable[r][x]] \in NicTable
                 PROVE  PeerTable[RouteTable[r][x]] = x
      OBVIOUS
    <3>1. RouteTable[r][x] \in PortTable
      BY <1>5
    <3>2. RouteTable[r][x] \notin RouterPort
      <4>1. \A p \in RouterPort : PeerTable[p] \in PortTable
        BY TablePeers DEF PortTable
      <4>2. QED
        BY <1>1, <4>1
    <3>3. QED
      BY <1>5, <3>1, <3>2 DEF PortTable
  <2>4. FloodTable \in [PortTable -> SUBSET PortTable]
    <3>1. ASSUME NEW p \in PortTable PROVE {<<p[1], i>> : i \in broadcastPorts(p[1], p[2])} \subseteq PortTable
      <4>1. p[1] \in RouterId /\ p[2] \in LocalPorts \cup RouterPorts(p[1])
        BY <1>1 DEF PortTable
      <4>2. \A i \in LocalPorts \cup RouterPorts(p[1]) : <<p[1], i>> \in PortTable
        BY <1>1, <4>1 DEF PortTable, LocalPort
      <4>3. broadcastPorts(p[1], p[2]) \subseteq LocalPorts \cup RouterPorts(p[1])
        BY <1>8, <4>1 DEF FloodsStay
      <4>4. QED
        BY <4>2, <4>3
    <3>2. QED
      BY <3>1 DEF FloodTable
  <2>5. QED
    BY <1>1, <1>2, <1>3, <1>4, <1>5, <1>8, <2>1, <2>2, <2>3, <2>4 DEF U!WellFormed
<1>9. QED
  BY <1>6, <1>7, <1>8

\* GRIDS ARE NETWORKS: the tables of every mesh and every torus are what the modules of
\* the routers and of untimed data assume of a network, so that what is proved of any
\* network is proved of these.
THEOREM GridNetworks ==
  IsMesh \/ IsTorus \/ IsTorus3D =>
    /\ V!LinkAssumption /\ V!TopologyAssumption
    /\ Broadcast \notin NicTable => U!WellFormed(Net)
<1>1. CASE IsMesh
  <2>1. FloodsStay
    <3>1. Kind = "mesh" /\ LocalPorts = Mesh!LocalPorts
          /\ \A r : RouterPorts(r) = Mesh!RouterPorts(r)
      BY <1>1 DEF IsMesh, LocalPorts, RouterPorts
    <3>2. \A r, i : broadcastPorts(r, i) =
            (LocalPorts \ {i}) \cup
              CASE i \in {0, 2} -> {Mesh!Opposite(i)} \cap RouterPorts(r)
                [] i \in {1, 3} -> RouterPorts(r) \ {i}
                [] OTHER        -> RouterPorts(r)
      BY <3>1 DEF broadcastPorts, Mesh!broadcastPorts, Mesh!NORTH, Mesh!EAST, Mesh!SOUTH, Mesh!WEST
    <3>3. QED
      BY <3>2 DEF FloodsStay
  <2>2. QED
    BY <1>1, <2>1, MeshRegular, TablesFit
<1>2. CASE IsTorus
  <2>1. FloodsStay
    <3>1. Kind = "torus" /\ LocalPorts = Torus!LocalPorts /\ \A r : RouterPorts(r) = 0 .. 3
      BY <1>2, TorusIds DEF IsTorus, LocalPorts
    <3>2. \A r, i : broadcastPorts(r, i) \subseteq
            LocalPorts \cup CASE i \in {0, 2} -> {Torus!Opposite(i)}
                              [] i \in {1, 3} -> {Torus!Opposite(i), 0, 2}
                              [] OTHER        -> 0 .. 3
      BY <3>1 DEF broadcastPorts, Torus!broadcastPorts, Torus!sendBroadcast,
                  Torus!NORTH, Torus!EAST, Torus!SOUTH, Torus!WEST
    <3>3. Torus!Opposite(0) = 2 /\ Torus!Opposite(2) = 0 /\ Torus!Opposite(1) = 3 /\ Torus!Opposite(3) = 1
      BY DEF Torus!Opposite
    <3>4. QED
      BY <3>1, <3>2, <3>3 DEF FloodsStay
  <2>2. QED
    BY <1>2, <2>1, TorusRegular, TablesFit
<1>3. CASE IsTorus3D
  <2>1. FloodsStay
    <3>1. Kind = "torus3D" /\ LocalPorts = Torus3D!LocalPorts /\ \A r : RouterPorts(r) = 0 .. 5
      BY <1>3, Torus3DIds DEF IsTorus3D, LocalPorts
    <3>2. \A r, i : broadcastPorts(r, i) \subseteq
            LocalPorts \cup CASE i \in {4, 5} -> {Torus3D!Opposite(i)}
                              [] i \in {0, 2} -> {Torus3D!Opposite(i), 4, 5}
                              [] i \in {1, 3} -> (0 .. 5) \ {i}
                              [] OTHER        -> 0 .. 5
      BY <3>1 DEF broadcastPorts, Torus3D!broadcastPorts, Torus3D!sendBroadcast, Torus3D!NORTH,
                  Torus3D!EAST, Torus3D!SOUTH, Torus3D!WEST, Torus3D!PLUSZ, Torus3D!MINUSZ
    <3>3. /\ Torus3D!Opposite(0) = 2 /\ Torus3D!Opposite(2) = 0
          /\ Torus3D!Opposite(4) = 5 /\ Torus3D!Opposite(5) = 4
      BY DEF Torus3D!Opposite, Torus3D!WEST
    <3>4. QED
      BY <3>1, <3>2, <3>3 DEF FloodsStay
  <2>2. QED
    BY <1>3, <2>1, Torus3DRegular, TablesFit
<1>4. QED
  BY <1>1, <1>2, <1>3

-----------------------------------------------------------------------------
(* Small rings.                                                            *)

SmallRings == xDim <= 3 /\ yDim <= 3

\* In a ring of three or less the next position is where the packet is to go.
LEMMA SmallRing ==
  ASSUME NEW dim \in 1 .. 3, NEW a \in 0 .. dim - 1, NEW b \in 0 .. dim - 1, a # b
  PROVE  /\ UpFirst(a, b, dim) => Up(a, dim) = b
         /\ ~UpFirst(a, b, dim) => Down(a, dim) = b
BY DEF UpFirst, Torus!HopsUp, Up, Down

LEMMA SmallTorusLinks ==
  ASSUME IsTorus, SmallRings, NEW p \in RouterPort, NEW q \in V!NextLinks(p)
  PROVE  q \in RouterPort /\ p[2] \in {1, 3} /\ q[2] \in {0, 2}
<1> DEFINE r == p[1]
           i == p[2]
           s == q[1]
           j == q[2]
<1>1. Regular(xDim * yDim, 4) /\ RouterId = Cells /\ Grid /\ xDim \in 1 .. 3 /\ yDim \in 1 .. 3
  BY TorusRegular DEF IsTorus, Grid, SmallRings
<1>2. q \in RouterPort /\ s = OtherEnd(r, i)[1]
  BY <1>1, NextOf
<1>3. PICK e \in DestId : i = routePacket(r, e) /\ j = routePacket(s, e)
  BY <1>1, NextOf
<1>4. r \in Cells /\ i \in 0 .. 3 /\ s \in Cells /\ j \in 0 .. 3
  BY <1>1, <1>2, TablePorts, TorusIds
<1>5. s = Torus!Neighbor(r, i)
  BY <1>2, TorusIds
<1> DEFINE h == Home(e)
<1>6. ASSUME NEW t \in Cells, routePacket(t, e) \in 0 .. 3
      PROVE  ~(h = t /\ routePacket(t, e) = 4 + (e - t * numLocalPorts))
  <2> SUFFICES ASSUME h = t, routePacket(t, e) = 4 + (e - t * numLocalPorts) PROVE FALSE
    OBVIOUS
  <2>1. routePacket(t, e) \in LocalPorts
    BY <1>1, EndpointIds
  <2>2. QED
    BY <1>6, <2>1, TorusIds
<1> HIDE DEF r, i, s, j
<1>7. /\ Col(s) = CASE i = 1 -> Up(Col(r), xDim) [] i = 3 -> Down(Col(r), xDim) [] OTHER -> Col(r)
      /\ Row(s) = CASE i = 0 -> Up(Row(r), yDim) [] i = 2 -> Down(Row(r), yDim) [] OTHER -> Row(r)
  BY <1>4, <1>5, TorusStep
<1>8. /\ h \in Cells
      /\ \/ i = 1 /\ Col(h) # Col(r) /\ UpFirst(Col(r), Col(h), xDim)
         \/ i = 3 /\ Col(h) # Col(r) /\ ~UpFirst(Col(r), Col(h), xDim)
         \/ i = 0 /\ Col(h) = Col(r) /\ Row(h) # Row(r) /\ UpFirst(Row(r), Row(h), yDim)
         \/ i = 2 /\ Col(h) = Col(r) /\ Row(h) # Row(r) /\ ~UpFirst(Row(r), Row(h), yDim)
  BY <1>3, <1>4, <1>6, TorusRoute
<1>9. \/ j = 1 /\ Col(h) # Col(s)
      \/ j = 3 /\ Col(h) # Col(s)
      \/ j = 0 /\ Col(h) = Col(s) /\ Row(h) # Row(s)
      \/ j = 2 /\ Col(h) = Col(s) /\ Row(h) # Row(s)
  BY <1>3, <1>4, <1>6, TorusRoute
<1> HIDE DEF h
<1>10. \A t \in Cells : Col(t) \in 0 .. xDim - 1 /\ Row(t) \in 0 .. yDim - 1
  BY <1>1, ColRow DEF Cells
<1>11. /\ Col(r) # Col(h) => /\ UpFirst(Col(r), Col(h), xDim) => Up(Col(r), xDim) = Col(h)
                             /\ ~UpFirst(Col(r), Col(h), xDim) => Down(Col(r), xDim) = Col(h)
       /\ Row(r) # Row(h) => /\ UpFirst(Row(r), Row(h), yDim) => Up(Row(r), yDim) = Row(h)
                             /\ ~UpFirst(Row(r), Row(h), yDim) => Down(Row(r), yDim) = Row(h)
  BY <1>1, <1>4, <1>8, <1>10, SmallRing
<1>12. i \in {1, 3} => Col(s) = Col(h)
  BY <1>7, <1>8, <1>11
<1>13. i \notin {0, 2}
  <2>1. i \in {0, 2} => Col(s) = Col(h) /\ Row(s) = Row(h)
    BY <1>7, <1>8, <1>11
  <2>2. QED
    BY <1>9, <2>1
<1>14. QED
  BY <1>2, <1>4, <1>8, <1>9, <1>12, <1>13 DEF i, j

LEMMA SmallTorus3DLinks ==
  ASSUME IsTorus3D, SmallRings, zDim <= 3, NEW p \in RouterPort, NEW q \in V!NextLinks(p)
  PROVE  /\ q \in RouterPort
         /\ \/ p[2] \in {1, 3} /\ q[2] \in {0, 2, 4, 5}
            \/ p[2] \in {0, 2} /\ q[2] \in {4, 5}
<1> DEFINE r == p[1]
           i == p[2]
           s == q[1]
           j == q[2]
<1>1. Regular(xDim * yDim * zDim, 6) /\ RouterId = Cells3D /\ Grid3D
      /\ xDim \in 1 .. 3 /\ yDim \in 1 .. 3 /\ zDim \in 1 .. 3
  BY Torus3DRegular DEF IsTorus3D, Grid3D, Grid, SmallRings
<1>2. q \in RouterPort /\ s = OtherEnd(r, i)[1]
  BY <1>1, NextOf
<1>3. PICK e \in DestId : i = routePacket(r, e) /\ j = routePacket(s, e)
  BY <1>1, NextOf
<1>4. r \in Cells3D /\ i \in 0 .. 5 /\ s \in Cells3D /\ j \in 0 .. 5
  BY <1>1, <1>2, TablePorts, Torus3DIds
<1>5. s = Torus3D!Neighbor(r, i)
  BY <1>2, Torus3DIds
<1> DEFINE h == Home(e)
<1>6. ASSUME NEW t \in Cells3D, routePacket(t, e) \in 0 .. 5
      PROVE  ~(h = t /\ routePacket(t, e) = 6 + (e - t * numLocalPorts))
  <2> SUFFICES ASSUME h = t, routePacket(t, e) = 6 + (e - t * numLocalPorts) PROVE FALSE
    OBVIOUS
  <2>1. routePacket(t, e) \in LocalPorts
    BY <1>1, EndpointIds
  <2>2. QED
    BY <1>6, <2>1, Torus3DIds
<1> HIDE DEF r, i, s, j
<1>7. /\ X(s) = CASE i = 1 -> Up(X(r), xDim) [] i = 3 -> Down(X(r), xDim) [] OTHER -> X(r)
      /\ Y(s) = CASE i = 0 -> Up(Y(r), yDim) [] i = 2 -> Down(Y(r), yDim) [] OTHER -> Y(r)
      /\ Layer(s) = CASE i = 4 -> Up(Layer(r), zDim) [] i = 5 -> Down(Layer(r), zDim)
                      [] OTHER -> Layer(r)
  BY <1>4, <1>5, Torus3DStep
<1>8. /\ h \in Cells3D
      /\ \/ i = 1 /\ X(h) # X(r) /\ UpFirst(X(r), X(h), xDim)
         \/ i = 3 /\ X(h) # X(r) /\ ~UpFirst(X(r), X(h), xDim)
         \/ i = 0 /\ X(h) = X(r) /\ Y(h) # Y(r) /\ UpFirst(Y(r), Y(h), yDim)
         \/ i = 2 /\ X(h) = X(r) /\ Y(h) # Y(r) /\ ~UpFirst(Y(r), Y(h), yDim)
         \/ i = 4 /\ X(h) = X(r) /\ Y(h) = Y(r) /\ Layer(h) # Layer(r) /\ UpFirst(Layer(r), Layer(h), zDim)
         \/ i = 5 /\ X(h) = X(r) /\ Y(h) = Y(r) /\ Layer(h) # Layer(r) /\ ~UpFirst(Layer(r), Layer(h), zDim)
  BY <1>3, <1>4, <1>6, Torus3DRoute
<1>9. \/ j \in {1, 3} /\ X(h) # X(s)
      \/ j \in {0, 2} /\ X(h) = X(s) /\ Y(h) # Y(s)
      \/ j \in {4, 5} /\ X(h) = X(s) /\ Y(h) = Y(s) /\ Layer(h) # Layer(s)
  BY <1>3, <1>4, <1>6, Torus3DRoute
<1> HIDE DEF h
<1>10. \A t \in Cells3D : /\ X(t) \in 0 .. xDim - 1 /\ Y(t) \in 0 .. yDim - 1
                          /\ Layer(t) \in 0 .. zDim - 1
  BY <1>1, Places
<1>11. /\ X(r) # X(h) => /\ UpFirst(X(r), X(h), xDim) => Up(X(r), xDim) = X(h)
                         /\ ~UpFirst(X(r), X(h), xDim) => Down(X(r), xDim) = X(h)
       /\ Y(r) # Y(h) => /\ UpFirst(Y(r), Y(h), yDim) => Up(Y(r), yDim) = Y(h)
                         /\ ~UpFirst(Y(r), Y(h), yDim) => Down(Y(r), yDim) = Y(h)
       /\ Layer(r) # Layer(h) => /\ UpFirst(Layer(r), Layer(h), zDim) => Up(Layer(r), zDim) = Layer(h)
                                 /\ ~UpFirst(Layer(r), Layer(h), zDim) => Down(Layer(r), zDim) = Layer(h)
  BY <1>1, <1>4, <1>8, <1>10, SmallRing
<1>12. i \in {1, 3} => X(s) = X(h)
  BY <1>7, <1>8, <1>11
<1>13. i \in {0, 2} => X(s) = X(h) /\ Y(s) = Y(h)
  BY <1>7, <1>8, <1>11
<1>14. i \notin {4, 5}
  <2>1. i \in {4, 5} => X(s) = X(h) /\ Y(s) = Y(h) /\ Layer(s) = Layer(h)
    BY <1>7, <1>8, <1>11
  <2>2. QED
    BY <1>9, <2>1
<1>15. QED
  BY <1>2, <1>4, <1>8, <1>9, <1>12, <1>13, <1>14 DEF i, j

\* NO DEADLOCK IN SMALL TORI (property AcyclicDependencies), such as the 3x3x3 torus of
\* the tests: where no ring is longer than three, packets turn into the next dimension
\* after every link, and never wait for each other in a circle, with any number of
\* virtual channels.
THEOREM SmallTorusAcyclic ==
  (IsTorus /\ SmallRings) \/ (IsTorus3D /\ SmallRings /\ zDim <= 3)
    => (V!Spec => V!AcyclicDependencies)
<1> DEFINE rank == [p \in RouterPort |-> CASE p[2] \in {1, 3} -> 3 [] p[2] \in {0, 2} -> 2 [] OTHER -> 1]
<1>1. \A p \in RouterPort : rank[p] \in Int
  OBVIOUS
<1>2. ASSUME IsTorus, SmallRings PROVE V!Spec => V!AcyclicDependencies
  <2>1. V!RouterLink = RouterPort
    BY <1>2, TorusRegular, NextOf
  <2>2. ASSUME NEW p \in RouterPort, NEW q \in V!NextLinks(p)
        PROVE  q \in RouterPort /\ rank[q] < rank[p]
    <3>1. q \in RouterPort /\ p[2] \in {1, 3} /\ q[2] \in {0, 2}
      BY <1>2, SmallTorusLinks
    <3>2. QED
      BY <3>1
  <2> HIDE DEF rank
  <2>3. QED
    BY <1>1, <2>1, <2>2, Ranked
<1>3. ASSUME IsTorus3D, SmallRings, zDim <= 3 PROVE V!Spec => V!AcyclicDependencies
  <2>1. V!RouterLink = RouterPort
    BY <1>3, Torus3DRegular, NextOf
  <2>2. ASSUME NEW p \in RouterPort, NEW q \in V!NextLinks(p)
        PROVE  q \in RouterPort /\ rank[q] < rank[p]
    <3>1. /\ q \in RouterPort
          /\ \/ p[2] \in {1, 3} /\ q[2] \in {0, 2, 4, 5}
             \/ p[2] \in {0, 2} /\ q[2] \in {4, 5}
      BY <1>3, SmallTorus3DLinks
    <3>2. QED
      BY <3>1
  <2> HIDE DEF rank
  <2>3. QED
    BY <1>1, <2>1, <2>2, Ranked
<1>4. QED
  BY <1>2, <1>3
=============================================================================
