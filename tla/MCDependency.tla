---------------------------- MODULE MCDependency ----------------------------
(***************************************************************************)
(* VcDependency on three networks side by side: a mesh, the 3x3x3 torus of *)
(* the tests and a flattened butterfly.                                    *)
(***************************************************************************)
EXTENDS VcDependency, TLC

Mesh      == INSTANCE Topologies WITH Kind <- "mesh", xDim <- 4, yDim <- 3, zDim <- 1,
                                      numLocalPorts <- 1, k <- 2, n <- 2
Torus3D   == INSTANCE Topologies WITH Kind <- "torus3D", xDim <- 3, yDim <- 3, zDim <- 3,
                                      numLocalPorts <- 1, k <- 2, n <- 2
Butterfly == INSTANCE Topologies WITH Kind <- "butterfly", xDim <- 1, yDim <- 1, zDim <- 1,
                                      numLocalPorts <- 1, k <- 2, n <- 4

Nets == [mesh |-> Mesh!Net, torus3D |-> Torus3D!Net, butterfly |-> Butterfly!Net]
Wrap == [mesh |-> Mesh!WrapTable, torus3D |-> Torus3D!WrapTable, butterfly |-> Butterfly!WrapTable]

\* Everything of network w is named <<w, its own name>>.
Tagged(S) == UNION {{<<w, x>> : x \in S[w]} : w \in DOMAIN S}

Nics     == Tagged([w \in DOMAIN Nets |-> Nets[w].Nic])
Ports    == Tagged([w \in DOMAIN Nets |-> Nets[w].Port])
Routers  == Tagged([w \in DOMAIN Nets |-> DOMAIN Nets[w].Route])
Wraps    == Tagged(Wrap)
RouterOn == [p \in Ports |-> <<p[1], Nets[p[1]].RouterOf[p[2]]>>]
PeerOn   == [e \in Ports \cup Nics |-> <<e[1], Nets[e[1]].Peer[e[2]]>>]

\* A router is never asked for the NICs of another network: as for one of its own.
Own(w, d) == IF d[1] = w THEN d[2] ELSE CHOOSE e \in Nets[w].Nic : TRUE
Routes    == [r \in Routers |->
                [d \in Nics |-> <<r[1], Nets[r[1]].Route[r[2]][Own(r[1], d)]>>]]

\* What a cfg gives to a constant TLC evaluates at every use, but the definitions
\* it refers to only once.
MCNic      == Nics
MCPort     == Ports
MCRouter   == Routers
MCWrapPort == Wraps
MCRouterOf == RouterOn
MCPeer     == PeerOn
MCRoute    == Routes

NoPackets == [x \in {} |-> 0]
OneFlit   == [e \in Ports \cup Nics |-> 1]
=============================================================================
