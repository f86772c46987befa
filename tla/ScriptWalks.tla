---------------------------- MODULE ScriptWalks ----------------------------
(***************************************************************************)
(* Networks as the simulation scripts wire them, with the topology that    *)
(* their routers load: what a router answers is computed from its id and   *)
(* the sizes it is told, where its ports lead is what the script made of   *)
(* them.                                                                   *)
(***************************************************************************)
EXTENDS ScriptFiles

\* A router port of the graph, as <<router id, port number>>.
PortOf(net, end) == <<net.params[end[1]].id, end[2][2]>>

IsRouter(net, end) == net.params[end[1]].kind = "router"

\* Each end of a link at a router, with the end across.
Across(net) == {x \in UNION {{<<e[1], e[2]>>, <<e[2], e[1]>>} : e \in {net.links[l] : l \in DOMAIN net.links}} :
                  IsRouter(net, x[1])}

\* The wiring of a graph, its links seen from both ends, with routers that answer as in walk.
Wiring(net, across, walk) ==
  LET trunks == {x \in across : IsRouter(net, x[2])}
      far(p) == (CHOOSE x \in trunks : PortOf(net, x[1]) = p)[2]
  IN  [OutPort    |-> walk.OutPort,
       Link       |-> [p \in {PortOf(net, x[1]) : x \in trunks} |-> PortOf(net, far(p))],
       EndpointId |-> [p \in {PortOf(net, x[1]) : x \in across \ trunks} |-> walk.EndpointId[p]]]

WireGraph(net, walk) == Wiring(net, Across(net), walk)

\* The graph that calls build.
Wire(calls, walk) == WireGraph(Built(calls), walk)

-----------------------------------------------------------------------------
Mesh33  == INSTANCE Topologies WITH Kind <- "mesh", xDim <- 3, yDim <- 3, zDim <- 1,
                               numLocalPorts <- 1, k <- 2, n <- 2
Mesh53  == INSTANCE Topologies WITH Kind <- "mesh", xDim <- 5, yDim <- 3, zDim <- 1,
                               numLocalPorts <- 2, k <- 2, n <- 2
Torus33 == INSTANCE Topologies WITH Kind <- "torus", xDim <- 3, yDim <- 3, zDim <- 1,
                               numLocalPorts <- 1, k <- 2, n <- 2
Torus85 == INSTANCE Topologies WITH Kind <- "torus", xDim <- 8, yDim <- 5, zDim <- 1,
                               numLocalPorts <- 1, k <- 2, n <- 2
Torus551 == INSTANCE Topologies WITH Kind <- "torus3D", xDim <- 5, yDim <- 5, zDim <- 1,
                                numLocalPorts <- 1, k <- 2, n <- 2
Fly42   == INSTANCE Topologies WITH Kind <- "butterfly", xDim <- 1, yDim <- 1, zDim <- 1,
                               numLocalPorts <- 1, k <- 4, n <- 2
Fly24   == INSTANCE Topologies WITH Kind <- "butterfly", xDim <- 1, yDim <- 1, zDim <- 1,
                               numLocalPorts <- 1, k <- 2, n <- 4

WiredWalks ==
  [offered_load  |-> Wire(OfferedLoad_createMesh(3, 3, 1), Mesh33!Walk),
   trafficgen    |-> Wire(TrafficGen_createMesh(5, 3, 2), Mesh53!Walk),
   oct7          |-> Wire(Oct7TwoVc_createSimpleTorus(3, 3, 1), Torus33!Walk),
   merlin        |-> Wire(MerlinTestNic_createSimpleTorus(8, 5, 1), Torus85!Walk),
   torus_testnic |-> Wire(TorusTestNic_createTorus(5, 5, 1, 1), Torus551!Walk),
   fig1b         |-> Wire(TrafficGen_FlattenedButterfly(4, 2), Fly42!Walk),
   fig1d         |-> Wire(OfferedLoad_FlattenedButterfly(2, 4), Fly24!Walk)]
=============================================================================
