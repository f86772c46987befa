------------------------------- MODULE MCRoute -------------------------------
(***************************************************************************)
(* RouteWalk on every topology, wired as the topology's tests do it and as *)
(* the simulation scripts do it.                                           *)
(***************************************************************************)
EXTENDS RouteWalk, Domains, TLC

Scripts == INSTANCE ScriptWalks

Mesh3x3      == INSTANCE Topologies WITH Kind <- "mesh", xDim <- 3, yDim <- 3, zDim <- 1,
                                    numLocalPorts <- 2, k <- 2, n <- 2
Torus5x4     == INSTANCE Topologies WITH Kind <- "torus", xDim <- 5, yDim <- 4, zDim <- 1,
                                    numLocalPorts <- 1, k <- 2, n <- 2
Torus3x2x4   == INSTANCE Topologies WITH Kind <- "torus3D", xDim <- 3, yDim <- 2, zDim <- 4,
                                    numLocalPorts <- 1, k <- 2, n <- 2
Butterfly3x3 == INSTANCE Topologies WITH Kind <- "butterfly", xDim <- 1, yDim <- 1, zDim <- 1,
                                    numLocalPorts <- 1, k <- 3, n <- 3

Walks == [mesh |-> Mesh3x3!Walk, torus |-> Torus5x4!Walk, torus3D |-> Torus3x2x4!Walk,
          butterfly |-> Butterfly3x3!Walk, triangle |-> Triangle!Walk, chain |-> Chain!Walk] @@ Scripts!WiredWalks

\* What a cfg gives to a constant TLC evaluates at every use, but the definitions
\* it refers to only once.
MCTopology == Walks
=============================================================================
