------------------------------ MODULE MCUntimed ------------------------------
(***************************************************************************)
(* Untimed data in a mesh, in tori, and across domains joined by gateways. *)
(***************************************************************************)
EXTENDS UntimedBroadcast, Domains

Mesh3x2    == INSTANCE Topologies WITH Kind <- "mesh", xDim <- 3, yDim <- 2, zDim <- 1,
                                    numLocalPorts <- 1, k <- 2, n <- 2
Torus4x3   == INSTANCE Topologies WITH Kind <- "torus", xDim <- 4, yDim <- 3, zDim <- 1,
                                    numLocalPorts <- 1, k <- 2, n <- 2
Torus3x2x2 == INSTANCE Topologies WITH Kind <- "torus3D", xDim <- 3, yDim <- 2, zDim <- 2,
                                    numLocalPorts <- 1, k <- 2, n <- 2

\* One NIC broadcasts.
OneBroadcast(nics) == {[e \in nics |-> IF e = a THEN <<Broadcast>> ELSE <<>>] : a \in nics}

\* One NIC broadcasts twice.
BroadcastTwice(nics) ==
  {[e \in nics |-> IF e = a THEN <<Broadcast, Broadcast>> ELSE <<>>] : a \in nics}

\* One NIC broadcasts, and another sends to it and then broadcasts itself.
TwoSenders(nics) ==
  {[e \in nics |-> CASE e = x[1] -> <<Broadcast>>
                     [] e = x[2] -> <<x[1], Broadcast>>
                     [] OTHER -> <<>>] : x \in {y \in nics \X nics : y[1] # y[2]}}

\* One NIC broadcasts, and a second one, of either of the first two domains, may.
OneOrTwoBroadcasts(nics) ==
  {[e \in nics |-> IF e \in {x[1], x[2]} THEN <<Broadcast>> ELSE <<>>] :
     x \in nics \X {<<0>>, <<4>>}}

-----------------------------------------------------------------------------
Networks == [mesh |-> Mesh3x2!Net, torus |-> Torus4x3!Net, torus3D |-> Torus3x2x2!Net,
             triangle |-> Triangle!Net, chain |-> Chain!Net]
Plans    == [mesh     |-> TwoSenders(Networks.mesh.Nic),
             torus    |-> OneBroadcast(Networks.torus.Nic),
             torus3D  |-> OneBroadcast(Networks.torus3D.Nic),
             triangle |-> OneOrTwoBroadcasts(Networks.triangle.Nic),
             chain    |-> OneOrTwoBroadcasts(Networks.chain.Nic)]

OnlyLongTriangle == [longTriangle |-> LongTriangle!Net]
OnlyOnce         == [longTriangle |-> OneBroadcast(OnlyLongTriangle.longTriangle.Nic)]

OnlyChain        == [chain |-> Networks.chain]
OnlyTwice        == [chain |-> BroadcastTwice(Networks.chain.Nic)]

\* What a cfg gives to a constant TLC evaluates at every use, but the definitions
\* it refers to only once.
MCNetwork             == Networks
MCPlan                == Plans
MCLongTriangleNetwork == OnlyLongTriangle
MCLongTrianglePlan    == OnlyOnce
MCTwiceNetwork        == OnlyChain
MCTwicePlan           == OnlyTwice
=============================================================================
