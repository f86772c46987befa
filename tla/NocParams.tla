------------------------------ MODULE NocParams ------------------------------
(***************************************************************************)
(* What is fixed while a Mordred network runs: which router ports and      *)
(* network interfaces (NICs) exist, how links join them, what the topology *)
(* answers, how large the buffers are, and the packets the endpoints hand  *)
(* to their NICs.  Every other module of the network extends this one.     *)
(***************************************************************************)
EXTENDS Integers, Sequences, FiniteSets

CONSTANTS
  Router,     \* routers
  Port,       \* connected router ports: the non-null entries of every portsVec
  Nic,        \* NICs, identified with the netID of their endpoint
  RouterOf,   \* RouterOf[p]: the router port p belongs to
  Peer,       \* Peer[e]: the link end (port or NIC) at the other side of e
  Route,      \* Route[r][d]: the port topo->routePacket(d) answers at router r
  WrapPort,   \* ports for which topo->isWrapAroundOutput holds
  NumVns,     \* virtual networks
  NumVcs,     \* virtual channels per virtual network
  InCap,      \* InCap[e]:  input_buf_size / flit size at e, in flits
  OutCap,     \* OutCap[e]: output_buf_size / flit size at e, in flits
  Packet,     \* the requests endpoints send
  Src, Dest,  \* their source and destination NIC
  PktVn,      \* their virtual network
  NumFlits,   \* calcNumFlits(size_in_bits)
  None        \* UINT32_MAX, nullptr: no port, no VC, no unit

End == Port \cup Nic
VN  == 0 .. NumVns - 1
VC  == 0 .. NumVcs - 1

\* One (VN, VC) pair at one link end.  A port keeps input and output state for
\* each, and a link carries one independent stream of flits for each.
Unit     == End \X VN \X VC
PortUnit == Port \X VN \X VC
UnitsOf(e) == {u \in Unit : u[1] = e}

\* The same (VN, VC) pair at the other end of the link.
Far(u) == <<Peer[u[1]], u[2], u[3]>>

Flit == {f \in [pkt : Packet, id : Nat] : f.id < NumFlits[f.pkt]}

\* ftype: send() makes flit 0 the HEAD and the last one the TAIL.
IsHead(f) == f.id = 0
IsTail(f) == f.id = NumFlits[f.pkt] - 1

\* The flits of packet k, in the order send() pushes them.
FlitsOf(k) == [i \in 1 .. NumFlits[k] |-> [pkt |-> k, id |-> i - 1]]

ASSUME LinkAssumption ==
  /\ Port \cap Nic = {}
  /\ Peer \in [End -> End]
  /\ \A e \in End : Peer[e] # e /\ Peer[Peer[e]] = e
  /\ \A n \in Nic : Peer[n] \in Port

ASSUME TopologyAssumption ==
  /\ RouterOf \in [Port -> Router]
  /\ Route \in [Router -> [Nic -> Port]]
  /\ \A r \in Router, d \in Nic : RouterOf[Route[r][d]] = r
  /\ WrapPort \subseteq Port

ASSUME SizeAssumption ==
  /\ NumVns \in Nat \ {0}
  /\ NumVcs \in Nat \ {0}
  /\ InCap \in [End -> Nat]
  /\ OutCap \in [End -> Nat]

ASSUME PacketAssumption ==
  /\ Src \in [Packet -> Nic]
  /\ Dest \in [Packet -> Nic]
  /\ PktVn \in [Packet -> VN]
  /\ NumFlits \in [Packet -> Nat \ {0, 1}]

ASSUME NoneAssumption == None \notin Unit \cup Port \cup VC

\* Credits the far end of u grants for the stream u sends on during init()
\* phase 3: routers grant every VC of each other, but only VC 0 to or from a NIC.
LinkCredits(u) ==
  IF u[3] = 0 \/ (u[1] \in Port /\ Peer[u[1]] \in Port) THEN InCap[Peer[u[1]]] ELSE 0
=============================================================================
