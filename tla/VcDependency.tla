---------------------------- MODULE VcDependency ----------------------------
(***************************************************************************)
(* Who may wait for whom.  A packet holds the virtual channel it was given *)
(* on a link until its TAIL has left it, and meanwhile waits for one on    *)
(* its next link, and then for the crossbar, which connects two ports for  *)
(* a whole packet.  A step goes from the channel held to one that is held  *)
(* by a packet waited for: a chain of packets each waiting for the next.   *)
(***************************************************************************)
EXTENDS VcPolicy

VARIABLES
  first,   \* where the chain began
  held     \* the channel held by the last packet of the chain

vars == <<first, held>>

RouterLink == {p \in Port : Peer[p] \in Port}

\* A channel is an output VC of a port that leads to another router.  A packet
\* enters the network on VC 0, so any VC that may follow VC 0 may be held.
Channel == {c \in RouterLink \X VC : c[2] \in DestVcs(c[1], 0)}

\* The ports to other routers that packets leaving by port p take at the next one.
NextLinks(p) ==
  {q \in {Route[RouterOf[Peer[p]]][d] : d \in {n \in Nic : Route[RouterOf[p]][n] = p}} :
     Peer[q] \in Port}

\* The channel is to be given to the packet, and another one has it.
WaitForVc ==
  /\ \E q \in NextLinks(held[1]) : \E vc \in DestVcs(q, held[2]) : held' = <<q, vc>>
  /\ UNCHANGED first

\* The output port is connected to another packet, or the input port is: whatever
\* their virtual channels, it is a packet to some next link.
WaitForConnection ==
  /\ \E q \in NextLinks(held[1]) : \E vc \in DestVcs(q, 0) : held' = <<q, vc>>
  /\ UNCHANGED first

Init == first \in Channel /\ held = first

\* Waiting for channels only.
VcSpec == Init /\ [][WaitForVc]_vars

Next == WaitForVc \/ WaitForConnection

Spec == Init /\ [][Next]_vars

\* No packet ever waits, through others, for a channel it holds itself: under VcSpec,
\* the dependency graph of the virtual channels "is acyclic (a DAG)"; under Spec, no
\* set of packets can stop one another.
AcyclicDependencies == [][held' # first]_vars
=============================================================================
