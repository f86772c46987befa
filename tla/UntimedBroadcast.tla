-------------------------- MODULE UntimedBroadcast --------------------------
(***************************************************************************)
(* Untimed data: what endpoints send to each other, to one or to all,      *)
(* before the clocks start (MordredRouter::init from phase 4 on, and in    *)
(* the same way MordredRouter::complete).  What is sent in one phase is    *)
(* received in the next, and there is no flow control.                     *)
(***************************************************************************)
EXTENDS Integers, Sequences

CONSTANTS
  Network,        \* Network[w]: the tables of network w:
                  \*   Port, Nic      connected router ports, and NICs
                  \*   RouterOf, Peer as in NocParams
                  \*   Route[r][n]    the port for a packet to NIC n at router r
                  \*   Flood[p]       the ports a broadcast received at p leaves by
                  \*   GatewayPort    ports to another domain (GatewayTopology)
                  \*   DomainOf[r]    the domain of a router
  Broadcast,      \* INIT_BROADCAST_ADDR
  Plan            \* Plan[w]: what NICs may send in network w, each a function
                  \* from NICs to sequences of destinations

\* The tables fit together.
WellFormed(net) ==
  LET Rtr == {net.RouterOf[p] : p \in net.Port}
  IN  /\ net.Port \cap net.Nic = {} /\ Broadcast \notin net.Nic
      /\ net.Peer \in [net.Port \cup net.Nic -> net.Port \cup net.Nic]
      /\ \A e \in net.Port \cup net.Nic : net.Peer[net.Peer[e]] = e
      /\ \A n \in net.Nic : net.Peer[n] \in net.Port
      /\ net.Route \in [Rtr -> [net.Nic -> net.Port]]
      /\ \A r \in Rtr, n \in net.Nic :
           net.Peer[net.Route[r][n]] \in net.Nic => net.Peer[net.Route[r][n]] = n
      /\ net.Flood \in [net.Port -> SUBSET net.Port]
      /\ net.GatewayPort \subseteq net.Port

ASSUME TablesAssumption ==
  \A w \in DOMAIN Network :
    /\ WellFormed(Network[w])
    /\ \A x \in Plan[w] : x \in [Network[w].Nic -> Seq(Network[w].Nic \cup {Broadcast})]

VARIABLES
  network,                 \* the network
  plan, numSent,           \* the destinations of each NIC, and how many are done
  arriving,                \* arriving[p]: to be received at port p in this phase
  departing,               \* departing[e]: sent to port or NIC e in this phase
  initEvents,              \* initEvents[n]: received by NIC n
  sSeenBroadcastOrigins    \* per domain, origins of broadcasts from outside

vars == <<network, plan, numSent, arriving, departing, initEvents, sSeenBroadcastOrigins>>

\* The tables of the network: who is connected to whom, and what routes to whom.
wired == Network[network]

Init ==
  /\ network \in DOMAIN Network
  /\ plan \in Plan[network]
  /\ numSent = [n \in wired.Nic |-> 0]
  /\ arriving = [p \in wired.Port |-> <<>>]
  /\ departing = [e \in wired.Port \cup wired.Nic |-> <<>>]
  /\ initEvents = [n \in wired.Nic |-> <<>>]
  /\ sSeenBroadcastOrigins = [d \in {wired.DomainOf[wired.RouterOf[p]] : p \in wired.Port} |-> {}]

\* The i-th message of NIC n.
Message(n, i) == [src |-> n, dest |-> plan[n][i], num |-> i]

SendUntimedData(n) ==
  /\ numSent[n] < Len(plan[n])
  /\ numSent' = [numSent EXCEPT ![n] = @ + 1]
  /\ departing' = [departing EXCEPT ![wired.Peer[n]] = Append(@, Message(n, numSent[n] + 1))]
  /\ UNCHANGED <<network, plan, arriving, initEvents, sSeenBroadcastOrigins>>

\* What the dedup records of a broadcast.
origin(m) == m.src

\* Faulty: every hop is checked, not only the entry into the domain.
SeenAtAnyHop(p, m) == origin(m) \in sSeenBroadcastOrigins[wired.DomainOf[wired.RouterOf[p]]]

\* Faulty: the dedup is forgotten.
NeverSeen(p, m) == FALSE

\* A broadcast that enters a domain from another for the second time.
Duplicate(p, m) ==
  p \in wired.GatewayPort /\ origin(m) \in sSeenBroadcastOrigins[wired.DomainOf[wired.RouterOf[p]]]

OutPorts(p, m) ==
  IF m.dest # Broadcast THEN {wired.Route[wired.RouterOf[p]][m.dest]}
  ELSE IF Duplicate(p, m) THEN {}
  ELSE wired.Flood[p]

\* One message of one port: the loop over them runs in every phase.
Relay(p) ==
  /\ arriving[p] # <<>>
  /\ LET m   == Head(arriving[p])
         out == {wired.Peer[q] : q \in OutPorts(p, m)}
     IN  /\ departing' = [e \in wired.Port \cup wired.Nic |->
                            IF e \in out THEN Append(departing[e], m) ELSE departing[e]]
         /\ sSeenBroadcastOrigins' =
              IF p \in wired.GatewayPort /\ m.dest = Broadcast
              THEN [sSeenBroadcastOrigins EXCEPT ![wired.DomainOf[wired.RouterOf[p]]] = @ \cup {origin(m)}]
              ELSE sSeenBroadcastOrigins
  /\ arriving' = [arriving EXCEPT ![p] = Tail(@)]
  /\ UNCHANGED <<network, plan, numSent, initEvents>>

\* All init() calls of a phase are done, and something was sent.  NICs take all
\* that has arrived for them in the next phase.
NextPhase ==
  /\ \A p \in wired.Port : arriving[p] = <<>>
  /\ \E e \in wired.Port \cup wired.Nic : departing[e] # <<>>
  /\ arriving' = [p \in wired.Port |-> departing[p]]
  /\ departing' = [e \in wired.Port \cup wired.Nic |-> <<>>]
  /\ initEvents' = [n \in wired.Nic |-> initEvents[n] \o departing[n]]
  /\ UNCHANGED <<network, plan, numSent, sSeenBroadcastOrigins>>

Next ==
  \/ \E n \in wired.Nic : SendUntimedData(n)
  \/ \E p \in wired.Port : Relay(p)
  \/ NextPhase

Spec == Init /\ [][Next]_vars

\* The simulation runs init phases as long as anything is sent in one.
FairSpec == Spec /\ WF_vars(Next)

-----------------------------------------------------------------------------
MessageNums(n) == 1 .. Len(plan[n])

Recipients(n, i) ==
  IF plan[n][i] = Broadcast THEN wired.Nic \ {n} ELSE {plan[n][i]}

Copies(e, m) == {j \in 1 .. Len(initEvents[e]) : initEvents[e][j] = m}

\* Nobody hears a message twice, nor one that is not for it, a broadcast of its
\* own included: the flood reaches no router by two ways and the dedup keeps a
\* cycle of domains from flooding a domain again.
HeardAtMostOnce ==
  \A n, e \in wired.Nic : \A i \in MessageNums(n) :
    \A j, l \in Copies(e, Message(n, i)) : e \in Recipients(n, i) /\ j = l

\* Every message reaches everyone it is for: a broadcast reaches "every domain
\* reachable via some path of directly-linked gateways".
EveryoneHears ==
  <>[] \A n \in wired.Nic : \A i \in MessageNums(n) :
         \A e \in Recipients(n, i) : Copies(e, Message(n, i)) # {}
=============================================================================
