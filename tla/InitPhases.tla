----------------------------- MODULE InitPhases -----------------------------
(***************************************************************************)
(* How a network starts: init() of ports, NICs and routers, which the      *)
(* simulation calls phase by phase, and complete(), which it calls in the  *)
(* same way at the end of a run.  What is sent in one phase can be read    *)
(* from the next phase on.  In the first phases the two ends of a link     *)
(* tell each other what they are, the routers tell the NICs their numbers  *)
(* and widths, and everyone grants credits; from then on the routers relay *)
(* the untimed data of the endpoints.                                      *)
(***************************************************************************)
EXTENDS NocParams

CONSTANTS
  Broadcast,   \* INIT_BROADCAST_ADDR
  Flood,       \* Flood[p]: the ports a broadcast received at p leaves by
  Plan         \* what the NICs may be asked to send, each a function from NICs to
               \* sequences of destinations

\* There are endpoints.  (In a network without any, nothing would be sent in phase 1
\* and init() would end there.)
ASSUME EndpointAssumption == Nic # {}

ASSUME UntimedAssumption ==
  /\ Flood \in [Port -> SUBSET Port]
  /\ \A x \in Plan : x \in [Nic -> Seq(Nic \cup {Broadcast})]

\* UINT32_MAX is no router's id, nor the mark of an endpoint (UINT32_MAX - 1).
ASSUME RouterIdAssumption == None \notin Router /\ None # "ENDPOINT"

VARIABLES
  stage,                \* "init" or "complete"
  phase,                \* the phase; 4 stands for all from 4 on
  called,               \* ports and NICs whose turn in this phase has been
  arrived, departing,   \* arrived[e]: what end e may read; departing[e]: what was
                        \* sent to it in this phase
  \* of a port
  connectionType, connectedRtrId, connectedPortId, destCredits, portEvents,
  perPortConnectedRtr,
  \* of a NIC
  rtrId, rtrPort, numVns, netID, rtrCredits, nicEvents,
  \* of the endpoints
  plan, numSent

linkVars == <<arrived, departing>>
portVars == <<connectionType, connectedRtrId, connectedPortId, destCredits, portEvents,
              perPortConnectedRtr>>
nicVars  == <<rtrId, rtrPort, numVns, netID, rtrCredits, nicEvents>>
epVars   == <<plan, numSent>>
vars     == <<stage, phase, called, linkVars, portVars, nicVars, epVars>>

NicVn == Nic \X VN

Init ==
  /\ stage = "init" /\ phase = 0 /\ called = {}
  /\ arrived = [e \in End |-> <<>>]
  /\ departing = [e \in End |-> <<>>]
  /\ connectionType = [p \in Port |-> "UNKNOWN"]
  /\ connectedRtrId = [p \in Port |-> None]
  /\ connectedPortId = [p \in Port |-> None]
  /\ perPortConnectedRtr = [p \in Port |-> None]
  /\ destCredits = [u \in PortUnit |-> 0]
  /\ portEvents = [p \in Port |-> <<>>]
  /\ rtrId = [n \in Nic |-> None]
  /\ rtrPort = [n \in Nic |-> None]
  /\ numVns = [n \in Nic |-> 0]
  /\ netID = [n \in Nic |-> None]
  /\ rtrCredits = [x \in NicVn |-> 0]
  /\ nicEvents = [n \in Nic |-> <<>>]
  /\ plan \in Plan
  /\ numSent = [n \in Nic |-> 0]

-----------------------------------------------------------------------------
(* Messages, and what a call of init() expects to find of them.            *)

Tell(command, value)    == [type |-> command, value |-> value]
Credit(vn, vc, credits) == [type |-> "CREDIT", vn |-> vn, vc |-> vc, credits |-> credits]

\* The i-th message of the endpoint at NIC n.
UntimedPacket(n, i) == [type |-> "PACKET", src |-> n, dest |-> plan[n][i], num |-> i]

Send(e, messages) == departing' = [departing EXCEPT ![Peer[e]] = @ \o messages]

\* The first messages for e have these commands; they are taken off the queue.
Finds(e, commands) ==
  /\ Len(commands) <= Len(arrived[e])
  /\ \A i \in DOMAIN commands : arrived[e][i].type = commands[i]

Takes(e, commands) ==
  arrived' = [arrived EXCEPT ![e] = SubSeq(@, Len(commands) + 1, Len(@))]

Told(e, i) == arrived[e][i].value

FromRouter   == <<"REPORT_ROUTER", "ROUTER_ID", "PORT_NUM">>
FromEndpoint == <<"REPORT_ENDPOINT">>
Widths       == <<"NUM_VNS", "NUM_VCS", "FLIT_WIDTH">>
Identity     == <<"ENDPOINT_ID">>

\* A call of init() or complete() in which all that has arrived is read.
Draining == stage = "complete" \/ phase = 4

\* The packets in a queue of messages, in their order.
Packets(queue) ==
  LET found[i \in 0 .. Len(queue)] ==
        IF i = 0 THEN <<>>
        ELSE IF queue[i].type = "PACKET" THEN Append(found[i - 1], queue[i])
        ELSE found[i - 1]
  IN  found[Len(queue)]

\* What a message grants a sender on vn that looks at the VCs vcs.
Worth(m, vn, vcs) ==
  IF m.type = "CREDIT" /\ m.vn = vn /\ m.vc \in vcs THEN m.credits ELSE 0

\* ... and what a queue of messages does.
CreditsIn(queue, vn, vcs) ==
  LET sum[i \in 0 .. Len(queue)] ==
        IF i = 0 THEN 0 ELSE sum[i - 1] + Worth(queue[i], vn, vcs)
  IN  sum[Len(queue)]

Granted(u) == CreditsIn(arrived[u[1]], u[2], {u[3]})

\* A NIC does not look at the VC.
GrantedToNic(x) == CreditsIn(arrived[x[1]], x[2], VC)

-----------------------------------------------------------------------------
(* RtrPortControlBase::init and ::complete.                                *)

\* One credit message for each stream that the other side may send on.
Grants(vcs, credits) ==
  [i \in 1 .. NumVns * vcs |-> Credit((i - 1) \div vcs, (i - 1) % vcs, credits)]

\* Faulty: the port number is sent before the router's.
PortReportsPortFirst(p) ==
  /\ phase = 0
  /\ Send(p, <<Tell("REPORT_ROUTER", None), Tell("PORT_NUM", p), Tell("ROUTER_ID", RouterOf[p])>>)
  /\ UNCHANGED <<arrived, portVars>>

PortReports(p) ==
  /\ phase = 0
  /\ Send(p, <<Tell("REPORT_ROUTER", None), Tell("ROUTER_ID", RouterOf[p]), Tell("PORT_NUM", p)>>)
  /\ UNCHANGED <<arrived, portVars>>

PortMeetsRouter(p) ==
  /\ phase = 1
  /\ Finds(p, FromRouter)
  /\ connectionType' = [connectionType EXCEPT ![p] = "ROUTER"]
  /\ connectedRtrId' = [connectedRtrId EXCEPT ![p] = Told(p, 2)]
  /\ connectedPortId' = [connectedPortId EXCEPT ![p] = Told(p, 3)]
  /\ Takes(p, FromRouter)
  /\ UNCHANGED <<departing, destCredits, portEvents, perPortConnectedRtr>>

\* Faulty: the port keeps UINT32_MAX, as if nobody were at the other end.
PortMeetsEndpointUnmarked(p) ==
  /\ phase = 1
  /\ Finds(p, FromEndpoint)
  /\ connectionType' = [connectionType EXCEPT ![p] = "ENDPOINT"]
  /\ Takes(p, FromEndpoint)
  /\ Send(p, <<Tell("NUM_VNS", NumVns), Tell("NUM_VCS", NumVcs), Tell("FLIT_WIDTH", None)>>)
  /\ UNCHANGED <<connectedRtrId, connectedPortId, destCredits, portEvents, perPortConnectedRtr>>

PortMeetsEndpoint(p) ==
  /\ phase = 1
  /\ Finds(p, FromEndpoint)
  /\ connectionType' = [connectionType EXCEPT ![p] = "ENDPOINT"]
  /\ connectedRtrId' = [connectedRtrId EXCEPT ![p] = "ENDPOINT"]   \* UINT32_MAX - 1
  /\ Takes(p, FromEndpoint)
  /\ Send(p, <<Tell("NUM_VNS", NumVns), Tell("NUM_VCS", NumVcs), Tell("FLIT_WIDTH", None)>>)
  /\ UNCHANGED <<connectedPortId, destCredits, portEvents, perPortConnectedRtr>>

\* Faulty: the vector is filled before the ports have met their neighbours.
PortNamesStale(p) ==
  /\ phase = 2
  /\ IF connectionType[p] = "ENDPOINT" THEN Send(p, <<Tell("ENDPOINT_ID", Peer[p])>>)
     ELSE UNCHANGED departing
  /\ UNCHANGED <<arrived, portVars>>

\* MordredRouter::init has told the topology before what the port is connected to.
PortNames(p) ==
  /\ phase = 2
  /\ perPortConnectedRtr' = [perPortConnectedRtr EXCEPT ![p] = connectedRtrId[p]]
  /\ IF connectionType[p] = "ENDPOINT" THEN Send(p, <<Tell("ENDPOINT_ID", Peer[p])>>)
     ELSE UNCHANGED departing
  /\ UNCHANGED <<arrived, connectionType, connectedRtrId, connectedPortId, destCredits, portEvents>>

\* Faulty: an endpoint is granted the credits of every VC.
PortGrantsAllVcs(p) ==
  /\ phase = 3
  /\ Send(p, Grants(NumVcs, InCap[p]))
  /\ UNCHANGED <<arrived, portVars>>

PortGrants(p) ==
  /\ phase = 3
  /\ Send(p, Grants(IF connectionType[p] = "ROUTER" THEN NumVcs ELSE 1, InCap[p]))
  /\ UNCHANGED <<arrived, portVars>>

\* Faulty: a packet ends the loop, and what is behind it is thrown away.
PortDrainsToPacket(p) ==
  /\ Draining
  /\ destCredits' = [u \in PortUnit |-> destCredits[u] + (IF u[1] = p THEN Granted(u) ELSE 0)]
  /\ LET packets == Packets(arrived[p])
     IN  portEvents' = [portEvents EXCEPT ![p] = IF packets = <<>> THEN @ ELSE Append(@, packets[1])]
  /\ Takes(p, arrived[p])
  /\ UNCHANGED <<departing, connectionType, connectedRtrId, connectedPortId, perPortConnectedRtr>>

PortDrains(p) ==
  /\ Draining
  /\ destCredits' = [u \in PortUnit |-> destCredits[u] + (IF u[1] = p THEN Granted(u) ELSE 0)]
  /\ portEvents' = [portEvents EXCEPT ![p] = @ \o Packets(arrived[p])]
  /\ Takes(p, arrived[p])
  /\ UNCHANGED <<departing, connectionType, connectedRtrId, connectedPortId, perPortConnectedRtr>>

PortInit(p) ==
  /\ p \notin called
  /\ called' = called \cup {p}
  /\ \/ ~Draining /\ ( \/ PortReports(p) \/ PortMeetsRouter(p) \/ PortMeetsEndpoint(p)
                       \/ PortNames(p) \/ PortGrants(p) )
     \/ PortDrains(p)
  /\ UNCHANGED <<stage, phase, nicVars, epVars>>

\* MordredRouter::init and ::complete: a message of a port that has been called.
OutPorts(p, m) ==
  IF m.dest = Broadcast THEN {q \in Flood[p] : perPortConnectedRtr[q] # None}
  ELSE {Route[RouterOf[p]][m.dest]}

Relay(p) ==
  /\ portEvents[p] # <<>>
  /\ LET m   == Head(portEvents[p])
         out == {Peer[q] : q \in OutPorts(p, m)}
     IN  departing' = [e \in End |-> IF e \in out THEN Append(departing[e], m) ELSE departing[e]]
  /\ portEvents' = [portEvents EXCEPT ![p] = Tail(@)]
  /\ UNCHANGED <<stage, phase, called, arrived, connectionType, connectedRtrId, connectedPortId,
                 destCredits, perPortConnectedRtr, nicVars, epVars>>

-----------------------------------------------------------------------------
(* MordredNicBase::init and ::complete.                                    *)

NicReports(n) ==
  /\ phase = 0
  /\ Send(n, <<Tell("REPORT_ENDPOINT", None)>>)
  /\ UNCHANGED <<arrived, nicVars>>

\* Faulty: the number of the port is taken off the queue and not kept.
NicForgetsPort(n) ==
  /\ phase = 1
  /\ Finds(n, FromRouter)
  /\ rtrId' = [rtrId EXCEPT ![n] = Told(n, 2)]
  /\ Takes(n, FromRouter)
  /\ UNCHANGED <<departing, rtrPort, numVns, netID, rtrCredits, nicEvents>>

NicMeetsRouter(n) ==
  /\ phase = 1
  /\ Finds(n, FromRouter)
  /\ rtrId' = [rtrId EXCEPT ![n] = Told(n, 2)]
  /\ rtrPort' = [rtrPort EXCEPT ![n] = Told(n, 3)]
  /\ Takes(n, FromRouter)
  /\ UNCHANGED <<departing, numVns, netID, rtrCredits, nicEvents>>

NicResizes(n) ==
  /\ phase = 2
  /\ Finds(n, Widths)
  /\ numVns' = [numVns EXCEPT ![n] = Told(n, 1)]
  /\ Takes(n, Widths)
  /\ UNCHANGED <<departing, rtrId, rtrPort, netID, rtrCredits, nicEvents>>

NicGrants(n) ==
  /\ phase = 3
  /\ Finds(n, Identity)
  /\ netID' = [netID EXCEPT ![n] = Told(n, 1)]
  /\ Takes(n, Identity)
  /\ Send(n, [vn \in 1 .. numVns[n] |-> Credit(vn - 1, 0, InCap[n])])
  /\ UNCHANGED <<rtrId, rtrPort, numVns, rtrCredits, nicEvents>>

NicDrains(n) ==
  /\ Draining
  /\ rtrCredits' = [x \in NicVn |-> rtrCredits[x] + (IF x[1] = n THEN GrantedToNic(x) ELSE 0)]
  /\ nicEvents' = [nicEvents EXCEPT ![n] = @ \o Packets(arrived[n])]
  /\ Takes(n, arrived[n])
  /\ UNCHANGED <<departing, rtrId, rtrPort, numVns, netID>>

NicInit(n) ==
  /\ n \notin called
  /\ called' = called \cup {n}
  /\ \/ ~Draining /\ (NicReports(n) \/ NicMeetsRouter(n) \/ NicResizes(n) \/ NicGrants(n))
     \/ NicDrains(n)
  /\ UNCHANGED <<stage, phase, portVars, epVars>>

\* The endpoint, from its own init() or complete(), once isNetworkInitialized().
SendUntimedData(n) ==
  /\ n \in called
  /\ netID[n] # None
  /\ numSent[n] < Len(plan[n])
  /\ numSent' = [numSent EXCEPT ![n] = @ + 1]
  /\ Send(n, <<UntimedPacket(n, numSent[n] + 1)>>)
  /\ UNCHANGED <<stage, phase, called, arrived, portVars, nicVars, plan>>

-----------------------------------------------------------------------------
\* Every component has been called.  After a phase in which nothing was sent the
\* simulation goes on to run, and from there to complete().
Quiet == \A e \in End : departing[e] = <<>>

NextPhase ==
  /\ called = End
  /\ \A p \in Port : portEvents[p] = <<>>
  /\ Quiet => stage = "init"
  /\ stage' = IF Quiet THEN "complete" ELSE stage
  /\ phase' = IF phase < 4 THEN phase + 1 ELSE 4
  /\ called' = {}
  /\ arrived' = [e \in End |-> arrived[e] \o departing[e]]
  /\ departing' = [e \in End |-> <<>>]
  /\ UNCHANGED <<portVars, nicVars, epVars>>

Next ==
  \/ \E p \in Port : PortInit(p) \/ Relay(p)
  \/ \E n \in Nic : NicInit(n) \/ SendUntimedData(n)
  \/ NextPhase

Spec == Init /\ [][Next]_vars

\* The simulation calls every component in every phase, and an endpoint says what
\* it has to say.
FairSpec == Spec /\ WF_vars(Next)
-----------------------------------------------------------------------------
CreditGrant == [type : {"CREDIT"}, vn : VN, vc : VC, credits : Nat]
UntimedData == [type : {"PACKET"}, src : Nic, dest : Nic \cup {Broadcast}, num : Nat]

\* What a message of each type looks like.
MessagesOf(type) ==
  CASE type = "ROUTER_ID"   -> [type : {type}, value : Router]
    [] type = "PORT_NUM"    -> [type : {type}, value : Port]
    [] type = "NUM_VNS"     -> [type : {type}, value : {NumVns}]
    [] type = "NUM_VCS"     -> [type : {type}, value : {NumVcs}]
    [] type = "ENDPOINT_ID" -> [type : {type}, value : Nic]
    [] type = "CREDIT"      -> CreditGrant
    [] type = "PACKET"      -> UntimedData
    [] type \in {"REPORT_ROUTER", "REPORT_ENDPOINT", "FLIT_WIDTH"} ->
                               [type : {type}, value : {None}]

WellFormed(queue) == \A i \in DOMAIN queue : queue[i] \in MessagesOf(queue[i].type)

\* What is on the way, and what the ends of a link take each other to be.
TypeOK ==
  /\ stage \in {"init", "complete"} /\ phase \in 0 .. 4 /\ called \in SUBSET End
  /\ DOMAIN arrived = End /\ DOMAIN departing = End
  /\ \A e \in End : WellFormed(arrived[e]) /\ WellFormed(departing[e])
  /\ connectionType \in [Port -> {"UNKNOWN", "ROUTER", "ENDPOINT"}]
  /\ connectedRtrId = [p \in Port |-> connectedRtrId[p]]
  /\ \A p \in Port : IF connectionType[p] = "ENDPOINT" THEN connectedRtrId[p] = "ENDPOINT"
                      ELSE connectedRtrId[p] \in Router \cup {None}
  /\ connectedPortId \in [Port -> Port \cup {None}]
  /\ perPortConnectedRtr = [p \in Port |-> perPortConnectedRtr[p]]
  /\ \A p \in Port : perPortConnectedRtr[p] \in {None, connectedRtrId[p]}
  /\ destCredits \in [PortUnit -> Nat]
  /\ portEvents \in [Port -> Seq(UntimedData)]
  /\ rtrId \in [Nic -> Router \cup {None}] /\ rtrPort \in [Nic -> Port \cup {None}]
  /\ numVns \in [Nic -> Nat] /\ netID \in [Nic -> Nic \cup {None}]
  /\ rtrCredits \in [NicVn -> Nat]
  /\ nicEvents \in [Nic -> Seq(UntimedData)]
  /\ plan \in Plan /\ numSent \in [Nic -> Nat]

\* Whoever reads in one of the first phases finds what it expects at the front of
\* its queue, or the simulation ends: "Unable to recv init event", "unexpected
\* command".
NeverFatal ==
  \A e \in End \ called :
    /\ phase = 1 => Finds(e, FromRouter) \/ (e \in Port /\ Finds(e, FromEndpoint))
    /\ phase = 2 /\ e \in Nic => Finds(e, Widths)
    /\ phase = 3 /\ e \in Nic => Finds(e, Identity)

\* Both ends of a link know each other, from what each told the other.
NeighboursKnown ==
  stage = "complete" =>
    /\ \A p \in Port :
         IF Peer[p] \in Port
         THEN connectedRtrId[p] = RouterOf[Peer[p]] /\ connectedPortId[p] = Peer[p]
         ELSE connectionType[p] = "ENDPOINT"
    /\ \A n \in Nic : rtrId[n] = RouterOf[Peer[n]] /\ rtrPort[n] = Peer[n] /\ netID[n] = n

\* The network is left in the state in which MordredNoc starts: every sender holds
\* the credits of its stream, all of them and once only, however the untimed data
\* of early endpoints came in between.
CreditsGranted ==
  stage = "complete" =>
    /\ \A u \in PortUnit : destCredits[u] = LinkCredits(u)
    /\ \A x \in NicVn : rtrCredits[x] = LinkCredits(<<x[1], x[2], 0>>)

-----------------------------------------------------------------------------
(* UntimedBroadcast is what all this does to the messages of the endpoints. *)

Messages(queue) ==
  LET packets == Packets(queue)
  IN  [i \in DOMAIN packets |-> [src |-> packets[i].src, dest |-> packets[i].dest,
                                 num |-> packets[i].num]]

Untimed == INSTANCE UntimedBroadcast WITH
  Network    <- [only |-> [Port |-> Port, Nic |-> Nic, RouterOf |-> RouterOf, Peer |-> Peer,
                           Route |-> Route, Flood |-> Flood, GatewayPort |-> {},
                           DomainOf |-> [r \in Router |-> "only"]]],
  Plan       <- [only |-> Plan],
  network    <- "only",
  arriving   <- [p \in Port |-> Messages(portEvents[p] \o arrived[p])],
  departing  <- [e \in End |-> Messages(departing[e])],
  initEvents <- [n \in Nic |-> Messages(nicEvents[n] \o arrived[n])],
  sSeenBroadcastOrigins <- [only |-> {}]

\* Every step of init() and complete() is a step of UntimedBroadcast or leaves the
\* messages of the endpoints where they are.
UntimedImplemented == Untimed!Spec

\* Messages sent as soon as isNetworkInitialized() lets them, or as late as in
\* complete(), reach everyone they are for.
EveryoneHears == Untimed!EveryoneHears
=============================================================================
