----------------------------- MODULE MordredNoc -----------------------------
(***************************************************************************)
(* The network: the routers' ports, their crossbars and allocators, the    *)
(* NICs and the links between them, each running on a clock of its own.    *)
(***************************************************************************)
EXTENDS MordredRouter, MordredNicBase

\* routePacket answers a local port only for the endpoint behind that port.
ASSUME LastHopAssumption ==
  \A r \in Router, d \in Nic : Peer[Route[r][d]] \in Nic => Peer[Route[r][d]] = d

vars == <<linkVars, portVars, nicVars>>

TypeOK == LinkTypeOK /\ PortTypeOK /\ NicTypeOK

Init == LinkInit /\ PortInit /\ NicInit

-----------------------------------------------------------------------------
(* Link events: processIncomingEvent at the far end of the link.           *)

DeliverFlit(u) ==
  /\ wire[u] # <<>>
  /\ wire' = [wire EXCEPT ![u] = Tail(@)]
  /\ UNCHANGED creditWire
  /\ \/ /\ Peer[u[1]] \in Port
        /\ PortReceiveFlit(Far(u), Head(wire[u]))
        /\ UNCHANGED nicVars
     \/ /\ Peer[u[1]] \in Nic
        /\ NicReceiveFlit(<<Peer[u[1]], u[2]>>, Head(wire[u]))
        /\ UNCHANGED portVars

\* Any part of the credits in flight may be delivered first: they were sent in
\* several messages.
DeliverCredit(u) ==
  \E credits \in 1 .. creditWire[u] :
    /\ creditWire' = [creditWire EXCEPT ![u] = @ - credits]
    /\ UNCHANGED wire
    /\ \/ /\ Peer[u[1]] \in Port
          /\ PortReceiveCredit(Far(u), credits)
          /\ UNCHANGED nicVars
       \/ /\ Peer[u[1]] \in Nic
          /\ NicReceiveCredit(<<Peer[u[1]], u[2]>>, credits)
          /\ UNCHANGED portVars

-----------------------------------------------------------------------------
RouterStep ==
  /\ \/ \E p \in Port : CrossbarTransfer(p)
     \/ \E in \in PortUnit : SwitchGrant(in)
     \/ \E in \in PortUnit, vc \in VC : VcGrant(in, vc)
  /\ UNCHANGED <<linkVars, nicVars>>

PortStep == \E p \in Port : ClockTick(p) /\ UNCHANGED nicVars

NicStep ==
  /\ \/ \E k \in Packet : Send(k)
     \/ \E n \in Nic : NicClockTick(n)
  /\ UNCHANGED portVars

LinkStep == \E u \in Unit : DeliverFlit(u) \/ DeliverCredit(u)

Next == RouterStep \/ PortStep \/ NicStep \/ LinkStep

Spec == Init /\ [][Next]_vars

\* Clocks keep ticking and links keep delivering; a tick runs every loop of its
\* handler, so no part of it is put off forever.
Fairness == WF_vars(RouterStep) /\ WF_vars(PortStep) /\ WF_vars(NicStep) /\ WF_vars(LinkStep)

FairSpec == Spec /\ Fairness

-----------------------------------------------------------------------------
(* Credits and buffers.                                                    *)

\* Credits unit u holds for sending on its stream.
HeldCredits(u) ==
  IF u[1] \in Port THEN destCredits[u]
  ELSE IF u[3] = 0 THEN rtrCredits[<<u[1], u[2]>>] ELSE 0

\* Space unit u occupies or has freed but not yet reported.
UsedSpace(u) ==
  IF u[1] \in Port THEN Len(inBuf[u]) + retCredits[u]
  ELSE IF u[3] = 0 THEN inReturnCredits[<<u[1], u[2]>>] ELSE 0

\* No credit is ever lost, duplicated or sent to the wrong stream: whatever the
\* ports and NICs at the two ends of a link do in whatever order, the credits
\* granted at initialisation are always in the sender's hands, used by a flit
\* on the wire, used or freed at the receiver, or on their way back.
CreditConservation ==
  \A u \in Unit :
    HeldCredits(u) + Len(wire[u]) + UsedSpace(Far(u)) + creditWire[Far(u)] = LinkCredits(u)

\* The queues of perVcInState and perVcOutState "are not size limited"; credits
\* alone keep every one of them, and the output queues of the NICs, within the
\* configured buffer size.
BuffersBounded ==
  /\ \A u \in PortUnit : Len(inBuf[u]) <= InCap[u[1]] /\ Len(outBuf[u]) <= OutCap[u[1]]
  /\ \A x \in NicVn : Len(nicOutBuf[x]) <= OutCap[x[1]]

\* The free-space counters of the output buffers, which gate the crossbar and
\* send(), are exact.
OutputSpaceExact ==
  /\ \A u \in PortUnit : outBufCredits[u] + Len(outBuf[u]) = OutCap[u[1]]
  /\ \A x \in NicVn : outbufCredits[x] + Len(nicOutBuf[x]) = OutCap[x[1]]

-----------------------------------------------------------------------------
(* Allocation.                                                             *)

\* The output unit the packet at input unit in was given.
Granted(in) == <<outPort[in], in[2], outVc[in]>>

\* An output VC belongs to one packet at a time: an OUT_BUSY unit and the input
\* unit it serves name each other, and nothing names an OUT_IDLE unit.
VcOwnership ==
  /\ \A out \in PortUnit : outVcState[out] = "OUT_IDLE" <=> outSrc[out] = None
  /\ \A out \in PortUnit : outSrc[out] # None =>
       outVc[outSrc[out]] # None /\ Granted(outSrc[out]) = out
  /\ \A in \in PortUnit : outVc[in] # None =>
       Granted(in) \in PortUnit /\ outSrc[Granted(in)] = in

\* The two port records of a crossbar connection agree, so that the crossbar is
\* a matching of inputs and outputs that joins an input VC to its own output VC.
CrossbarMatching ==
  /\ \A p \in Port : (rcvFrom[p] = None) <=> (rcvTo[p] = None)
  /\ \A q \in Port : (sendTo[q] = None) <=> (sendFrom[q] = None)
  /\ \A p \in Port : rcvFrom[p] # None => sendTo[rcvFrom[p]] = p
  /\ \A q \in Port : sendTo[q] # None =>
       /\ rcvFrom[sendTo[q]] = q
       /\ sendFrom[q] \in UnitsOf(q)
       /\ outPort[sendFrom[q]] = sendTo[q]
       /\ rcvTo[sendTo[q]] = Granted(sendFrom[q])

\* A request for an output VC or for the crossbar is pending exactly while the
\* packet is in the stage that waits for it: none is lost and none is stale.
RequestsCurrent ==
  \A in \in PortUnit :
    /\ in \in needVcAlloc <=> inVcState[in] = "WAIT_VC" /\ outVc[in] = None
    /\ inVcState[in] = "IN_ACTIVE" <=> in \in needSwitchAlloc \/ sendFrom[in[1]] = in
    /\ ~(in \in needSwitchAlloc /\ sendFrom[in[1]] = in)
    /\ outVc[in] # None => inVcState[in] \in {"WAIT_VC", "IN_ACTIVE"}
    /\ inVcState[in] = "IN_ACTIVE" => outVc[in] # None
    /\ (outPort[in] = None) <=> inVcState[in] = "IN_IDLE"

\* None of the calls to output->fatal in ClockTick, sendAllocateToSwitch,
\* recvAllocateFromSwitch and recv() is ever reached, nor is front() ever
\* called on an empty queue.
NoFatal ==
  /\ \A u \in PortUnit :
       /\ inVcState[u] = "IN_IDLE" /\ inBuf[u] # <<>> => IsHead(Head(inBuf[u]))
       /\ inVcState[u] = "IN_IDLE" => u \notin needVcAlloc
       /\ inVcState[u] \in {"ROUTING", "WAIT_VC"} => inBuf[u] # <<>>
  /\ \A in \in needSwitchAlloc : outSrc[Granted(in)] \in UnitsOf(in[1])
  /\ \A x \in NicVn : \A i \in 1 .. Len(nicInBuf[x]) : Dest[nicInBuf[x][i]] = x[1]

-----------------------------------------------------------------------------
(* Packets.                                                                *)

\* The flits on the stream of u, oldest first: at the receiver, on the wire, at
\* the sender.
Stream(u) ==
  (IF Peer[u[1]] \in Port THEN inBuf[Far(u)] ELSE <<>>)
    \o wire[u]
    \o (IF u[1] \in Port THEN outBuf[u]
        ELSE IF u[3] = 0 THEN nicOutBuf[<<u[1], u[2]>>] ELSE <<>>)

Follows(f, g) ==
  IF IsTail(f) THEN IsHead(g) ELSE g.pkt = f.pkt /\ g.id = f.id + 1

\* Wormhole switching never mixes packets on a virtual channel: each flit on a
\* stream is the successor of the one before it, or a HEAD after a TAIL.
NoInterleaving ==
  \A u \in Unit : \A i \in 1 .. Len(Stream(u)) - 1 : Follows(Stream(u)[i], Stream(u)[i + 1])

\* Where flit f is, and where the request of packet k was handed over.
Places(f) ==
  UNION {{<<u, i>> : i \in {j \in 1 .. Len(Stream(u)) : Stream(u)[j] = f}} : u \in Unit}

Arrivals(k) ==
  UNION {{<<x, i>> : i \in {j \in 1 .. Len(nicInBuf[x]) : nicInBuf[x][j] = k}} : x \in NicVn}

\* No flit is lost, duplicated or overtaken by a later flit of its packet: the
\* flits of a packet still in the network are its last ones, each in one place,
\* and its request has been handed over exactly once iff none is left.
PacketsIntact ==
  \A k \in Packet :
    IF WasSent(k)
    THEN \E gone \in 0 .. NumFlits[k] :
           /\ \A i \in 0 .. NumFlits[k] - 1 :
                Cardinality(Places([pkt |-> k, id |-> i])) = (IF i < gone THEN 0 ELSE 1)
           /\ Cardinality(Arrivals(k)) = (IF gone = NumFlits[k] THEN 1 ELSE 0)
    ELSE Arrivals(k) = {} /\ \A i \in 0 .. NumFlits[k] - 1 : Places([pkt |-> k, id |-> i]) = {}

\* What the endpoints see of the network.
Service == INSTANCE PacketService WITH InOrder <- NumVcs = 1, arrived <- nicInBuf

\* Between send() and recv() the network is a service that hands over every packet at
\* most once, where it belongs, and in the order of its flow if there is one virtual
\* channel per virtual network.
ServiceImplemented == Service!Spec

\* With one virtual channel per virtual network, packets from one NIC to another
\* arrive in the order they were sent.
FlowOrder == Service!FlowsInOrder

-----------------------------------------------------------------------------
(* Progress.                                                               *)

Delivered(k) == Arrivals(k) # {}

\* Every packet is accepted and arrives.
EventuallyDelivered == \A k \in Packet : <>Delivered(k)
=============================================================================
