-------------------------- MODULE MordredNoc_packets --------------------------
(***************************************************************************)
(* What becomes of packets.                                                *)
(*                                                                         *)
(* Wormhole switching.  The flits that ever travelled a stream are a       *)
(* sequence of whole packets, except that the last of them may still be    *)
(* incomplete; the control state of the ports always agrees with how much  *)
(* of the packet at an input unit has passed.  What has passed is not part *)
(* of the state of the network, so the invariant says that there is such a *)
(* past: passed[u] is the flits that have left the stream of u at its      *)
(* receiving end, and Log(passed, u) all that were ever put on it.         *)
(*                                                                         *)
(* The network implements PacketService.  That a packet is handed over at  *)
(* most once and at its NIC follows from the invariants of its flits.  The *)
(* order of a flow, with one virtual channel per virtual network, needs    *)
(* one more: wherever a flit of a packet was put on a stream, the TAIL of  *)
(* each packet sent before it in its flow had been put there already.      *)
(***************************************************************************)
EXTENDS MordredNoc_proofs, SeqFacts, FiniteSetTheorems

-----------------------------------------------------------------------------
(***************************************************************************)
(* What each action of the network does to the streams of flits.  Wherever *)
(* a flit is queued, there are only four things a step can do: leave every *)
(* stream as it is, move the front flit of one stream to the end of        *)
(* another, drop the front flit of a stream that ends at a NIC, or add the *)
(* flits of a packet at the end of the stream of its source.               *)
(***************************************************************************)

\* The streams, and the two parts of one that are not on the wire.
Streams == [u \in Unit |-> Stream(u)]

Received(u) == IF Peer[u[1]] \in Port THEN inBuf[Far(u)] ELSE <<>>
Waiting(u) ==
  IF u[1] \in Port THEN outBuf[u]
  ELSE IF u[3] = 0 THEN nicOutBuf[<<u[1], u[2]>>] ELSE <<>>

TakeFront(T, u)  == [v \in Unit |-> IF v = u THEN Tail(T[v]) ELSE T[v]]
AddBack(T, u, f) == [v \in Unit |-> IF v = u THEN Append(T[v], f) ELSE T[v]]
AddAll(T, u, s)  == [v \in Unit |-> IF v = u THEN T[v] \o s ELSE T[v]]

LEMMA StreamParts ==
  ASSUME NEW u \in Unit
  PROVE  Streams[u] = (Received(u) \o wire[u]) \o Waiting(u)
BY DEF Streams, Stream, Received, Waiting

LEMMA StreamPartsNext ==
  ASSUME NEW u \in Unit
  PROVE  Streams'[u] = (Received(u)' \o wire'[u]) \o Waiting(u)'
BY DEF Streams, Stream, Received, Waiting

\* The far end of a unit whose peer is a port is an input unit, and the NIC half of
\* a link names an output queue.
LEMMA PartUnits ==
  ASSUME NEW u \in Unit
  PROVE  /\ Peer[u[1]] \in Port => Far(u) \in PortUnit
         /\ u[1] \notin Port => u[1] \in Nic /\ <<u[1], u[2]>> \in NicVn
         /\ Peer[u[1]] \notin Port => Peer[u[1]] \in Nic
BY UnitFacts, LinkAssumption DEF End, NicVn, PortUnit, Far, Unit

LEMMA PartTypes ==
  ASSUME TypeOK, NEW u \in Unit
  PROVE  Received(u) \in Seq(Flit) /\ wire[u] \in Seq(Flit) /\ Waiting(u) \in Seq(Flit)
<1>1. <<>> \in Seq(Flit)
  OBVIOUS
<1>2. Received(u) \in Seq(Flit)
  BY <1>1, PartUnits DEF TypeOK, PortTypeOK, Received
<1>3. Waiting(u) \in Seq(Flit)
  BY <1>1, PartUnits, UnitFacts DEF TypeOK, PortTypeOK, NicTypeOK, Waiting
<1>4. QED
  BY <1>2, <1>3 DEF TypeOK, LinkTypeOK

LEMMA StreamTypes ==
  ASSUME TypeOK
  PROVE  Streams \in [Unit -> Seq(Flit)]
<1>1. ASSUME NEW u \in Unit
      PROVE  Stream(u) \in Seq(Flit)
  <2>1. Received(u) \o wire[u] \in Seq(Flit)
    BY PartTypes, ConcatProperties
  <2>2. (Received(u) \o wire[u]) \o Waiting(u) \in Seq(Flit)
    BY PartTypes, <2>1, ConcatProperties
  <2>3. QED
    BY <2>2 DEF Stream, Received, Waiting
<1>2. QED
  BY <1>1 DEF Streams

\* A flit that moves from one part of a stream to the part before it, or a stream no
\* part of which changes, leaves the stream as it is.
LEMMA SameParts ==
  ASSUME NEW u \in Unit, Received(u)' = Received(u), wire'[u] = wire[u],
         Waiting(u)' = Waiting(u)
  PROVE  Streams'[u] = Streams[u]
BY StreamParts, StreamPartsNext

LEMMA ToWire ==
  ASSUME TypeOK, NEW u \in Unit, Waiting(u) # <<>>,
         Received(u)' = Received(u),
         wire'[u] = Append(wire[u], Head(Waiting(u))),
         Waiting(u)' = Tail(Waiting(u))
  PROVE  Streams'[u] = Streams[u]
<1> DEFINE r == Received(u)
           w == wire[u]
           o == Waiting(u)
<1>1. r \in Seq(Flit) /\ w \in Seq(Flit) /\ o \in Seq(Flit) /\ o # <<>>
  BY PartTypes
<1>2. Streams[u] = (r \o w) \o o /\ Streams'[u] = (r \o Append(w, Head(o))) \o Tail(o)
  BY StreamParts, StreamPartsNext
<1> HIDE DEF r, w, o
<1>3. Head(o) \in Flit /\ r \o w \in Seq(Flit)
  BY <1>1, HeadTailProperties, ConcatProperties
<1>4. r \o Append(w, Head(o)) = Append(r \o w, Head(o))
  BY <1>1, <1>3, AddToLast
<1>5. Append(r \o w, Head(o)) \o Tail(o) = (r \o w) \o o
  BY <1>1, <1>3, MoveFront
<1>6. QED
  BY <1>2, <1>4, <1>5

LEMMA OffWire ==
  ASSUME TypeOK, NEW u \in Unit, wire[u] # <<>>,
         Received(u)' = Append(Received(u), Head(wire[u])),
         wire'[u] = Tail(wire[u]),
         Waiting(u)' = Waiting(u)
  PROVE  Streams'[u] = Streams[u]
<1>1. Append(Received(u), Head(wire[u])) \o Tail(wire[u]) = Received(u) \o wire[u]
  BY PartTypes, MoveFront
<1>2. QED
  BY <1>1, StreamParts, StreamPartsNext

LEMMA SameStreams ==
  ASSUME \A u \in Unit : Streams'[u] = Streams[u]
  PROVE  Streams' = Streams
BY DEF Streams

LEMMA StreamsUnchanged ==
  ASSUME UNCHANGED <<inBuf, wire, outBuf, nicOutBuf>>
  PROVE  Streams' = Streams
BY DEF Streams, Stream

-----------------------------------------------------------------------------
(* The actions.                                                            *)

\* A flit crosses the crossbar: from the front of the stream that ends at the input
\* unit to the end of the stream that starts at the output unit.
LEMMA CrossbarStreams ==
  ASSUME AllocInv, NEW p \in Port, CrossbarTransfer(p), UNCHANGED <<linkVars, nicVars>>
  PROVE  LET in  == sendFrom[rcvFrom[p]]
             out == rcvTo[p]
             f   == Head(inBuf[in])
         IN  /\ in \in PortUnit /\ out \in PortUnit /\ f \in Flit /\ Far(in) \in Unit
             /\ Streams[Far(in)] # <<>> /\ Head(Streams[Far(in)]) = f
             /\ Streams' = AddBack(TakeFront(Streams, Far(in)), out, f)
<1> DEFINE in  == sendFrom[rcvFrom[p]]
           out == rcvTo[p]
           f   == Head(inBuf[in])
           a   == Far(in)
<1>1. /\ in \in PortUnit /\ out \in PortUnit /\ inBuf[in] # <<>>
      /\ inBuf' = [inBuf EXCEPT ![in] = Tail(@)]
      /\ outBuf' = [outBuf EXCEPT ![out] = Append(@, f)]
      /\ UNCHANGED <<wire, nicOutBuf>>
  BY ConnectionFacts DEF CrossbarTransfer, linkVars, nicVars
<1>2. /\ TypeOK /\ inBuf \in [PortUnit -> Seq(Flit)] /\ outBuf \in [PortUnit -> Seq(Flit)]
  BY DEF AllocInv, TypeOK, PortTypeOK
<1>3. /\ a \in Unit /\ Far(a) = in /\ Peer[a[1]] \in Port
      /\ out \in Unit /\ out[1] \in Port
  BY <1>1, UnitFacts, PortUnitFacts
<1> HIDE DEF in, out, f, a
<1>4. ASSUME NEW u \in Unit
      PROVE  /\ Waiting(u)' = IF u = out THEN Append(Waiting(u), f) ELSE Waiting(u)
             /\ Received(u)' = IF u = a THEN Tail(Received(u)) ELSE Received(u)
  <2>1. u[1] \in Port => u \in PortUnit
    BY UnitFacts
  <2>2. Waiting(u)' = IF u = out THEN Append(Waiting(u), f) ELSE Waiting(u)
    BY <1>1, <1>2, <1>3, <2>1 DEF Waiting
  <2>3. Peer[u[1]] \in Port => Far(u) \in PortUnit /\ (u = a <=> Far(u) = in)
    BY <1>3, PartUnits, UnitFacts DEF a
  <2>4. Received(u)' = IF u = a THEN Tail(Received(u)) ELSE Received(u)
    BY <1>1, <1>2, <1>3, <2>3 DEF Received
  <2>5. QED
    BY <2>2, <2>4
<1>5. /\ Received(a) # <<>> /\ Head(Received(a)) = f
  BY <1>1, <1>3 DEF Received, f
<1>6. f \in Flit
  BY <1>1, <1>2, HeadTailProperties DEF f
<1>7. Streams \in [Unit -> Seq(Flit)]
  BY <1>2, StreamTypes
<1>8. Streams[a] # <<>> /\ Head(Streams[a]) = f
  <2>1. /\ Received(a) \o wire[a] # <<>> /\ Head(Received(a) \o wire[a]) = f
        /\ Received(a) \o wire[a] \in Seq(Flit)
    BY <1>2, <1>3, <1>5, PartTypes, TakeFromFirst, ConcatProperties
  <2>2. QED
    BY <1>2, <1>3, <2>1, PartTypes, TakeFromFirst, StreamParts
<1>9. ASSUME NEW u \in Unit
      PROVE  Streams'[u] = AddBack(TakeFront(Streams, a), out, f)[u]
  <2> DEFINE r == Received(u)
             w == wire[u]
             o == Waiting(u)
             r2 == IF u = a THEN Tail(r) ELSE r
             o2 == IF u = out THEN Append(o, f) ELSE o
  <2>1. r \in Seq(Flit) /\ w \in Seq(Flit) /\ o \in Seq(Flit) /\ (u = a => r # <<>>)
    BY <1>2, <1>5, PartTypes
  <2>2. Streams[u] = (r \o w) \o o /\ Streams'[u] = (r2 \o w) \o o2
    BY <1>1, <1>4, StreamParts, StreamPartsNext
  <2> HIDE DEF r, w, o
  <2>3. r2 \in Seq(Flit)
    BY <2>1, HeadTailProperties
  <2>4. (r2 \o w) \o o = IF u = a THEN Tail((r \o w) \o o) ELSE (r \o w) \o o
    <3>1. CASE u # a
      BY <3>1
    <3>2. CASE u = a
      <4>1. r # <<>> /\ r2 = Tail(r)
        BY <2>1, <3>2
      <4> HIDE DEF r2
      <4>2. /\ r \o w \in Seq(Flit) /\ r \o w # <<>>
            /\ Tail(r) \o w = Tail(r \o w)
        BY <2>1, <4>1, TakeFromFirst, ConcatProperties
      <4>3. Tail(r \o w) \o o = Tail((r \o w) \o o)
        BY <2>1, <4>2, TakeFromFirst
      <4>4. QED
        BY <3>2, <4>1, <4>2, <4>3
    <3>3. QED
      BY <3>1, <3>2
  <2>5. r2 \o w \in Seq(Flit)
    BY <2>1, <2>3, ConcatProperties
  <2> HIDE DEF r2
  <2>6. (r2 \o w) \o o2 = IF u = out THEN Append((r2 \o w) \o o, f) ELSE (r2 \o w) \o o
    <3>1. (r2 \o w) \o Append(o, f) = Append((r2 \o w) \o o, f)
      BY <2>1, <2>5, <1>6, AddToLast
    <3>2. QED
      BY <3>1
  <2>7. AddBack(TakeFront(Streams, a), out, f)[u]
          = LET s == IF u = a THEN Tail(Streams[u]) ELSE Streams[u]
            IN  IF u = out THEN Append(s, f) ELSE s
    BY <1>3, <1>7 DEF AddBack, TakeFront
  <2>8. QED
    BY <2>2, <2>4, <2>6, <2>7
<1>10. Streams' = AddBack(TakeFront(Streams, a), out, f)
  BY <1>9 DEF Streams, AddBack, TakeFront
<1>11. QED
  BY <1>1, <1>3, <1>6, <1>8, <1>10 DEF in, out, f, a

\* A clock tick of a port moves a flit from its output queue to the wire.
LEMMA PortStepStreams ==
  ASSUME AllocInv, NEW p \in Port, ClockTick(p), UNCHANGED nicVars
  PROVE  Streams' = Streams
<1>1. TypeOK /\ inBuf' = inBuf /\ nicOutBuf' = nicOutBuf
  BY DEF ClockTick, InputPipeline, AllocInv, nicVars
<1>2. CASE UNCHANGED <<outBuf, wire>>
  BY <1>1, <1>2, StreamsUnchanged
<1>3. ASSUME NEW v \in UnitsOf(p), Sendable(v),
             outBuf' = [outBuf EXCEPT ![v] = Tail(@)],
             wire' = [wire EXCEPT ![v] = Append(@, Head(outBuf[v]))]
      PROVE  Streams' = Streams
  <2>1. v \in PortUnit /\ v[1] \in Port /\ outBuf[v] # <<>> /\ v \in Unit
    BY <1>3, UnitFacts DEF UnitsOf, Sendable
  <2>2. /\ wire \in [Unit -> Seq(Flit)] /\ outBuf \in [PortUnit -> Seq(Flit)]
    BY <1>1 DEF TypeOK, LinkTypeOK, PortTypeOK
  <2>3. ASSUME NEW u \in Unit
        PROVE  Streams'[u] = Streams[u]
    <3>1. Received(u)' = Received(u)
      BY <1>1 DEF Received
    <3>2. u[1] \in Port => u \in PortUnit
      BY UnitFacts
    <3>3. CASE u = v
      <4>1. /\ Waiting(u) # <<>> /\ Waiting(u)' = Tail(Waiting(u))
            /\ wire'[u] = Append(wire[u], Head(Waiting(u)))
        BY <1>3, <2>1, <2>2, <3>3 DEF Waiting
      <4>2. QED
        BY <1>1, <3>1, <4>1, ToWire
    <3>4. CASE u # v
      <4>1. Waiting(u)' = Waiting(u) /\ wire'[u] = wire[u]
        BY <1>1, <1>3, <2>1, <2>2, <3>2, <3>4 DEF Waiting
      <4>2. QED
        BY <3>1, <4>1, SameParts
    <3>5. QED
      BY <3>3, <3>4
  <2>4. QED
    BY <2>3, SameStreams
<1>4. QED
  BY <1>2, <1>3 DEF ClockTick, SendFlit, TransportFlit

\* A clock tick of a NIC moves flits from its output queues to the wire.
LEMMA NicSendStreams ==
  ASSUME AllocInv, NEW n \in Nic, NicSendFlits(n), UNCHANGED portVars
  PROVE  Streams' = Streams
<1> DEFINE moves(u) == u[1] \in Nic /\ u[3] = 0 /\ <<u[1], u[2]>> \in NicSending(n)
<1>1. /\ TypeOK /\ inBuf' = inBuf /\ outBuf' = outBuf
      /\ nicOutBuf \in [NicVn -> Seq(Flit)] /\ wire \in [Unit -> Seq(Flit)]
  BY DEF AllocInv, TypeOK, NicTypeOK, LinkTypeOK, portVars, inVars, outVars
<1>2. /\ nicOutBuf' = [x \in NicVn |->
           IF x \in NicSending(n) THEN Tail(nicOutBuf[x]) ELSE nicOutBuf[x]]
      /\ wire' = [u \in Unit |->
           IF u[3] = 0 /\ <<u[1], u[2]>> \in NicSending(n)
           THEN Append(wire[u], Head(nicOutBuf[<<u[1], u[2]>>])) ELSE wire[u]]
  BY DEF NicSendFlits
<1>3. \A x \in NicSending(n) : x \in NicVn /\ x[1] \in Nic /\ nicOutBuf[x] # <<>>
  BY DEF NicSending, NicVn
<1>4. ASSUME NEW u \in Unit
      PROVE  Streams'[u] = Streams[u]
  <2>1. Received(u)' = Received(u)
    BY <1>1 DEF Received
  <2>2. \/ u[1] \in Port /\ u[1] \notin Nic
        \/ u[1] \notin Port /\ u[1] \in Nic /\ <<u[1], u[2]>> \in NicVn
    BY PartUnits, LinkAssumption
  <2>3. CASE moves(u)
    <3>1. /\ Waiting(u) # <<>> /\ Waiting(u)' = Tail(Waiting(u))
          /\ wire'[u] = Append(wire[u], Head(Waiting(u)))
      BY <1>1, <1>2, <1>3, <2>2, <2>3 DEF Waiting
    <3>2. QED
      BY <1>1, <2>1, <3>1, ToWire
  <2>4. CASE ~moves(u)
    <3>1. ~(u[3] = 0 /\ <<u[1], u[2]>> \in NicSending(n))
      BY <1>3, <2>4
    <3>2. wire'[u] = wire[u]
      BY <1>2, <3>1
    <3>3. Waiting(u)' = Waiting(u)
      BY <1>1, <1>2, <2>2, <3>1 DEF Waiting
    <3>4. QED
      BY <2>1, <3>2, <3>3, SameParts
  <2>5. QED
    BY <2>3, <2>4
<1>5. QED
  BY <1>4, SameStreams

\* send() adds the flits of the packet at the end of the stream of its source.
LEMMA SendStreams ==
  ASSUME AllocInv, NEW k \in Packet, Send(k), UNCHANGED portVars
  PROVE  /\ <<Src[k], PktVn[k], 0>> \in Unit
         /\ Streams' = AddAll(Streams, <<Src[k], PktVn[k], 0>>, FlitsOf(k))
<1> DEFINE x == <<Src[k], PktVn[k]>>
           a == <<Src[k], PktVn[k], 0>>
<1>1. /\ TypeOK /\ nicOutBuf \in [NicVn -> Seq(Flit)]
      /\ nicOutBuf' = [nicOutBuf EXCEPT ![x] = @ \o FlitsOf(k)]
      /\ UNCHANGED <<inBuf, outBuf, wire>>
  BY DEF AllocInv, TypeOK, NicTypeOK, Send, portVars, inVars, outVars, linkVars
<1>2. /\ Src[k] \in Nic /\ PktVn[k] \in VN /\ x \in NicVn /\ a \in Unit
      /\ a[1] = Src[k] /\ a[2] = PktVn[k] /\ a[3] = 0 /\ a[1] \notin Port
      /\ FlitsOf(k) \in Seq(Flit)
  BY PacketAssumption, SizeAssumption, LinkAssumption, FlitsOfFacts DEF NicVn, Unit, End, VC
<1>3. ASSUME NEW u \in Unit
      PROVE  Streams'[u] = IF u = a THEN Streams[u] \o FlitsOf(k) ELSE Streams[u]
  <2>1. Received(u)' = Received(u) /\ wire'[u] = wire[u]
    BY <1>1 DEF Received
  <2>2. CASE u = a
    <3>1. Waiting(u)' = Waiting(u) \o FlitsOf(k)
      BY <1>1, <1>2, <2>2 DEF Waiting
    <3>2. /\ Received(u) \o wire[u] \in Seq(Flit) /\ Waiting(u) \in Seq(Flit)
      BY <1>1, PartTypes, ConcatProperties
    <3>3. (Received(u) \o wire[u]) \o (Waiting(u) \o FlitsOf(k))
            = ((Received(u) \o wire[u]) \o Waiting(u)) \o FlitsOf(k)
      <4> DEFINE r == Received(u) \o wire[u]
                 o == Waiting(u)
                 s == FlitsOf(k)
      <4>1. r \in Seq(Flit) /\ o \in Seq(Flit) /\ s \in Seq(Flit)
        BY <1>2, <3>2
      <4> HIDE DEF r, o, s, x, a
      <4>2. r \o (o \o s) = (r \o o) \o s
        BY <4>1, ConcatAssociative
      <4>3. QED
        BY <4>2 DEF r, o, s
    <3>4. QED
      BY <2>1, <2>2, <3>1, <3>3, StreamParts, StreamPartsNext
  <2>3. CASE u # a
    <3>1. u[1] \notin Port /\ u[3] = 0 => <<u[1], u[2]>> # x
      BY <2>3, UnitFacts
    <3>2. Waiting(u)' = Waiting(u)
      BY <1>1, <3>1, PartUnits DEF Waiting
    <3>3. QED
      BY <2>1, <2>3, <3>2, SameParts
  <2>4. QED
    BY <2>2, <2>3
<1>4. QED
  BY <1>2, <1>3 DEF Streams, AddAll

\* A flit that reaches a port is appended to its input queue.
LEMMA DeliverToPortStreams ==
  ASSUME AllocInv, NEW u \in Unit, DeliverFlit(u), Peer[u[1]] \in Port
  PROVE  /\ UNCHANGED nicVars
         /\ inBuf' = [inBuf EXCEPT ![Far(u)] = Append(@, Head(wire[u]))]
         /\ UNCHANGED <<inVcState, outPort, outVc, outVars, xbarVars, needVars>>
         /\ Streams' = Streams
<1>1. Peer[u[1]] \notin Nic
  BY LinkAssumption
<1>2. /\ UNCHANGED nicVars /\ wire[u] # <<>>
      /\ wire' = [wire EXCEPT ![u] = Tail(@)]
      /\ inBuf' = [inBuf EXCEPT ![Far(u)] = Append(@, Head(wire[u]))]
      /\ UNCHANGED <<inVcState, outPort, outVc, outVars, xbarVars, needVars>>
  BY <1>1 DEF DeliverFlit, PortReceiveFlit
<1>3. /\ TypeOK /\ wire \in [Unit -> Seq(Flit)] /\ inBuf \in [PortUnit -> Seq(Flit)]
      /\ UNCHANGED <<outBuf, nicOutBuf>>
  BY <1>2 DEF AllocInv, TypeOK, LinkTypeOK, PortTypeOK, outVars, nicVars
<1>4. ASSUME NEW v \in Unit
      PROVE  Streams'[v] = Streams[v]
  <2>1. Waiting(v)' = Waiting(v)
    BY <1>3 DEF Waiting
  <2>2. Peer[v[1]] \in Port => Far(v) \in PortUnit
    BY PartUnits
  <2>3. CASE v = u
    <3>1. /\ wire'[u] = Tail(wire[u])
          /\ Received(u)' = Append(Received(u), Head(wire[u]))
      BY <1>2, <1>3, <2>2, <2>3 DEF Received
    <3>2. QED
      BY <1>2, <1>3, <2>1, <2>3, <3>1, OffWire
  <2>4. CASE v # u
    <3>1. Far(v) # Far(u)
      BY <2>4, UnitFacts
    <3>2. Received(v)' = Received(v) /\ wire'[v] = wire[v]
      BY <1>2, <1>3, <2>2, <2>4, <3>1 DEF Received
    <3>3. QED
      BY <2>1, <3>2, SameParts
  <2>5. QED
    BY <2>3, <2>4
<1>5. QED
  BY <1>2, <1>4, SameStreams

\* A flit that reaches a NIC leaves the network.
LEMMA DeliverToNicStreams ==
  ASSUME AllocInv, NEW u \in Unit, DeliverFlit(u), Peer[u[1]] \in Nic
  PROVE  LET f == Head(wire[u])
         IN  /\ UNCHANGED <<portVars, sent>>
             /\ f \in Flit /\ Streams[u] # <<>> /\ Head(Streams[u]) = f
             /\ <<Peer[u[1]], u[2]>> \in NicVn
             /\ nicInBuf' = IF IsTail(f)
                            THEN [nicInBuf EXCEPT ![<<Peer[u[1]], u[2]>>] = Append(@, f.pkt)]
                            ELSE nicInBuf
             /\ Streams' = TakeFront(Streams, u)
<1> DEFINE f == Head(wire[u])
<1>1. Peer[u[1]] \notin Port /\ <<Peer[u[1]], u[2]>> \in NicVn
  BY UnitFacts, LinkAssumption DEF NicVn
<1>2. /\ UNCHANGED <<portVars, nicOutBuf, sent>> /\ wire[u] # <<>>
      /\ wire' = [wire EXCEPT ![u] = Tail(@)]
      /\ nicInBuf' = IF IsTail(f)
                     THEN [nicInBuf EXCEPT ![<<Peer[u[1]], u[2]>>] = Append(@, f.pkt)]
                     ELSE nicInBuf
  BY <1>1 DEF DeliverFlit, NicReceiveFlit
<1>3. /\ TypeOK /\ wire \in [Unit -> Seq(Flit)] /\ UNCHANGED <<inBuf, outBuf, nicOutBuf>>
  BY <1>2 DEF AllocInv, TypeOK, LinkTypeOK, portVars, inVars, outVars
<1>4. Received(u) = <<>> /\ Received(u)' = <<>>
  BY <1>1 DEF Received
<1>5. /\ wire[u] \in Seq(Flit) /\ Waiting(u) \in Seq(Flit) /\ <<>> \o wire[u] = wire[u]
      /\ Tail(wire[u]) \in Seq(Flit) /\ <<>> \o Tail(wire[u]) = Tail(wire[u]) /\ f \in Flit
  BY <1>2, <1>3, PartTypes, HeadTailProperties, ConcatEmptySeq
<1>6. Streams[u] = wire[u] \o Waiting(u) /\ Streams'[u] = Tail(wire[u]) \o Waiting(u)
  <2>1. wire'[u] = Tail(wire[u]) /\ Waiting(u)' = Waiting(u)
    BY <1>2, <1>3 DEF Waiting
  <2>2. QED
    BY <1>4, <1>5, <2>1, StreamParts, StreamPartsNext
<1>7. Streams[u] # <<>> /\ Head(Streams[u]) = f /\ Streams'[u] = Tail(Streams[u])
  <2>1. /\ wire[u] \o Waiting(u) # <<>> /\ Head(wire[u] \o Waiting(u)) = f
        /\ Tail(wire[u] \o Waiting(u)) = Tail(wire[u]) \o Waiting(u)
    BY <1>2, <1>5, TakeFromFirst
  <2>2. QED
    BY <1>6, <2>1
<1>8. ASSUME NEW v \in Unit, v # u
      PROVE  Streams'[v] = Streams[v]
  <2>1. wire'[v] = wire[v] /\ Waiting(v)' = Waiting(v) /\ Received(v)' = Received(v)
    BY <1>2, <1>3, <1>8 DEF Waiting, Received
  <2>2. QED
    BY <2>1, SameParts
<1>9. QED
  BY <1>1, <1>2, <1>5, <1>7, <1>8 DEF Streams, TakeFront
-----------------------------------------------------------------------------
(* The invariant, and the steps that keep it.                              *)

Last(s) == s[Len(s)]

\* Nothing of a packet is still to come.
Whole(s) == s = <<>> \/ IsTail(Last(s))

\* A sequence of packets, the last perhaps incomplete.
Worm(s) ==
  /\ s # <<>> => IsHead(s[1])
  /\ \A i \in 1 .. Len(s) - 1 : Follows(s[i], s[i + 1])

\* Both ended with a whole packet, or with the same flit of one.
Agree(s, t) ==
  \/ Whole(s) /\ Whole(t)
  \/ ~Whole(s) /\ ~Whole(t) /\ Last(s) = Last(t)

Log(passed, u) == passed[u] \o Streams[u]

\* The flits that left input unit in, and the packet it works on.
Left(passed, in) == passed[Far(in)]
Current(passed, in) ==
  IF Whole(Left(passed, in)) THEN Head(inBuf[in]).pkt ELSE Last(Left(passed, in)).pkt

\* An input unit leaves IN_ACTIVE only between packets; until then it knows the route
\* of the packet it works on, and the output VC it was granted has taken every flit
\* of it that has left.
InputAligned(passed, in) ==
  /\ inVcState[in] # "IN_ACTIVE" => Whole(Left(passed, in))
  /\ inVcState[in] # "IN_IDLE" /\ Whole(Left(passed, in)) => inBuf[in] # <<>>
  /\ inVcState[in] # "IN_IDLE" =>
       outPort[in] = Route[RouterOf[in[1]]][Dest[Current(passed, in)]]
  /\ outVc[in] # None => Agree(Left(passed, in), Log(passed, Granted(in)))

\* Packets stay on their virtual network, and only those for a NIC go to it.
OnRoute(f, u) ==
  /\ PktVn[f.pkt] = u[2]
  /\ Peer[u[1]] \in Nic => Dest[f.pkt] = Peer[u[1]]

LogsAreWorms(passed)     == \A u \in Unit : Worm(Log(passed, u))
InputsAligned(passed)    == \A in \in PortUnit : InputAligned(passed, in)
FreeOutputsWhole(passed) == \A out \in PortUnit : outSrc[out] = None => Whole(Log(passed, out))
SourcesWhole(passed)     == \A u \in Unit : u[1] \in Nic => Whole(Log(passed, u))
LogsOnRoute(passed)      ==
  \A u \in Unit : \A i \in 1 .. Len(Log(passed, u)) : OnRoute(Log(passed, u)[i], u)
ArrivedHome ==
  \A x \in NicVn : \A i \in 1 .. Len(nicInBuf[x]) :
    Dest[nicInBuf[x][i]] = x[1] /\ PktVn[nicInBuf[x][i]] = x[2]

WormInv(passed) ==
  /\ LogsAreWorms(passed)
  /\ InputsAligned(passed)
  /\ FreeOutputsWhole(passed)
  /\ SourcesWhole(passed)
  /\ LogsOnRoute(passed)
  /\ ArrivedHome

Past == [Unit -> Seq(Flit)]

\* The four things a step can do to the streams, to their past and to the packets sent
\* and arrived: nothing; move a flit to the stream its route gives; hand a flit to the
\* NIC at the end of its stream; put the flits of a packet on the stream of its source.
Kept(passed, next) ==
  /\ Streams' = Streams
  /\ next = passed
  /\ UNCHANGED <<nicInBuf, sent>>

Moved(passed, next) ==
  \E a \in Unit, b \in PortUnit, f \in Flit :
    /\ Peer[a[1]] \in Port
    /\ Streams[a] # <<>> /\ Head(Streams[a]) = f
    /\ b[1] = Route[RouterOf[Peer[a[1]]]][Dest[f.pkt]] /\ b[2] = a[2]
    /\ Streams' = AddBack(TakeFront(Streams, a), b, f)
    /\ next = AddBack(passed, a, f)
    /\ UNCHANGED <<nicInBuf, sent>>

Dropped(passed, next) ==
  \E u \in Unit, f \in Flit :
    /\ Peer[u[1]] \in Nic /\ <<Peer[u[1]], u[2]>> \in NicVn
    /\ Streams[u] # <<>> /\ Head(Streams[u]) = f
    /\ Streams' = TakeFront(Streams, u)
    /\ next = AddBack(passed, u, f)
    /\ nicInBuf' = IF IsTail(f)
                   THEN [nicInBuf EXCEPT ![<<Peer[u[1]], u[2]>>] = Append(@, f.pkt)]
                   ELSE nicInBuf
    /\ UNCHANGED sent

Added(passed, next) ==
  \E k \in Packet :
    /\ ~WasSent(k)
    /\ Streams' = AddAll(Streams, <<Src[k], PktVn[k], 0>>, FlitsOf(k))
    /\ next = passed
    /\ sent' = [sent EXCEPT ![Src[k]] = Append(@, k)]
    /\ UNCHANGED nicInBuf

PastStep(passed, next) ==
  Kept(passed, next) \/ Moved(passed, next) \/ Dropped(passed, next) \/ Added(passed, next)

-----------------------------------------------------------------------------
(* Sequences of flits.                                                     *)

LEMMA WholeAppend ==
  ASSUME NEW s \in Seq(Flit), NEW f \in Flit
  PROVE  /\ Append(s, f) \in Seq(Flit) /\ Append(s, f) # <<>>
         /\ Last(Append(s, f)) = f
         /\ Whole(Append(s, f)) <=> IsTail(f)
<1>1. Last(Append(s, f)) = f /\ Append(s, f) # <<>> /\ Append(s, f) \in Seq(Flit)
  BY AppendProperties DEF Last
<1>2. QED
  BY <1>1 DEF Whole

\* The flit that may follow a sequence of packets: the HEAD of a new packet, or the
\* next flit of the one that is incomplete.
LEMMA WormAppend ==
  ASSUME NEW s \in Seq(Flit), NEW f \in Flit, Worm(s),
         Whole(s) => IsHead(f), ~Whole(s) => Follows(Last(s), f)
  PROVE  Worm(Append(s, f))
<1> DEFINE t == Append(s, f)
<1>1. /\ t \in Seq(Flit) /\ Len(t) = Len(s) + 1 /\ Len(s) \in Nat /\ t # <<>>
      /\ \A i \in 1 .. Len(s) : t[i] = s[i]
      /\ t[Len(s) + 1] = f
  BY AppendProperties, LenProperties
<1> HIDE DEF t
<1>2. IsHead(t[1])
  <2>1. CASE s = <<>>
    BY <1>1, <2>1 DEF Whole
  <2>2. CASE s # <<>>
    BY <1>1, <2>2, EmptySeq DEF Worm
  <2>3. QED
    BY <2>1, <2>2
<1>3. ASSUME NEW i \in 1 .. Len(t) - 1
      PROVE  Follows(t[i], t[i + 1])
  <2>1. CASE i < Len(s)
    BY <1>1, <2>1 DEF Worm
  <2>2. CASE i = Len(s)
    <3>1. s # <<>> /\ t[i] = Last(s) /\ t[i + 1] = f
      BY <1>1, <2>2 DEF Last
    <3>2. QED
      BY <3>1 DEF Whole, Follows
  <2>3. QED
    BY <1>1, <2>1, <2>2
<1>4. QED
  BY <1>2, <1>3 DEF Worm, t

\* Where a sequence of packets is cut, the second part continues the first.
LEMMA WormCut ==
  ASSUME NEW s \in Seq(Flit), NEW t \in Seq(Flit), t # <<>>, Worm(s \o t)
  PROVE  /\ Whole(s) => IsHead(Head(t))
         /\ ~Whole(s) => Follows(Last(s), Head(t))
<1> DEFINE w == s \o t
<1>1. /\ Len(s) \in Nat /\ Len(t) \in Nat \ {0} /\ Len(w) = Len(s) + Len(t)
      /\ \A i \in 1 .. Len(w) : w[i] = IF i <= Len(s) THEN s[i] ELSE t[i - Len(s)]
      /\ w \in Seq(Flit)
  BY ConcatProperties, LenProperties, EmptySeq
<1>2. Head(t) = t[1] /\ Worm(w)
  BY <1>1
<1> HIDE DEF w
<1>3. CASE s = <<>>
  <2>1. w[1] = Head(t) /\ w # <<>>
    BY <1>1, <1>2, <1>3
  <2>2. QED
    BY <1>2, <1>3, <2>1 DEF Worm, Whole
<1>4. CASE s # <<>>
  <2>1. Len(s) \in 1 .. Len(w) - 1 /\ w[Len(s)] = Last(s) /\ w[Len(s) + 1] = Head(t)
    <3>1. Len(s) \in Nat \ {0}
      BY <1>4, EmptySeq
    <3>2. Len(s) \in 1 .. Len(w) - 1 /\ Len(s) + 1 \in 1 .. Len(w)
      BY <1>1, <3>1
    <3>3. w[Len(s)] = s[Len(s)] /\ w[Len(s) + 1] = t[(Len(s) + 1) - Len(s)]
      BY <1>1, <3>1, <3>2
    <3>4. QED
      BY <1>2, <3>1, <3>2, <3>3 DEF Last
  <2>2. Follows(Last(s), Head(t))
    BY <1>2, <2>1 DEF Worm
  <2>3. QED
    BY <1>4, <2>2 DEF Whole, Follows
<1>5. QED
  BY <1>3, <1>4

LEMMA WormPacket ==
  ASSUME NEW s \in Seq(Flit), Worm(s), Whole(s), NEW k \in Packet
  PROVE  Worm(s \o FlitsOf(k)) /\ Whole(s \o FlitsOf(k))
<1> DEFINE t == FlitsOf(k)
           w == s \o t
           n == NumFlits[k]
<1>1. n \in Nat \ {0, 1}
  BY PacketAssumption
<1>2. /\ t \in Seq(Flit) /\ Len(t) = n
      /\ \A i \in 1 .. n : t[i].pkt = k /\ t[i].id = i - 1
  BY <1>1, FlitsOfFacts DEF FlitsOf
<1>3. /\ w \in Seq(Flit) /\ Len(s) \in Nat /\ Len(w) = Len(s) + n
      /\ \A i \in 1 .. Len(s) + n : w[i] = IF i <= Len(s) THEN s[i] ELSE t[i - Len(s)]
  BY <1>2, ConcatProperties, LenProperties
<1> HIDE DEF w, t, n
<1>4. w # <<>> /\ Last(w) = t[n]
  BY <1>1, <1>2, <1>3 DEF Last
<1>5. IsTail(t[n]) /\ IsHead(t[1])
  BY <1>1, <1>2 DEF IsTail, IsHead, n
<1>6. IsHead(w[1])
  <2>1. CASE s = <<>>
    BY <1>1, <1>2, <1>3, <1>5, <2>1
  <2>2. CASE s # <<>>
    BY <1>1, <1>3, <2>2, EmptySeq DEF Worm
  <2>3. QED
    BY <2>1, <2>2
<1>7. ASSUME NEW i \in 1 .. Len(w) - 1
      PROVE  Follows(w[i], w[i + 1])
  <2>1. CASE i < Len(s)
    BY <1>1, <1>3, <2>1 DEF Worm
  <2>2. CASE i = Len(s)
    <3>1. s # <<>> /\ w[i] = Last(s) /\ w[i + 1] = t[1]
      BY <1>1, <1>3, <2>2 DEF Last
    <3>2. QED
      BY <1>5, <3>1 DEF Whole, Follows
  <2>3. CASE i > Len(s)
    <3>1. PICK j \in 1 .. n - 1 : w[i] = t[j] /\ w[i + 1] = t[j + 1]
      <4>1. i - Len(s) \in 1 .. n - 1 /\ i + 1 - Len(s) = (i - Len(s)) + 1
        BY <1>1, <1>3, <2>3
      <4>2. w[i] = t[i - Len(s)] /\ w[i + 1] = t[(i - Len(s)) + 1]
        BY <1>1, <1>3, <2>3, <4>1
      <4>3. QED
        BY <4>1, <4>2
    <3>2. t[j].pkt = k /\ t[j].id = j - 1 /\ t[j + 1].pkt = k /\ t[j + 1].id = j
      BY <1>1, <1>2
    <3>3. ~IsTail(t[j])
      BY <1>1, <3>2 DEF IsTail, n
    <3>4. QED
      BY <1>1, <3>1, <3>2, <3>3 DEF Follows
  <2>4. QED
    BY <1>3, <2>1, <2>2, <2>3
<1>8. QED
  BY <1>4, <1>5, <1>6, <1>7 DEF Worm, Whole, w, t

-----------------------------------------------------------------------------
(* What is put on a stream, and what has left it.                          *)

LEMMA LogTypes ==
  ASSUME TypeOK, NEW passed \in Past, NEW u \in Unit
  PROVE  /\ passed[u] \in Seq(Flit) /\ Streams[u] \in Seq(Flit)
         /\ Log(passed, u) \in Seq(Flit)
BY StreamTypes, ConcatProperties DEF Past, Log

\* The next flit to leave a stream.
LEMMA LogFront ==
  ASSUME TypeOK, NEW passed \in Past, NEW u \in Unit, Streams[u] # <<>>
  PROVE  LET n == Len(passed[u]) + 1
         IN  n \in 1 .. Len(Log(passed, u)) /\ Log(passed, u)[n] = Head(Streams[u])
BY LogTypes, ConcatFront DEF Log

LEMMA LogsUnchanged ==
  ASSUME NEW passed \in Past, NEW u \in Unit, Streams' = Streams
  PROVE  Log(passed, u)' = Log(passed, u)
BY DEF Log

\* A flit that moves from one stream to another has left the first, and is put on the
\* second.
LEMMA LogsMove ==
  ASSUME TypeOK, NEW passed \in Past, NEW a \in Unit, NEW b \in Unit, NEW f \in Flit,
         Streams[a] # <<>>, Head(Streams[a]) = f,
         Streams' = AddBack(TakeFront(Streams, a), b, f),
         NEW next, next = AddBack(passed, a, f)
  PROVE  /\ next \in Past
         /\ \A u \in Unit : next[u] = IF u = a THEN Append(passed[u], f) ELSE passed[u]
         /\ \A u \in Unit :
              Log(next, u)' = IF u = b THEN Append(Log(passed, u), f) ELSE Log(passed, u)
<1>1. \A u \in Unit : next[u] = IF u = a THEN Append(passed[u], f) ELSE passed[u]
  BY DEF AddBack
<1>2. next \in Past
  <2>1. ASSUME NEW u \in Unit PROVE next[u] \in Seq(Flit)
    <3>1. passed[u] \in Seq(Flit)
      BY DEF Past
    <3>2. Append(passed[u], f) \in Seq(Flit)
      BY <3>1, AppendProperties
    <3>3. QED
      BY <1>1, <3>1, <3>2
  <2>2. QED
    BY <2>1 DEF AddBack, Past
<1>3. ASSUME NEW u \in Unit
      PROVE  Log(next, u)' = IF u = b THEN Append(Log(passed, u), f) ELSE Log(passed, u)
  <2> DEFINE q == passed[u]
             s == Streams[u]
             q2 == IF u = a THEN Append(q, f) ELSE q
             s2 == IF u = a THEN Tail(s) ELSE s
  <2>1. q \in Seq(Flit) /\ s \in Seq(Flit) /\ (u = a => s # <<>> /\ Head(s) = f)
    BY LogTypes
  <2>2. Log(passed, u) = q \o s
    BY DEF Log
  <2>3. Log(next, u)' = q2 \o (IF u = b THEN Append(s2, f) ELSE s2)
    BY <1>1 DEF Log, AddBack, TakeFront
  <2> HIDE DEF q, s
  <2>4. q2 \in Seq(Flit) /\ s2 \in Seq(Flit)
    BY <2>1, HeadTailProperties, AppendProperties
  <2>5. q2 \o s2 = q \o s
    BY <2>1, MoveFront
  <2> HIDE DEF q2, s2
  <2>6. q2 \o Append(s2, f) = Append(q2 \o s2, f)
    BY <2>4, AddToLast
  <2>7. QED
    BY <2>2, <2>3, <2>5, <2>6
<1>4. QED
  BY <1>1, <1>2, <1>3

\* A flit that is dropped has left its stream.
LEMMA LogsDrop ==
  ASSUME TypeOK, NEW passed \in Past, NEW a \in Unit, NEW f \in Flit,
         Streams[a] # <<>>, Head(Streams[a]) = f,
         Streams' = TakeFront(Streams, a),
         NEW next, next = AddBack(passed, a, f)
  PROVE  /\ next \in Past
         /\ \A u \in Unit : next[u] = IF u = a THEN Append(passed[u], f) ELSE passed[u]
         /\ \A u \in Unit : Log(next, u)' = Log(passed, u)
<1>1. \A u \in Unit : next[u] = IF u = a THEN Append(passed[u], f) ELSE passed[u]
  BY DEF AddBack
<1>2. next \in Past
  <2>1. \A u \in Unit : next[u] \in Seq(Flit)
    BY <1>1, AppendProperties, ZenonT(30) DEF Past
  <2>2. QED
    BY <2>1 DEF AddBack, Past
<1>3. ASSUME NEW u \in Unit
      PROVE  Log(next, u)' = Log(passed, u)
  <2>1. /\ passed[u] \in Seq(Flit) /\ Streams[u] \in Seq(Flit)
        /\ u = a => Streams[u] # <<>> /\ Head(Streams[u]) = f
    BY LogTypes
  <2>2. /\ Log(passed, u) = passed[u] \o Streams[u]
        /\ Log(next, u)' = next[u] \o (IF u = a THEN Tail(Streams[u]) ELSE Streams[u])
    BY DEF Log, TakeFront
  <2>3. CASE u # a
    BY <1>1, <2>2, <2>3
  <2>4. CASE u = a
    <3> DEFINE q == passed[u]
               s == Streams[u]
    <3>1. /\ q \in Seq(Flit) /\ s \in Seq(Flit) /\ s # <<>> /\ Head(s) = f
          /\ Log(passed, u) = q \o s /\ Log(next, u)' = Append(q, f) \o Tail(s)
      BY <1>1, <2>1, <2>2, <2>4
    <3> HIDE DEF q, s
    <3>2. QED
      BY <3>1, MoveFront
  <2>5. QED
    BY <2>3, <2>4
<1>4. QED
  BY <1>1, <1>2, <1>3

\* The flits of a packet that is sent are put on the stream of its source.
LEMMA LogsAdd ==
  ASSUME TypeOK, NEW passed \in Past, NEW a \in Unit, NEW k \in Packet,
         Streams' = AddAll(Streams, a, FlitsOf(k))
  PROVE  \A u \in Unit :
           Log(passed, u)' = IF u = a THEN Log(passed, u) \o FlitsOf(k) ELSE Log(passed, u)
<1>1. ASSUME NEW u \in Unit
      PROVE  Log(passed, u)' = IF u = a THEN Log(passed, u) \o FlitsOf(k) ELSE Log(passed, u)
  <2>1. /\ passed[u] \in Seq(Flit) /\ Streams[u] \in Seq(Flit) /\ FlitsOf(k) \in Seq(Flit)
    BY LogTypes, FlitsOfFacts
  <2>2. passed[u] \o (Streams[u] \o FlitsOf(k)) = (passed[u] \o Streams[u]) \o FlitsOf(k)
    <3> DEFINE q == passed[u]
               s == Streams[u]
               t == FlitsOf(k)
    <3>1. q \in Seq(Flit) /\ s \in Seq(Flit) /\ t \in Seq(Flit)
      BY <2>1
    <3> HIDE DEF q, s, t
    <3>2. q \o (s \o t) = (q \o s) \o t
      BY <3>1, ConcatAssociative
    <3>3. QED
      BY <3>2 DEF q, s, t
  <2>3. QED
    BY <2>2 DEF Log, AddAll
<1>2. QED
  BY <1>1

\* The flit at the front of an input queue is the front of the stream that ends there.
LEMMA FrontFlit ==
  ASSUME TypeOK, NEW in \in PortUnit
  PROVE  /\ Far(in) \in Unit /\ Peer[Far(in)[1]] = in[1] /\ in[1] \in Port
         /\ inBuf[in] \in Seq(Flit)
         /\ inBuf[in] # <<>> => /\ Streams[Far(in)] # <<>>
                                /\ Head(Streams[Far(in)]) = Head(inBuf[in])
                                /\ Head(inBuf[in]) \in Flit
<1>1. /\ Far(in) \in Unit /\ Far(Far(in)) = in /\ in[1] \in Port
      /\ Peer[Far(in)[1]] = in[1]
  BY PortUnitFacts, UnitFacts
<1>2. inBuf[in] \in Seq(Flit) /\ Received(Far(in)) = inBuf[in]
  BY <1>1 DEF TypeOK, PortTypeOK, Received
<1>3. ASSUME inBuf[in] # <<>>
      PROVE  Streams[Far(in)] # <<>> /\ Head(Streams[Far(in)]) = Head(inBuf[in])
  <2> DEFINE r == inBuf[in]
             w == wire[Far(in)]
             o == Waiting(Far(in))
  <2>1. r \in Seq(Flit) /\ w \in Seq(Flit) /\ o \in Seq(Flit) /\ r # <<>>
    BY <1>1, <1>2, <1>3, PartTypes
  <2>2. Streams[Far(in)] = (r \o w) \o o
    BY <1>1, <1>2, StreamParts
  <2> HIDE DEF r, w, o
  <2>3. r \o w \in Seq(Flit) /\ r \o w # <<>> /\ Head(r \o w) = Head(r)
    BY <2>1, ConcatProperties, TakeFromFirst
  <2>4. (r \o w) \o o # <<>> /\ Head((r \o w) \o o) = Head(r)
    BY <2>1, <2>3, TakeFromFirst
  <2>5. QED
    BY <2>2, <2>4 DEF r
<1>4. QED
  BY <1>1, <1>2, <1>3, HeadTailProperties

-----------------------------------------------------------------------------
(* Steps.                                                                  *)

LEMMA WormsUnchanged ==
  ASSUME AllocInv, NEW passed \in Past, WormInv(passed), Streams' = Streams,
         UNCHANGED <<inVcState, outPort, outVc, inBuf, outSrc, nicInBuf>>
  PROVE  WormInv(passed)'
<1>1. \A u \in Unit : Log(passed, u)' = Log(passed, u)
  BY LogsUnchanged
<1>2. LogsAreWorms(passed)' /\ SourcesWhole(passed)' /\ LogsOnRoute(passed)'
  BY <1>1 DEF WormInv, LogsAreWorms, SourcesWhole, LogsOnRoute
<1>3. FreeOutputsWhole(passed)'
  BY <1>1, PortUnitFacts DEF WormInv, FreeOutputsWhole
<1>4. ASSUME NEW in \in PortUnit
      PROVE  InputAligned(passed, in)'
  <2>1. outVc[in] # None => Granted(in) \in Unit
    BY PortUnitFacts DEF AllocInv, VcOwnership
  <2>2. Granted(in)' = Granted(in)
    BY DEF Granted
  <2>3. outVc[in] # None => Log(passed, Granted(in))' = Log(passed, Granted(in))
    BY <1>1, <2>1, <2>2 DEF Log
  <2>4. InputAligned(passed, in)
    BY DEF WormInv, InputsAligned
  <2>5. QED
    BY <2>3, <2>4 DEF InputAligned, Current, Left
<1>5. QED
  BY <1>2, <1>3, <1>4 DEF WormInv, InputsAligned, ArrivedHome

\* The output VC that is granted was free, so it ended with a whole packet, as did
\* what left the input unit, which waits with a HEAD.
LEMMA VcGrantWorms ==
  ASSUME AllocInv, NEW passed \in Past, WormInv(passed),
         NEW in \in PortUnit, NEW vc \in VC, VcGrant(in, vc), UNCHANGED <<linkVars, nicVars>>
  PROVE  WormInv(passed)'
<1> DEFINE out == <<outPort[in], in[2], vc>>
<1>1. /\ inVcState[in] = "WAIT_VC" /\ outPort[in] \in Port /\ out \in PortUnit
      /\ outSrc[out] = None
  BY PortUnitFacts, NoneFacts
  DEF VcGrant, FreeVc, AllocInv, RequestsCurrent, VcOwnership, TypeOK, PortTypeOK, PortUnit
<1>2. /\ outVc' = [outVc EXCEPT ![in] = vc]
      /\ outSrc' = [outSrc EXCEPT ![out] = in]
      /\ UNCHANGED <<inVcState, outPort, inBuf, outBuf, wire, nicOutBuf, nicInBuf>>
      /\ outVc \in [PortUnit -> VC \cup {None}]
      /\ outSrc \in [PortUnit -> PortUnit \cup {None}]
  BY DEF VcGrant, linkVars, nicVars, AllocInv, TypeOK, PortTypeOK
<1> HIDE DEF out
<1>3. \A u \in Unit : Log(passed, u)' = Log(passed, u)
  BY <1>2, StreamsUnchanged, LogsUnchanged
<1>4. LogsAreWorms(passed)' /\ SourcesWhole(passed)' /\ LogsOnRoute(passed)' /\ ArrivedHome'
  BY <1>2, <1>3 DEF WormInv, LogsAreWorms, SourcesWhole, LogsOnRoute, ArrivedHome
<1>5. FreeOutputsWhole(passed)'
  BY <1>1, <1>2, <1>3, PortUnitFacts DEF WormInv, FreeOutputsWhole
<1>6. ASSUME NEW i \in PortUnit
      PROVE  InputAligned(passed, i)'
  <2>1. InputAligned(passed, i) /\ Current(passed, i)' = Current(passed, i)
    BY <1>2 DEF WormInv, InputsAligned, Current, Left
  <2>2. ASSUME outVc'[i] # None
        PROVE  Agree(Left(passed, i), Log(passed, Granted(i))')
    <3>1. CASE i = in
      <4>1. Granted(i)' = out
        BY <1>1, <1>2, <3>1 DEF Granted, out
      <4>2. Log(passed, Granted(i))' = Log(passed, out)
        BY <1>1, <1>3, <4>1, PortUnitFacts DEF Log
      <4>3. Whole(Log(passed, out))
        BY <1>1 DEF WormInv, FreeOutputsWhole
      <4>4. Whole(Left(passed, i))
        BY <1>1, <2>1, <3>1 DEF InputAligned
      <4>5. QED
        BY <4>2, <4>3, <4>4 DEF Agree
    <3>2. CASE i # in
      <4>1. outVc'[i] = outVc[i] /\ Granted(i)' = Granted(i)
        BY <1>2, <3>2 DEF Granted
      <4>2. Granted(i) \in Unit
        BY <2>2, <4>1, PortUnitFacts DEF AllocInv, VcOwnership
      <4>3. Log(passed, Granted(i))' = Log(passed, Granted(i))
        BY <1>3, <4>1, <4>2 DEF Log
      <4>4. QED
        BY <2>1, <2>2, <4>1, <4>3 DEF InputAligned
    <3>3. QED
      BY <3>1, <3>2
  <2>3. QED
    BY <1>2, <2>1, <2>2 DEF InputAligned, Left
<1>7. QED
  BY <1>4, <1>5, <1>6 DEF WormInv, InputsAligned

\* A flit crosses the crossbar: the output VC has taken exactly what has left the
\* input unit, so what may follow the one may follow the other.
LEMMA CrossbarTransferWorms ==
  ASSUME AllocInv, NEW passed \in Past, WormInv(passed),
         NEW p \in Port, CrossbarTransfer(p), UNCHANGED <<linkVars, nicVars>>
  PROVE  \E next \in Past : WormInv(next)' /\ Moved(passed, next)
<1>1. PICK in \in PortUnit, out \in PortUnit, f \in Flit, a \in Unit :
        /\ in = sendFrom[rcvFrom[p]] /\ out = rcvTo[p] /\ f = Head(inBuf[in]) /\ a = Far(in)
        /\ Streams[a] # <<>> /\ Head(Streams[a]) = f
        /\ Streams' = AddBack(TakeFront(Streams, a), out, f)
  BY CrossbarStreams
<1> DEFINE q == passed[a]
<1>2. /\ out = Granted(in) /\ outSrc[out] = in /\ outPort[in] = out[1]
      /\ inVcState[in] = "IN_ACTIVE" /\ outVc[in] # None /\ in # None /\ in[2] = out[2]
  BY <1>1, ConnectionFacts, PortUnitFacts DEF CrossbarTransfer, Granted
<1>3. /\ inBuf' = [inBuf EXCEPT ![in] = Tail(@)] /\ nicInBuf' = nicInBuf
      /\ \/ /\ ~IsTail(f)
            /\ UNCHANGED <<inVcState, outPort, outVc, outSrc>>
         \/ /\ IsTail(f)
            /\ outPort' = [outPort EXCEPT ![in] = None]
            /\ outVc' = [outVc EXCEPT ![in] = None]
            /\ outSrc' = [outSrc EXCEPT ![out] = None]
            /\ inVcState' = [inVcState EXCEPT ![in] = "IN_IDLE"]
  BY <1>1 DEF CrossbarTransfer, Releases, nicVars
<1>4. /\ TypeOK /\ inBuf \in [PortUnit -> Seq(Flit)]
      /\ inVcState \in [PortUnit -> {"IN_IDLE", "ROUTING", "WAIT_VC", "IN_ACTIVE"}]
      /\ outPort \in [PortUnit -> Port \cup {None}]
      /\ outVc \in [PortUnit -> VC \cup {None}]
      /\ outSrc \in [PortUnit -> PortUnit \cup {None}]
  BY DEF AllocInv, TypeOK, PortTypeOK
<1>5. /\ out \in Unit /\ out[1] \in Port /\ out[1] \notin Nic
      /\ Far(a) = in /\ Peer[a[1]] \notin Nic
  BY <1>1, PortUnitFacts, UnitFacts, LinkAssumption
<1>6. InputAligned(passed, in)
  BY <1>1 DEF WormInv, InputsAligned
<1>7. PICK next : next = AddBack(passed, a, f)
  OBVIOUS
<1>8. /\ next \in Past
      /\ \A u \in Unit : next[u] = IF u = a THEN Append(passed[u], f) ELSE passed[u]
      /\ \A u \in Unit :
           Log(next, u)' = IF u = out THEN Append(Log(passed, u), f) ELSE Log(passed, u)
  <2>1. /\ TypeOK /\ out \in Unit /\ Streams[a] # <<>> /\ Head(Streams[a]) = f
        /\ Streams' = AddBack(TakeFront(Streams, a), out, f) /\ next = AddBack(passed, a, f)
    BY <1>1, <1>4, <1>5, <1>7
  <2> HIDE DEF q
  <2>2. QED
    BY ONLY passed \in Past, a \in Unit, f \in Flit, <2>1, LogsMove
<1>9. q \in Seq(Flit) /\ (Whole(q) => IsHead(f)) /\ (~Whole(q) => Follows(Last(q), f))
  <2>1. Worm(q \o Streams[a]) /\ q \in Seq(Flit) /\ Streams[a] \in Seq(Flit)
    BY <1>1, <1>4, LogTypes DEF WormInv, LogsAreWorms, Log
  <2>2. QED
    BY <1>1, <2>1, WormCut
<1>10. Agree(q, Log(passed, out))
  BY <1>1, <1>2, <1>6 DEF InputAligned, Left
<1>11. /\ Log(passed, out) \in Seq(Flit) /\ Worm(Log(passed, out))
  BY <1>4, <1>5, LogTypes DEF WormInv, LogsAreWorms
\* The packet the flit belongs to is the one the input unit was routing.
<1>12. Current(passed, in) = f.pkt
  <2>1. CASE Whole(q)
    BY <1>1, <2>1 DEF Current, Left
  <2>2. CASE ~Whole(q)
    <3>1. q # <<>> /\ ~IsTail(Last(q)) /\ Follows(Last(q), f)
      BY <1>9, <2>2 DEF Whole
    <3>2. QED
      BY <1>1, <2>2, <3>1 DEF Current, Left, Follows
  <2>3. QED
    BY <2>1, <2>2
<1>13. /\ out[1] = Route[RouterOf[in[1]]][Dest[f.pkt]]
  BY <1>2, <1>6, <1>12 DEF InputAligned
<1>14. Worm(Append(Log(passed, out), f))
  BY <1>1, <1>9, <1>10, <1>11, WormAppend DEF Agree
<1>15. OnRoute(f, out)
  <2>1. OnRoute(f, a)
    <3>1. Len(q) + 1 \in 1 .. Len(Log(passed, a)) /\ Log(passed, a)[Len(q) + 1] = f
      BY <1>1, <1>4, LogFront
    <3>2. OnRoute(Log(passed, a)[Len(q) + 1], a)
      BY <1>1, <3>1 DEF WormInv, LogsOnRoute
    <3>3. QED
      BY <3>1, <3>2
  <2>2. a[2] = out[2]
    BY <1>1, <1>2, PortUnitFacts, UnitFacts
  <2>3. f.pkt \in Packet /\ Dest[f.pkt] \in Nic /\ RouterOf[in[1]] \in Router
    BY <1>1, PacketAssumption, TopologyAssumption, PortUnitFacts DEF Flit
  <2>4. QED
    BY <1>13, <2>1, <2>2, <2>3, LastHopAssumption DEF OnRoute
<1>16. LogsAreWorms(next)'
  BY <1>8, <1>14 DEF WormInv, LogsAreWorms
<1>17. SourcesWhole(next)'
  BY <1>5, <1>8 DEF WormInv, SourcesWhole
<1>18. LogsOnRoute(next)'
  <2>1. ASSUME NEW u \in Unit, NEW i \in 1 .. Len(Log(next, u)')
        PROVE  OnRoute(Log(next, u)'[i], u)
    <3>1. CASE u # out
      <4>1. Log(next, u)' = Log(passed, u)
        BY <1>8, <3>1
      <4>2. QED
        BY <2>1, <4>1 DEF WormInv, LogsOnRoute
    <3>2. CASE u = out
      <4> DEFINE s == Log(passed, out)
      <4>1. Log(next, u)' = Append(s, f) /\ s \in Seq(Flit)
        BY <1>8, <1>11, <3>2
      <4>2. \A j \in 1 .. Len(s) : OnRoute(s[j], out)
        BY <1>5 DEF WormInv, LogsOnRoute
      <4> HIDE DEF s
      <4>3. i \in 1 .. Len(s) + 1 /\ Len(s) \in Nat
        BY <1>1, <2>1, <4>1, AppendProperties, LenProperties
      <4>4. Append(s, f)[i] = IF i <= Len(s) THEN s[i] ELSE f
        BY <1>1, <4>1, <4>3, AppendProperties
      <4>5. QED
        BY <1>15, <3>2, <4>1, <4>2, <4>3, <4>4
    <3>3. QED
      BY <3>1, <3>2
  <2>2. QED
    BY <2>1 DEF LogsOnRoute, OnRoute
<1>19. ArrivedHome'
  BY <1>3 DEF WormInv, ArrivedHome
<1>20. FreeOutputsWhole(next)'
  <2>1. ASSUME NEW o \in PortUnit, outSrc'[o] = None
        PROVE  Whole(Log(next, o)')
    <3>1. CASE o = out
      <4>1. IsTail(f)
        BY <1>1, <1>2, <1>3, <2>1, <3>1
      <4>2. Log(next, o)' = Append(Log(passed, out), f)
        BY <1>5, <1>8, <3>1
      <4>3. QED
        BY <1>1, <1>11, <4>1, <4>2, WholeAppend
    <3>2. CASE o # out
      <4>1. outSrc[o] = None
        BY <1>3, <1>4, <2>1, <3>2
      <4>2. Log(next, o)' = Log(passed, o)
        BY <1>8, <3>2, PortUnitFacts
      <4>3. QED
        BY <4>1, <4>2 DEF WormInv, FreeOutputsWhole
    <3>3. QED
      BY <3>1, <3>2
  <2>2. QED
    BY <2>1 DEF FreeOutputsWhole
<1>21. InputsAligned(next)'
  <2>1. ASSUME NEW i \in PortUnit, i # in
        PROVE  InputAligned(next, i)'
    <3>1. Left(next, i) = Left(passed, i)
      <4>1. Far(i) \in Unit /\ Far(i) # a
        BY <1>5, <2>1, PortUnitFacts, UnitFacts
      <4>2. QED
        BY <1>8, <4>1 DEF Left
    <3>2. /\ inVcState'[i] = inVcState[i] /\ outPort'[i] = outPort[i] /\ outVc'[i] = outVc[i]
          /\ inBuf'[i] = inBuf[i]
      BY <1>3, <1>4, <2>1
    <3>3. InputAligned(passed, i)
      BY DEF WormInv, InputsAligned
    <3>4. Current(next, i)' = Current(passed, i)
      BY <3>1, <3>2 DEF Current, Left
    <3>5. ASSUME outVc'[i] # None
          PROVE  Agree(Left(next, i), Log(next, Granted(i))')
      <4>1. Granted(i)' = Granted(i)
        BY <3>2 DEF Granted
      <4>2. Granted(i) \in PortUnit /\ Granted(i) # out
        BY <1>2, <2>1, <3>2, <3>5 DEF AllocInv, VcOwnership
      <4>3. Log(next, Granted(i))' = Log(passed, Granted(i))
        BY <1>8, <4>1, <4>2, PortUnitFacts DEF Log
      <4>4. QED
        BY <3>1, <3>2, <3>3, <3>5, <4>3 DEF InputAligned
    <3>6. QED
      BY <3>1, <3>2, <3>3, <3>4, <3>5 DEF InputAligned, Left
  <2>2. InputAligned(next, in)'
    <3>1. /\ Left(next, in) = Append(q, f) /\ Left(next, in)' = Append(q, f)
      BY <1>1, <1>8 DEF Left
    <3>2. Last(Left(next, in)) = f /\ (Whole(Left(next, in)) <=> IsTail(f))
      BY <1>1, <1>9, <3>1, WholeAppend
    <3>3. CASE IsTail(f)
      <4>1. inVcState'[in] = "IN_IDLE" /\ outVc'[in] = None
        BY <1>1, <1>3, <1>4, <3>3
      <4>2. QED
        BY <3>1, <3>2, <3>3, <4>1 DEF InputAligned
    <3>4. CASE ~IsTail(f)
      <4>1. UNCHANGED <<inVcState, outPort, outVc, outSrc>>
        BY <1>3, <3>4
      <4>2. ~Whole(Left(next, in)) /\ Current(next, in)' = f.pkt
        BY <3>1, <3>2, <3>4 DEF Current, Left
      <4>3. Granted(in)' = out
        BY <1>2, <4>1 DEF Granted
      <4>4. Log(next, Granted(in))' = Append(Log(passed, out), f)
        BY <1>5, <1>8, <4>3 DEF Log
      <4>5. Agree(Left(next, in), Log(next, Granted(in))')
        BY <1>1, <1>11, <3>2, <3>4, <4>4, WholeAppend DEF Agree
      <4>6. QED
        BY <1>2, <1>13, <3>1, <4>1, <4>2, <4>5 DEF InputAligned, Left
    <3>5. QED
      BY <3>3, <3>4
  <2>3. QED
    BY <2>1, <2>2 DEF InputsAligned
<1>22. Moved(passed, next)
  <2>1. Peer[a[1]] = in[1] /\ a[2] = in[2]
    BY <1>1, PortUnitFacts, UnitFacts
  <2>2. UNCHANGED <<nicInBuf, sent>>
    BY DEF nicVars
  <2>3. QED
    BY <1>1, <1>2, <1>7, <1>13, <2>1, <2>2, PortUnitFacts DEF Moved
<1>23. QED
  BY <1>8, <1>22, <1>16, <1>17, <1>18, <1>19, <1>20, <1>21 DEF WormInv

\* A clock tick moves input units on: one that was idle works on the packet whose HEAD
\* is at its front, and none becomes idle.
LEMMA ClockTickWorms ==
  ASSUME AllocInv, NEW passed \in Past, WormInv(passed),
         NEW p \in Port, ClockTick(p), UNCHANGED nicVars
  PROVE  WormInv(passed)'
<1>1. /\ inVcState' = [u \in PortUnit |->
                         CASE u \in StartsRouting(p)      -> "ROUTING"
                           [] u \in InUnits(p, "ROUTING") -> "WAIT_VC"
                           [] u \in GotVc(p)              -> "IN_ACTIVE"
                           [] OTHER                       -> inVcState[u]]
      /\ outPort' = [u \in PortUnit |->
                       IF u \in StartsRouting(p)
                       THEN Route[RouterOf[p]][Dest[Head(inBuf[u]).pkt]]
                       ELSE outPort[u]]
      /\ UNCHANGED <<outVc, inBuf, outSrc, nicInBuf>>
  BY DEF ClockTick, InputPipeline, SendFlit, nicVars
<1>2. \A u \in Unit : Log(passed, u)' = Log(passed, u)
  BY PortStepStreams, LogsUnchanged
<1>3. LogsAreWorms(passed)' /\ SourcesWhole(passed)' /\ LogsOnRoute(passed)' /\ ArrivedHome'
  BY <1>1, <1>2 DEF WormInv, LogsAreWorms, SourcesWhole, LogsOnRoute, ArrivedHome
<1>4. FreeOutputsWhole(passed)'
  BY <1>1, <1>2, PortUnitFacts DEF WormInv, FreeOutputsWhole
<1>5. ASSUME NEW i \in PortUnit
      PROVE  InputAligned(passed, i)'
  <2>1. /\ InputAligned(passed, i) /\ Current(passed, i)' = Current(passed, i)
        /\ Left(passed, i)' = Left(passed, i)
    BY <1>1 DEF WormInv, InputsAligned, Current, Left
  <2>2. /\ i \in StartsRouting(p) <=> i[1] = p /\ inVcState[i] = "IN_IDLE" /\ inBuf[i] # <<>>
        /\ i \in InUnits(p, "ROUTING") <=> i[1] = p /\ inVcState[i] = "ROUTING"
        /\ i \in GotVc(p) <=> i[1] = p /\ inVcState[i] = "WAIT_VC" /\ outVc[i] # None
    BY PortUnitFacts DEF StartsRouting, InUnits, GotVc, UnitsOf
  <2>3. ASSUME outVc'[i] # None
        PROVE  Agree(Left(passed, i), Log(passed, Granted(i))')
    <3>1. outVc[i] # None /\ i \notin StartsRouting(p)
      BY <1>1, <2>2, <2>3 DEF AllocInv, RequestsCurrent
    <3>2. Granted(i)' = Granted(i)
      BY <1>1, <3>1 DEF Granted
    <3>3. Granted(i) \in Unit
      BY <3>1, PortUnitFacts DEF AllocInv, VcOwnership
    <3>4. Log(passed, Granted(i))' = Log(passed, Granted(i))
      BY <1>2, <3>2, <3>3 DEF Log
    <3>5. QED
      BY <2>1, <3>1, <3>4 DEF InputAligned
  <2>4. /\ inVcState'[i] # "IN_ACTIVE" => Whole(Left(passed, i))
        /\ inVcState'[i] # "IN_IDLE" /\ Whole(Left(passed, i)) => inBuf'[i] # <<>>
        /\ inVcState'[i] # "IN_IDLE" =>
             outPort'[i] = Route[RouterOf[i[1]]][Dest[Current(passed, i)]]
    <3>1. CASE i \in StartsRouting(p)
      <4>1. /\ inVcState'[i] = "ROUTING" /\ i[1] = p /\ inBuf'[i] # <<>>
            /\ outPort'[i] = Route[RouterOf[p]][Dest[Head(inBuf[i]).pkt]]
        BY <1>1, <2>2, <3>1
      <4>2. Whole(Left(passed, i)) /\ Current(passed, i) = Head(inBuf[i]).pkt
        BY <2>1, <2>2, <3>1 DEF InputAligned, Current
      <4>3. QED
        BY <4>1, <4>2
    <3>2. CASE i \notin StartsRouting(p)
      <4>1. outPort'[i] = outPort[i] /\ inBuf'[i] = inBuf[i]
        BY <1>1, <3>2
      <4>2. \/ i \in InUnits(p, "ROUTING") /\ inVcState'[i] = "WAIT_VC"
            \/ i \in GotVc(p) /\ inVcState'[i] = "IN_ACTIVE"
            \/ inVcState'[i] = inVcState[i]
        BY <1>1, <3>2
      <4>3. QED
        BY <2>1, <2>2, <4>1, <4>2 DEF InputAligned
    <3>3. QED
      BY <3>1, <3>2
  <2>5. QED
    BY <2>1, <2>3, <2>4 DEF InputAligned
<1>6. QED
  BY <1>3, <1>4, <1>5 DEF WormInv, InputsAligned

\* Everything but the streams and the queues of requests: what a step of a NIC or a
\* link leaves alone.
LEMMA InputsKept ==
  ASSUME AllocInv, NEW passed \in Past, WormInv(passed), NEW next \in Past,
         UNCHANGED <<inVcState, outPort, outVc, outSrc>>,
         \A i \in PortUnit : inBuf[i] # <<>> => inBuf'[i] # <<>> /\ Head(inBuf'[i]) = Head(inBuf[i]),
         \A i \in PortUnit : Left(next, i) = Left(passed, i),
         \A o \in PortUnit : Log(next, o)' = Log(passed, o)
  PROVE  InputsAligned(next)' /\ FreeOutputsWhole(next)'
<1>1. FreeOutputsWhole(next)'
  BY DEF WormInv, FreeOutputsWhole
<1>2. ASSUME NEW i \in PortUnit
      PROVE  InputAligned(next, i)'
  <2>1. InputAligned(passed, i) /\ Left(next, i) = Left(passed, i) /\ Left(next, i)' = Left(next, i)
    BY DEF WormInv, InputsAligned, Left
  <2>2. inVcState[i] # "IN_IDLE" => Current(next, i)' = Current(passed, i)
    BY <2>1 DEF InputAligned, Current
  <2>3. ASSUME outVc'[i] # None
        PROVE  Agree(Left(next, i), Log(next, Granted(i))')
    <3>1. outVc[i] # None /\ Granted(i)' = Granted(i) /\ Granted(i) \in PortUnit
      BY <2>3 DEF AllocInv, VcOwnership, Granted
    <3>2. Log(next, Granted(i))' = Log(passed, Granted(i))
      BY <3>1 DEF Log
    <3>3. QED
      BY <2>1, <3>1, <3>2 DEF InputAligned
  <2>4. QED
    BY <2>1, <2>2, <2>3 DEF InputAligned
<1>3. QED
  BY <1>1, <1>2 DEF InputsAligned

\* A packet is put on the stream of its NIC in one piece.
LEMMA SendWorms ==
  ASSUME AllocInv, NEW passed \in Past, WormInv(passed),
         NEW k \in Packet, Send(k), UNCHANGED portVars
  PROVE  WormInv(passed)'
<1> DEFINE a == <<Src[k], PktVn[k], 0>>
           s == Log(passed, a)
<1>1. /\ a \in Unit /\ Streams' = AddAll(Streams, a, FlitsOf(k))
      /\ nicInBuf' = nicInBuf
  BY SendStreams DEF Send
<1>2. /\ a[1] \in Nic /\ a[1] \notin Port /\ Peer[a[1]] \notin Nic /\ a[2] = PktVn[k]
      /\ FlitsOf(k) \in Seq(Flit) /\ TypeOK
  BY PacketAssumption, LinkAssumption, FlitsOfFacts DEF AllocInv
<1>3. s \in Seq(Flit) /\ Worm(s) /\ Whole(s)
  BY <1>1, <1>2, LogTypes DEF WormInv, LogsAreWorms, SourcesWhole
<1>4. \A u \in Unit :
        Log(passed, u)' = IF u = a THEN s \o FlitsOf(k) ELSE Log(passed, u)
  <2> HIDE DEF a
  <2>1. QED
    BY <1>1, <1>2, LogsAdd
<1>5. Worm(s \o FlitsOf(k)) /\ Whole(s \o FlitsOf(k))
  BY <1>3, WormPacket
<1> HIDE DEF a, s
<1>6. LogsAreWorms(passed)' /\ SourcesWhole(passed)'
  BY <1>4, <1>5 DEF WormInv, LogsAreWorms, SourcesWhole
<1>7. LogsOnRoute(passed)'
  <2>1. ASSUME NEW u \in Unit, NEW i \in 1 .. Len(Log(passed, u)')
        PROVE  OnRoute(Log(passed, u)'[i], u)
    <3>1. CASE u # a
      <4>1. Log(passed, u)' = Log(passed, u)
        BY <1>4, <3>1
      <4>2. QED
        BY <2>1, <4>1 DEF WormInv, LogsOnRoute
    <3>2. CASE u = a
      <4> DEFINE t == FlitsOf(k)
      <4>1. Log(passed, u)' = s \o t /\ t \in Seq(Flit)
        BY <1>2, <1>4, <3>2
      <4>2. \A j \in 1 .. Len(t) : t[j].pkt = k
        BY FlitsOfFacts DEF FlitsOf
      <4>3. \A j \in 1 .. Len(s) : OnRoute(s[j], a)
        BY <1>1 DEF WormInv, LogsOnRoute, s
      <4> HIDE DEF t
      <4>4. \/ i \in 1 .. Len(s) /\ (s \o t)[i] = s[i]
            \/ i - Len(s) \in 1 .. Len(t) /\ (s \o t)[i] = t[i - Len(s)]
        BY <1>3, <2>1, <4>1, InConcat
      <4>5. OnRoute((s \o t)[i], a)
        BY <1>2, <4>2, <4>3, <4>4 DEF OnRoute
      <4>6. QED
        BY <3>2, <4>1, <4>5
    <3>3. QED
      BY <3>1, <3>2
  <2>2. QED
    BY <2>1 DEF LogsOnRoute, OnRoute
<1>8. InputsAligned(passed)' /\ FreeOutputsWhole(passed)'
  <2>1. \A o \in PortUnit : Log(passed, o)' = Log(passed, o)
    BY <1>2, <1>4, PortUnitFacts
  <2>2. UNCHANGED <<inVcState, outPort, outVc, outSrc, inBuf>>
    BY DEF portVars, inVars, outVars
  <2>3. QED
    BY <2>1, <2>2, InputsKept
<1>9. QED
  BY <1>1, <1>6, <1>7, <1>8 DEF WormInv, ArrivedHome

LEMMA DeliverToPortWorms ==
  ASSUME AllocInv, NEW passed \in Past, WormInv(passed),
         NEW u \in Unit, DeliverFlit(u), Peer[u[1]] \in Port
  PROVE  WormInv(passed)'
<1>1. /\ inBuf' = [inBuf EXCEPT ![Far(u)] = Append(@, Head(wire[u]))]
      /\ UNCHANGED <<inVcState, outPort, outVc, outSrc, nicInBuf>>
      /\ Streams' = Streams
  BY DeliverToPortStreams DEF outVars, nicVars
<1>2. \A v \in Unit : Log(passed, v)' = Log(passed, v)
  BY <1>1, LogsUnchanged
<1>3. LogsAreWorms(passed)' /\ SourcesWhole(passed)' /\ LogsOnRoute(passed)' /\ ArrivedHome'
  BY <1>1, <1>2 DEF WormInv, LogsAreWorms, SourcesWhole, LogsOnRoute, ArrivedHome
<1>4. Head(wire[u]) \in Flit
  BY HeadTailProperties DEF DeliverFlit, AllocInv, TypeOK, LinkTypeOK
<1>5. ASSUME NEW i \in PortUnit, inBuf[i] # <<>>
      PROVE  inBuf'[i] # <<>> /\ Head(inBuf'[i]) = Head(inBuf[i])
  <2>1. inBuf[i] \in Seq(Flit) /\ inBuf \in [PortUnit -> Seq(Flit)]
    BY DEF AllocInv, TypeOK, PortTypeOK
  <2>2. inBuf'[i] = inBuf[i] \/ inBuf'[i] = Append(inBuf[i], Head(wire[u]))
    BY <1>1, <2>1
  <2>3. /\ Append(inBuf[i], Head(wire[u])) # <<>>
        /\ Head(Append(inBuf[i], Head(wire[u]))) = Head(inBuf[i])
    BY <1>4, <1>5, <2>1, HeadTailAppend, AppendProperties
  <2>4. QED
    BY <1>5, <2>2, <2>3
<1>6. InputsAligned(passed)' /\ FreeOutputsWhole(passed)'
  BY <1>1, <1>2, <1>5, InputsKept, PortUnitFacts DEF Left
<1>7. QED
  BY <1>3, <1>6 DEF WormInv

\* A NIC takes the next flit of its stream; the TAIL hands over a request that is for it.
LEMMA DeliverToNicWorms ==
  ASSUME AllocInv, NEW passed \in Past, WormInv(passed),
         NEW u \in Unit, DeliverFlit(u), Peer[u[1]] \in Nic
  PROVE  \E next \in Past : WormInv(next)' /\ Dropped(passed, next)
<1>1. PICK f \in Flit :
        /\ f = Head(wire[u]) /\ UNCHANGED <<portVars, sent>>
        /\ Streams[u] # <<>> /\ Head(Streams[u]) = f
        /\ <<Peer[u[1]], u[2]>> \in NicVn
        /\ nicInBuf' = IF IsTail(f)
                       THEN [nicInBuf EXCEPT ![<<Peer[u[1]], u[2]>>] = Append(@, f.pkt)]
                       ELSE nicInBuf
        /\ Streams' = TakeFront(Streams, u)
  BY DeliverToNicStreams
<1>2. /\ TypeOK /\ nicInBuf \in [NicVn -> Seq(Packet)] /\ f.pkt \in Packet
  BY DEF AllocInv, TypeOK, NicTypeOK, Flit
<1>3. PICK next : next = AddBack(passed, u, f)
  OBVIOUS
<1>4. /\ next \in Past
      /\ \A v \in Unit : next[v] = IF v = u THEN Append(passed[v], f) ELSE passed[v]
      /\ \A v \in Unit : Log(next, v)' = Log(passed, v)
  BY <1>1, <1>2, <1>3, LogsDrop
<1>5. LogsAreWorms(next)' /\ SourcesWhole(next)' /\ LogsOnRoute(next)'
  BY <1>4 DEF WormInv, LogsAreWorms, SourcesWhole, LogsOnRoute
<1>6. InputsAligned(next)' /\ FreeOutputsWhole(next)'
  <2>1. UNCHANGED <<inVcState, outPort, outVc, outSrc, inBuf>>
    BY <1>1 DEF portVars, inVars, outVars
  <2>2. ASSUME NEW i \in PortUnit
        PROVE  Left(next, i) = Left(passed, i)
    <3>1. Far(i) \in Unit /\ Peer[Far(i)[1]] \in Port /\ Far(i) # u
      BY PortUnitFacts, UnitFacts, LinkAssumption
    <3>2. QED
      BY <1>4, <3>1 DEF Left
  <2>3. \A o \in PortUnit : Log(next, o)' = Log(passed, o)
    BY <1>4, PortUnitFacts
  <2>4. QED
    BY <1>4, <2>1, <2>2, <2>3, InputsKept
<1>7. ArrivedHome'
  <2> DEFINE x == <<Peer[u[1]], u[2]>>
  <2>1. OnRoute(f, u)
    <3>1. PICK n \in 1 .. Len(Log(passed, u)) : Log(passed, u)[n] = f
      BY <1>1, <1>2, LogFront
    <3>2. QED
      BY <3>1 DEF WormInv, LogsOnRoute
  <2>2. Dest[f.pkt] = x[1] /\ PktVn[f.pkt] = x[2]
    BY <2>1 DEF OnRoute
  <2>3. ASSUME NEW y \in NicVn, NEW i \in 1 .. Len(nicInBuf'[y])
        PROVE  Dest[nicInBuf'[y][i]] = y[1] /\ PktVn[nicInBuf'[y][i]] = y[2]
    <3>1. CASE nicInBuf'[y] = nicInBuf[y]
      BY <2>3, <3>1 DEF WormInv, ArrivedHome
    <3>2. CASE nicInBuf'[y] # nicInBuf[y]
      <4>1. y = x /\ nicInBuf'[y] = Append(nicInBuf[y], f.pkt)
        BY <1>1, <1>2, <3>2
      <4>2. \/ i \in 1 .. Len(nicInBuf[y]) /\ nicInBuf'[y][i] = nicInBuf[y][i]
            \/ nicInBuf'[y][i] = f.pkt
        BY <1>2, <2>3, <4>1, InAppend
      <4>3. QED
        BY <2>2, <4>1, <4>2 DEF WormInv, ArrivedHome
    <3>3. QED
      BY <3>1, <3>2
  <2>4. QED
    BY <2>3 DEF ArrivedHome
<1>8. Dropped(passed, next)
  BY <1>1, <1>3 DEF Dropped
<1>9. QED
  BY <1>4, <1>5, <1>6, <1>7, <1>8 DEF WormInv

-----------------------------------------------------------------------------
(* The invariant.                                                          *)

WormsInv == \E passed \in Past : WormInv(passed)

\* At first nothing is on a stream and nothing has left one.
LEMMA InitWorms ==
  ASSUME Init
  PROVE  /\ \A u \in Unit : Streams[u] = <<>>
         /\ \E passed \in Past : WormInv(passed) /\ \A u \in Unit : passed[u] = <<>>
<1>1. PICK passed \in Past : \A u \in Unit : passed[u] = <<>>
  <2> DEFINE none == [u \in Unit |-> <<>>]
  <2>1. none \in Past /\ \A u \in Unit : none[u] = <<>>
    BY DEF Past
  <2>2. QED
    BY <2>1
<1>2. ASSUME NEW u \in Unit
      PROVE  Streams[u] = <<>> /\ Log(passed, u) = <<>>
  <2>1. wire[u] = <<>> /\ Received(u) = <<>> /\ Waiting(u) = <<>>
    BY PartUnits, UnitFacts DEF Init, LinkInit, PortInit, NicInit, Received, Waiting
  <2>2. QED
    BY <1>1, <2>1, StreamParts DEF Log
<1>3. Worm(<<>>) /\ Whole(<<>>)
  BY DEF Worm, Whole
<1>4. LogsAreWorms(passed) /\ SourcesWhole(passed) /\ LogsOnRoute(passed)
      /\ FreeOutputsWhole(passed)
  BY <1>2, <1>3, PortUnitFacts
  DEF LogsAreWorms, SourcesWhole, LogsOnRoute, FreeOutputsWhole
<1>5. ArrivedHome
  BY DEF Init, NicInit, ArrivedHome
<1>6. InputsAligned(passed)
  <2>1. ASSUME NEW i \in PortUnit
        PROVE  InputAligned(passed, i)
    <3>1. inVcState[i] = "IN_IDLE" /\ outVc[i] = None /\ Left(passed, i) = <<>>
      BY <1>1, PortUnitFacts, UnitFacts DEF Init, PortInit, Left
    <3>2. QED
      BY <1>3, <3>1 DEF InputAligned
  <2>2. QED
    BY <2>1 DEF InputsAligned
<1>7. QED
  BY <1>1, <1>2, <1>4, <1>5, <1>6 DEF WormInv

\* Every step keeps the invariant, and does one of the four things to the past.
LEMMA WormSteps ==
  ASSUME AllocInv, NEW passed \in Past, WormInv(passed), [Next]_vars
  PROVE  \E next \in Past : WormInv(next)' /\ PastStep(passed, next)
<1>1. SUFFICES \/ WormInv(passed)' /\ Kept(passed, passed)
               \/ \E next \in Past : WormInv(next)' /\ Moved(passed, next)
               \/ \E next \in Past : WormInv(next)' /\ Dropped(passed, next)
               \/ WormInv(passed)' /\ Added(passed, passed)
  BY DEF PastStep
<1>2. CASE RouterStep
  <2>1. UNCHANGED nicVars /\ UNCHANGED linkVars
    BY <1>2 DEF RouterStep
  <2>2. ASSUME NEW p \in Port, CrossbarTransfer(p)
        PROVE  \E next \in Past : WormInv(next)' /\ Moved(passed, next)
    BY <2>1, <2>2, CrossbarTransferWorms
  <2>3. ASSUME NEW in \in PortUnit, SwitchGrant(in)
        PROVE  WormInv(passed)' /\ Kept(passed, passed)
    BY <2>1, <2>3, StreamsUnchanged, WormsUnchanged
    DEF SwitchGrant, linkVars, nicVars, inVars, outVars, Kept
  <2>4. ASSUME NEW in \in PortUnit, NEW vc \in VC, VcGrant(in, vc)
        PROVE  WormInv(passed)' /\ Kept(passed, passed)
    BY <2>1, <2>4, StreamsUnchanged, VcGrantWorms DEF VcGrant, linkVars, nicVars, Kept
  <2>5. QED
    BY <1>2, <2>2, <2>3, <2>4 DEF RouterStep
<1>3. CASE PortStep
  <2>1. PICK p \in Port : ClockTick(p) /\ UNCHANGED nicVars
    BY <1>3 DEF PortStep
  <2>2. WormInv(passed)' /\ Kept(passed, passed)
    BY <2>1, ClockTickWorms, PortStepStreams DEF nicVars, Kept
  <2>3. QED
    BY <2>2
<1>4. CASE NicStep
  <2>1. UNCHANGED portVars
    BY <1>4 DEF NicStep
  <2>2. ASSUME NEW k \in Packet, Send(k)
        PROVE  WormInv(passed)' /\ Added(passed, passed)
    <3>1. WormInv(passed)'
      BY <2>1, <2>2, SendWorms
    <3>2. Streams' = AddAll(Streams, <<Src[k], PktVn[k], 0>>, FlitsOf(k))
      BY <2>1, <2>2, SendStreams
    <3>3. /\ ~WasSent(k) /\ sent' = [sent EXCEPT ![Src[k]] = Append(@, k)]
          /\ UNCHANGED nicInBuf
      BY <2>2 DEF Send
    <3>4. QED
      BY <3>1, <3>2, <3>3 DEF Added
  <2>3. ASSUME NEW n \in Nic, NicSendFlits(n)
        PROVE  WormInv(passed)' /\ Kept(passed, passed)
    BY <2>1, <2>3, NicSendStreams, WormsUnchanged
    DEF NicSendFlits, portVars, inVars, outVars, Kept
  <2>4. ASSUME NEW n \in Nic, NicReturnCredit(n)
        PROVE  WormInv(passed)' /\ Kept(passed, passed)
    BY <2>1, <2>4, StreamsUnchanged, WormsUnchanged
    DEF NicReturnCredit, portVars, inVars, outVars, Kept
  <2>5. QED
    BY <1>4, <2>2, <2>3, <2>4 DEF NicStep, NicClockTick
<1>5. CASE LinkStep
  <2>1. ASSUME NEW u \in Unit, DeliverFlit(u), Peer[u[1]] \in Port
        PROVE  WormInv(passed)' /\ Kept(passed, passed)
    BY <2>1, DeliverToPortWorms, DeliverToPortStreams DEF nicVars, Kept
  <2>2. ASSUME NEW u \in Unit, DeliverFlit(u), Peer[u[1]] \in Nic
        PROVE  \E next \in Past : WormInv(next)' /\ Dropped(passed, next)
    BY <2>2, DeliverToNicWorms
  <2>3. ASSUME NEW u \in Unit, DeliverCredit(u)
        PROVE  WormInv(passed)' /\ Kept(passed, passed)
    <3>1. UNCHANGED <<inVcState, outPort, outVc, inBuf, outSrc, nicInBuf, sent,
                      wire, outBuf, nicOutBuf>>
      BY <2>3 DEF DeliverCredit, PortReceiveCredit, NicReceiveCredit,
                  portVars, inVars, outVars, nicVars
    <3>2. QED
      BY <3>1, StreamsUnchanged, WormsUnchanged DEF Kept
  <2>4. QED
    BY <1>5, <2>1, <2>2, <2>3, PartUnits DEF LinkStep
<1>6. CASE UNCHANGED vars
  <2>1. WormInv(passed)' /\ Kept(passed, passed)
    BY <1>6, StreamsUnchanged, WormsUnchanged
    DEF vars, linkVars, portVars, nicVars, inVars, outVars, Kept
  <2>2. QED
    BY <2>1
<1>7. QED
  BY <1>2, <1>3, <1>4, <1>5, <1>6 DEF Next

LEMMA NextWormsInv == AllocInv /\ WormsInv /\ [Next]_vars => WormsInv'
BY WormSteps DEF WormsInv

LEMMA WormInvariant == Spec => [](AllocInv /\ WormsInv)
<1>1. Init => WormsInv
  BY InitWorms DEF WormsInv
<1>2. AllocInv /\ WormsInv /\ [Next]_vars => WormsInv'
  BY NextWormsInv
<1>3. QED
  BY <1>1, <1>2, AllocInvariant, PTL DEF Spec

-----------------------------------------------------------------------------
(* What it is for.                                                         *)

LEMMA WormsDoNotMix == AllocInv /\ WormsInv => NoInterleaving
<1> SUFFICES ASSUME AllocInv, WormsInv, NEW u \in Unit, NEW i \in 1 .. Len(Stream(u)) - 1
             PROVE  Follows(Stream(u)[i], Stream(u)[i + 1])
  BY DEF NoInterleaving
<1>1. PICK passed \in Past : WormInv(passed)
  BY DEF WormsInv
<1> DEFINE q == passed[u]
           s == Stream(u)
           n == Len(q)
<1>2. q \in Seq(Flit) /\ s \in Seq(Flit) /\ Log(passed, u) = q \o s /\ Worm(q \o s)
  BY <1>1, LogTypes DEF AllocInv, Streams, Log, WormInv, LogsAreWorms
<1>3. i \in 1 .. Len(s) - 1
  OBVIOUS
<1> HIDE DEF q, s
<1>4. /\ n \in Nat /\ Len(s) \in Nat /\ Len(q \o s) = n + Len(s)
      /\ \A j \in 1 .. n + Len(s) : (q \o s)[j] = IF j <= n THEN q[j] ELSE s[j - n]
  BY <1>2, ConcatProperties, LenProperties
<1> DEFINE w == q \o s
<1>5. Worm(w) /\ Len(w) = n + Len(s)
      /\ \A j \in 1 .. n + Len(s) : w[j] = IF j <= n THEN q[j] ELSE s[j - n]
  BY <1>2, <1>4
<1> HIDE DEF w, n
<1>6. /\ n + i \in 1 .. Len(w) - 1 /\ ~(n + i <= n) /\ ~(n + i + 1 <= n)
      /\ (n + i) - n = i /\ (n + i + 1) - n = i + 1
      /\ n + i \in 1 .. n + Len(s) /\ n + i + 1 \in 1 .. n + Len(s)
  BY <1>3, <1>4, <1>5
<1>7. w[n + i] = s[i] /\ w[n + i + 1] = s[i + 1]
  BY <1>5, <1>6
<1>8. Follows(w[n + i], w[n + i + 1])
  BY <1>5, <1>6 DEF Worm
<1>9. QED
  BY <1>7, <1>8 DEF s

LEMMA WormsAreNeverFatal == AllocInv /\ WormsInv => NoFatal
<1> SUFFICES ASSUME AllocInv, WormsInv PROVE NoFatal
  OBVIOUS
<1>1. PICK passed \in Past : WormInv(passed)
  BY DEF WormsInv
<1>2. ASSUME NEW u \in PortUnit
      PROVE  /\ inVcState[u] = "IN_IDLE" /\ inBuf[u] # <<>> => IsHead(Head(inBuf[u]))
             /\ inVcState[u] = "IN_IDLE" => u \notin needVcAlloc
             /\ inVcState[u] \in {"ROUTING", "WAIT_VC"} => inBuf[u] # <<>>
  <2>1. InputAligned(passed, u)
    BY <1>1 DEF WormInv, InputsAligned
  <2>2. ASSUME inVcState[u] = "IN_IDLE", inBuf[u] # <<>>
        PROVE  IsHead(Head(inBuf[u]))
    <3>1. /\ Far(u) \in Unit /\ Streams[Far(u)] # <<>>
          /\ Head(Streams[Far(u)]) = Head(inBuf[u])
      BY <2>2, FrontFlit DEF AllocInv
    <3>2. /\ Left(passed, u) \in Seq(Flit) /\ Streams[Far(u)] \in Seq(Flit)
          /\ Worm(Left(passed, u) \o Streams[Far(u)])
      BY <1>1, <3>1, LogTypes DEF AllocInv, WormInv, LogsAreWorms, Log, Left
    <3>3. Whole(Left(passed, u))
      BY <2>1, <2>2 DEF InputAligned
    <3>4. QED
      BY <3>1, <3>2, <3>3, WormCut
  <2>3. inVcState[u] = "IN_IDLE" => u \notin needVcAlloc
    BY DEF AllocInv, RequestsCurrent
  <2>4. inVcState[u] \in {"ROUTING", "WAIT_VC"} => inBuf[u] # <<>>
    BY <2>1 DEF InputAligned
  <2>5. QED
    BY <2>2, <2>3, <2>4
<1>3. ASSUME NEW in \in needSwitchAlloc
      PROVE  outSrc[Granted(in)] \in UnitsOf(in[1])
  <2>1. in \in PortUnit
    BY DEF AllocInv, TypeOK, PortTypeOK
  <2>2. outVc[in] # None
    BY <2>1 DEF AllocInv, RequestsCurrent
  <2>3. outSrc[Granted(in)] = in
    BY <2>1, <2>2 DEF AllocInv, VcOwnership
  <2>4. QED
    BY <2>1, <2>3, PortUnitFacts DEF UnitsOf
<1>4. QED
  BY <1>1, <1>2, <1>3 DEF NoFatal, WormInv, ArrivedHome

\* Packets are never mixed on a virtual channel, however the ports, crossbars and
\* allocators of all routers interleave: the TAIL releases the output VC and the
\* crossbar before another packet can be granted either.
THEOREM WormholesIntact == Spec => []NoInterleaving
BY WormInvariant, WormsDoNotMix, PTL

\* The checks ClockTick, the crossbar and recv() make with output->fatal never fail:
\* an idle input unit only ever sees a HEAD, a port that has the crossbar asked for it
\* has the output VC, no stage looks at an empty queue, and every request reaches the
\* NIC it is for.
THEOREM NeverFatal == Spec => []NoFatal
BY WormInvariant, WormsAreNeverFatal, PTL

-----------------------------------------------------------------------------
(***************************************************************************)
(* Delivery: every flit of a packet that was sent is in exactly one place  *)
(* until the NIC at the end takes it, in the order of the packet, and its  *)
(* request is handed over once.  gone[k] counts the flits of packet k that *)
(* were taken; like the past of the streams it is no part of the state.    *)
(***************************************************************************)

\* The sequences T[u], u \in U, hold each element of P in one place, and nothing else.
OnceEach(U, T, P) ==
  /\ \A u \in U : \A i \in 1 .. Len(T[u]) : T[u][i] \in P
  /\ \A f \in P : \E u \in U : \E i \in 1 .. Len(T[u]) : T[u][i] = f
  /\ \A u, v \in U : \A i \in 1 .. Len(T[u]), j \in 1 .. Len(T[v]) :
       T[u][i] = T[v][j] => u = v /\ i = j

\* The flits still in the network, and the packets all of whose flits were taken.
InNetwork(gone) == {f \in Flit : WasSent(f.pkt) /\ f.id >= gone[f.pkt]}
Complete(gone)  == {k \in Packet : gone[k] = NumFlits[k]}

DeliveryInv(passed, gone) ==
  /\ OnceEach(Unit, Streams, InNetwork(gone))
  /\ OnceEach(NicVn, nicInBuf, Complete(gone))
  /\ \A k \in Packet : gone[k] <= NumFlits[k] /\ (~WasSent(k) => gone[k] = 0)
  /\ \A u \in Unit : Peer[u[1]] \in Nic =>
       \A i \in 1 .. Len(passed[u]) : passed[u][i].id < gone[passed[u][i].pkt]

-----------------------------------------------------------------------------
(* Flits in one place each.                                                *)

LEMMA TakeOne ==
  ASSUME NEW U, NEW E, NEW T \in [U -> Seq(E)], NEW P, OnceEach(U, T, P),
         NEW a \in U, T[a] # <<>>
  PROVE  /\ Head(T[a]) \in P /\ Head(T[a]) \in E
         /\ OnceEach(U, [T EXCEPT ![a] = Tail(@)], P \ {Head(T[a])})
         /\ [T EXCEPT ![a] = Tail(@)] \in [U -> Seq(E)]
<1> DEFINE f == Head(T[a])
           N == [T EXCEPT ![a] = Tail(@)]
<1>1. \A u \in U : T[u] \in Seq(E) /\ Len(T[u]) \in Nat
  BY LenProperties 
<1>2. /\ f \in E /\ f = T[a][1] /\ Len(T[a]) >= 1 /\ 1 \in 1 .. Len(T[a])
      /\ Tail(T[a]) \in Seq(E) /\ Len(Tail(T[a])) = Len(T[a]) - 1
      /\ \A i \in 1 .. Len(T[a]) - 1 : Tail(T[a])[i] = T[a][i + 1]
  BY <1>1, HeadTailProperties, EmptySeq
<1>3. N \in [U -> Seq(E)]
  BY <1>1, <1>2
<1> DEFINE m == Len(T[a])
<1>5. /\ m \in Nat /\ m >= 1 /\ Len(N[a]) = m - 1 /\ f = T[a][1]
      /\ \A i \in 1 .. m - 1 : N[a][i] = T[a][i + 1]
      /\ \A u \in U : u # a => N[u] = T[u]
  <2>1. N[a] = Tail(T[a]) /\ \A u \in U : u # a => N[u] = T[u]
    OBVIOUS
  <2>2. QED
    BY <1>1, <1>2, <2>1
<1> HIDE DEF f, m, N
<1>6. ASSUME NEW u \in U, NEW i \in 1 .. Len(N[u])
      PROVE  \/ u # a /\ i \in 1 .. Len(T[u]) /\ N[u][i] = T[u][i]
             \/ u = a /\ i \in Nat \ {0} /\ i + 1 \in 1 .. m /\ N[u][i] = T[u][i + 1]
  <2>1. CASE u # a
    BY <1>5, <2>1
  <2>2. CASE u = a
    BY <1>5, <2>2
  <2>3. QED
    BY <2>1, <2>2
<1>7. f \in P
  BY <1>2 DEF OnceEach
<1>8. ASSUME NEW u \in U, NEW i \in 1 .. Len(N[u])
      PROVE  N[u][i] \in P \ {f}
  <2>1. PICK j \in 1 .. Len(T[u]) : N[u][i] = T[u][j] /\ ~(u = a /\ j = 1)
    <3>1. CASE u # a
      BY <1>6, <3>1
    <3>2. CASE u = a
      <4>1. i \in Nat \ {0} /\ i + 1 \in 1 .. Len(T[u]) /\ N[u][i] = T[u][i + 1]
        BY <1>6, <3>2 DEF m
      <4>2. i + 1 # 1
        BY <4>1
      <4>3. QED
        BY <4>1, <4>2
    <3>3. QED
      BY <3>1, <3>2
  <2>2. QED
    BY <1>2, <1>5, <2>1 DEF OnceEach
<1>9. ASSUME NEW g \in P \ {f}
      PROVE  \E u \in U : \E i \in 1 .. Len(N[u]) : N[u][i] = g
  <2>1. PICK u \in U : \E i \in 1 .. Len(T[u]) : T[u][i] = g
    BY DEF OnceEach
  <2>2. PICK i \in 1 .. Len(T[u]) : T[u][i] = g
    BY <2>1
  <2>3. CASE u # a
    BY <1>5, <2>2, <2>3
  <2>4. CASE u = a
    <3>1. i # 1 /\ i \in 1 .. m
      BY <1>5, <1>9, <2>2, <2>4 DEF m
    <3>2. i - 1 \in 1 .. m - 1 /\ (i - 1) + 1 = i
      BY <1>5, <3>1
    <3>3. i - 1 \in 1 .. Len(N[a]) /\ N[a][i - 1] = T[a][i]
      BY <1>5, <3>2
    <3>4. QED
      BY <2>2, <2>4, <3>3
  <2>5. QED
    BY <2>3, <2>4
<1>10. ASSUME NEW u \in U, NEW v \in U, NEW i \in 1 .. Len(N[u]), NEW j \in 1 .. Len(N[v]),
              N[u][i] = N[v][j]
       PROVE  u = v /\ i = j
  <2>1. CASE u = a /\ v = a
    <3>1. i \in Nat /\ j \in Nat /\ i + 1 = j + 1
      BY <1>6, <1>10, <2>1 DEF OnceEach, m
    <3>2. QED
      BY <2>1, <3>1
  <2>2. CASE ~(u = a /\ v = a)
    BY <1>6, <1>10, <2>2 DEF OnceEach, m
  <2>3. QED
    BY <2>1, <2>2
<1>11. OnceEach(U, N, P \ {f})
  BY <1>8, <1>9, <1>10 DEF OnceEach
<1>12. QED
  BY <1>2, <1>3, <1>7, <1>11 DEF f, N

LEMMA AddOne ==
  ASSUME NEW U, NEW E, NEW T \in [U -> Seq(E)], NEW P, OnceEach(U, T, P),
         NEW b \in U, NEW f \in E, f \notin P
  PROVE  OnceEach(U, [T EXCEPT ![b] = Append(@, f)], P \cup {f})
<1> DEFINE N == [T EXCEPT ![b] = Append(@, f)]
<1>1. \A u \in U : T[u] \in Seq(E) /\ Len(T[u]) \in Nat
  BY LenProperties 
<1>2. /\ Append(T[b], f) \in Seq(E) /\ Len(Append(T[b], f)) = Len(T[b]) + 1
      /\ \A i \in 1 .. Len(T[b]) : Append(T[b], f)[i] = T[b][i]
      /\ Append(T[b], f)[Len(T[b]) + 1] = f
  BY <1>1, AppendProperties
<1> DEFINE m == Len(T[b])
<1>3. /\ m \in Nat /\ Len(N[b]) = m + 1 /\ N[b][m + 1] = f
      /\ \A i \in 1 .. m : N[b][i] = T[b][i]
      /\ \A u \in U : u # b => N[u] = T[u]
  <2>1. N[b] = Append(T[b], f) /\ \A u \in U : u # b => N[u] = T[u]
    OBVIOUS
  <2>2. QED
    BY <1>1, <1>2, <2>1
<1> HIDE DEF m, N
<1>4. ASSUME NEW u \in U, NEW i \in 1 .. Len(N[u])
      PROVE  \/ i \in 1 .. Len(T[u]) /\ N[u][i] = T[u][i] /\ N[u][i] \in P
             \/ u = b /\ i = m + 1 /\ N[u][i] = f
  <2>1. CASE u # b
    BY <1>3, <2>1 DEF OnceEach
  <2>2. CASE u = b
    <3>1. i \in 1 .. m \/ i = m + 1
      BY <1>3, <2>2
    <3>2. QED
      BY <1>3, <2>2, <3>1 DEF OnceEach, m
  <2>3. QED
    BY <2>1, <2>2
<1>5. ASSUME NEW u \in U, NEW i \in 1 .. Len(T[u])
      PROVE  i \in 1 .. Len(N[u]) /\ N[u][i] = T[u][i]
  <2>1. CASE u # b
    BY <1>3, <2>1
  <2>2. CASE u = b
    <3>1. i \in 1 .. m /\ i \in 1 .. m + 1
      BY <1>3, <2>2 DEF m
    <3>2. QED
      BY <1>3, <2>2, <3>1
  <2>3. QED
    BY <2>1, <2>2
<1>6. m + 1 \in 1 .. Len(N[b]) /\ N[b][m + 1] = f
  BY <1>3
<1>7. \A u \in U : \A i \in 1 .. Len(N[u]) : N[u][i] \in P \cup {f}
  BY <1>4
<1>8. ASSUME NEW g \in P \cup {f}
      PROVE  \E u \in U : \E i \in 1 .. Len(N[u]) : N[u][i] = g
  <2>1. CASE g \in P
    <3>1. PICK u \in U : \E i \in 1 .. Len(T[u]) : T[u][i] = g
      BY <2>1 DEF OnceEach
    <3>2. QED
      BY <1>5, <3>1
  <2>2. CASE g = f
    BY <1>6, <2>2
  <2>3. QED
    BY <2>1, <2>2
<1>9. ASSUME NEW u \in U, NEW v \in U, NEW i \in 1 .. Len(N[u]), NEW j \in 1 .. Len(N[v]),
              N[u][i] = N[v][j]
      PROVE  u = v /\ i = j
  <2>1. CASE N[u][i] = f
    BY <1>4, <1>9, <2>1
  <2>2. CASE N[u][i] # f
    <3>1. i \in 1 .. Len(T[u]) /\ j \in 1 .. Len(T[v]) /\ T[u][i] = T[v][j]
      BY <1>4, <1>9, <2>2
    <3>2. QED
      BY <3>1 DEF OnceEach
  <2>3. QED
    BY <2>1, <2>2
<1>10. QED
  BY <1>7, <1>8, <1>9 DEF OnceEach, N

LEMMA MoveOne ==
  ASSUME NEW T \in Past, NEW P, OnceEach(Unit, T, P), NEW a \in Unit, NEW b \in Unit, T[a] # <<>>
  PROVE  OnceEach(Unit, AddBack(TakeFront(T, a), b, Head(T[a])), P)
<1> DEFINE f == Head(T[a])
           R == [T EXCEPT ![a] = Tail(@)]
           N == [R EXCEPT ![b] = Append(@, f)]
<1>1. T \in [Unit -> Seq(Flit)]
  BY DEF Past
<1>2. f \in P /\ f \in Flit /\ OnceEach(Unit, R, P \ {f}) /\ R \in [Unit -> Seq(Flit)]
  BY <1>1, TakeOne
<1>3. AddBack(TakeFront(T, a), b, f) = N
  BY <1>1 DEF AddBack, TakeFront
<1> HIDE DEF f, R
<1>4. OnceEach(Unit, N, (P \ {f}) \cup {f})
  BY <1>2, AddOne
<1>5. (P \ {f}) \cup {f} = P
  BY <1>2
<1>6. QED
  BY <1>3, <1>4, <1>5 DEF f

LEMMA AddPacket ==
  ASSUME NEW T \in Past, NEW P, OnceEach(Unit, T, P), NEW b \in Unit, NEW k \in Packet,
         \A f \in P : f.pkt # k
  PROVE  OnceEach(Unit, AddAll(T, b, FlitsOf(k)), P \cup {f \in Flit : f.pkt = k})
<1> DEFINE s == FlitsOf(k)
           n == NumFlits[k]
           K == {f \in Flit : f.pkt = k}
           N == AddAll(T, b, s)
           m == Len(T[b])
<1>1. n \in Nat /\ s \in Seq(Flit) /\ Len(s) = n
      /\ \A i \in 1 .. n : s[i] = [pkt |-> k, id |-> i - 1]
  BY FlitsOfFacts DEF FlitsOf
<1>2. \A i \in 1 .. n : s[i] \in K /\ s[i].id = i - 1
  <2>1. ASSUME NEW i \in 1 .. n
        PROVE  s[i] \in Flit /\ s[i].pkt = k /\ s[i].id = i - 1
    <3>1. s[i] \in Flit
      BY <1>1, <2>1, ElementOfSeq
    <3>2. s[i] = [pkt |-> k, id |-> i - 1]
      BY <1>1, <2>1
    <3> HIDE DEF s
    <3>3. QED
      BY <3>1, <3>2
  <2>2. QED
    BY <2>1
<1>3. ASSUME NEW f \in K
      PROVE  f.id + 1 \in 1 .. n /\ s[f.id + 1] = f
  <2>1. f \in [pkt : Packet, id : Nat] /\ f.pkt = k /\ f.id < n /\ f.id \in Nat
    BY DEF Flit
  <2>2. f.id + 1 \in 1 .. n /\ (f.id + 1) - 1 = f.id
    BY <1>1, <2>1
  <2>3. f = [pkt |-> k, id |-> f.id]
    BY <2>1
  <2>4. QED
    BY <1>1, <2>2, <2>3
<1>4. \A u \in Unit : T[u] \in Seq(Flit) /\ Len(T[u]) \in Nat
  BY LenProperties DEF Past
<1>5. \A u \in Unit : N[u] = IF u = b THEN T[b] \o s ELSE T[u]
  BY DEF AddAll
<1>6. /\ m \in Nat /\ Len(T[b] \o s) = m + n
      /\ \A i \in 1 .. m + n : (T[b] \o s)[i] = IF i <= m THEN T[b][i] ELSE s[i - m]
  BY <1>1, <1>4, ConcatProperties
<1>7. /\ m \in Nat /\ Len(N[b]) = m + n
      /\ \A i \in 1 .. m : N[b][i] = T[b][i]
      /\ \A i \in 1 .. m + n : i > m => N[b][i] = s[i - m]
      /\ \A u \in Unit : u # b => N[u] = T[u]
  <2>1. N[b] = T[b] \o s /\ \A u \in Unit : u # b => N[u] = T[u]
    BY <1>5
  <2> DEFINE t == T[b] \o s
  <2>2. N[b] = t /\ m \in Nat /\ Len(t) = m + n
        /\ \A i \in 1 .. m + n : t[i] = IF i <= m THEN T[b][i] ELSE s[i - m]
    BY <1>6, <2>1
  <2> HIDE DEF t, N, m, n, s
  <2>3. \A i \in 1 .. m : i \in 1 .. m + n /\ i <= m
    BY <1>1, <2>2
  <2>4. \A i \in 1 .. m + n : i > m => ~(i <= m)
    BY <2>2
  <2>5. QED
    BY <2>1, <2>2, <2>3, <2>4
<1> HIDE DEF s, n, K, N, m
<1>8. ASSUME NEW u \in Unit, NEW i \in 1 .. Len(N[u])
      PROVE  \/ i \in 1 .. Len(T[u]) /\ N[u][i] = T[u][i] /\ N[u][i] \in P /\ N[u][i] \notin K
             \/ u = b /\ i - m \in 1 .. n /\ N[u][i] = s[i - m] /\ N[u][i] \in K
  <2>1. \A g \in P : g \notin K
    BY DEF K
  <2>2. CASE u # b
    BY <1>7, <2>1, <2>2 DEF OnceEach
  <2>3. CASE u = b
    <3>1. CASE i <= m
      <4>1. i \in 1 .. Len(T[u]) /\ N[u][i] = T[u][i]
        BY <1>7, <2>3, <3>1 DEF m
      <4>2. QED
        BY <2>1, <4>1 DEF OnceEach
    <3>2. CASE ~(i <= m)
      <4>1. i - m \in 1 .. n /\ i \in 1 .. m + n /\ i > m
        BY <1>1, <1>7, <2>3, <3>2
      <4>2. QED
        BY <1>2, <1>7, <2>3, <4>1
    <3>3. QED
      BY <3>1, <3>2
  <2>4. QED
    BY <2>2, <2>3
<1>9. ASSUME NEW u \in Unit, NEW i \in 1 .. Len(T[u])
      PROVE  i \in 1 .. Len(N[u]) /\ N[u][i] = T[u][i]
  <2>1. CASE u # b
    BY <1>7, <2>1
  <2>2. CASE u = b
    <3>1. i \in 1 .. m /\ i \in 1 .. m + n
      BY <1>1, <1>7, <2>2 DEF m
    <3>2. QED
      BY <1>7, <2>2, <3>1
  <2>3. QED
    BY <2>1, <2>2
<1>10. ASSUME NEW i \in 1 .. n
      PROVE  m + i \in 1 .. Len(N[b]) /\ N[b][m + i] = s[i]
  <2>1. m + i \in 1 .. m + n /\ m + i > m /\ (m + i) - m = i
    BY <1>1, <1>7
  <2>2. N[b][m + i] = s[(m + i) - m]
    BY <1>7, <2>1
  <2>3. QED
    BY <1>7, <2>1, <2>2
<1>11. \A u \in Unit : \A i \in 1 .. Len(N[u]) : N[u][i] \in P \cup K
  BY <1>8
<1>12. \A g \in P \cup K : \E u \in Unit : \E i \in 1 .. Len(N[u]) : N[u][i] = g
  <2>1. \A g \in P : \E u \in Unit : \E i \in 1 .. Len(N[u]) : N[u][i] = g
    BY <1>9 DEF OnceEach
  <2>2. ASSUME NEW g \in K
        PROVE  \E u \in Unit : \E i \in 1 .. Len(N[u]) : N[u][i] = g
    BY <1>3, <1>10
  <2>3. QED
    BY <2>1, <2>2
<1>13. ASSUME NEW u \in Unit, NEW v \in Unit, NEW i \in 1 .. Len(N[u]), NEW j \in 1 .. Len(N[v]),
              N[u][i] = N[v][j]
       PROVE  u = v /\ i = j
  <2>1. CASE N[u][i] \notin K
    <3>1. i \in 1 .. Len(T[u]) /\ j \in 1 .. Len(T[v]) /\ T[u][i] = T[v][j]
      BY <1>8, <1>13, <2>1
    <3>2. QED
      BY <3>1 DEF OnceEach
  <2>2. CASE N[u][i] \in K
    <3>1. /\ u = b /\ v = b /\ i - m \in 1 .. n /\ j - m \in 1 .. n
          /\ s[i - m] = s[j - m]
      BY <1>8, <1>13, <2>2
    <3>2. (i - m) - 1 = (j - m) - 1
      BY <1>2, <3>1
    <3>3. i \in 1 .. m + n /\ j \in 1 .. m + n
      BY <1>7, <3>1
    <3>4. QED
      BY <1>7, <3>1, <3>2, <3>3
  <2>3. QED
    BY <2>1, <2>2
<1>14. QED
  BY <1>11, <1>12, <1>13 DEF OnceEach, N, K, s

-----------------------------------------------------------------------------
(* The four things a step can do.                                          *)

LEMMA KeptDelivery ==
  ASSUME NEW passed \in Past, NEW gone \in [Packet -> Nat], DeliveryInv(passed, gone),
         NEW next, Kept(passed, next)
  PROVE  DeliveryInv(next, gone)'
BY DEF Kept, DeliveryInv, InNetwork, Complete, WasSent, OnceEach

LEMMA MovedDelivery ==
  ASSUME TypeOK, NEW passed \in Past, NEW gone \in [Packet -> Nat],
         DeliveryInv(passed, gone), NEW next \in Past, Moved(passed, next)
  PROVE  DeliveryInv(next, gone)'
<1>1. PICK a \in Unit, b \in PortUnit, f \in Flit :
        /\ Peer[a[1]] \in Port
        /\ Streams[a] # <<>> /\ Head(Streams[a]) = f
        /\ Streams' = AddBack(TakeFront(Streams, a), b, f)
        /\ next = AddBack(passed, a, f)
        /\ UNCHANGED <<nicInBuf, sent>>
  BY DEF Moved
<1>2. Streams \in Past /\ b \in Unit
  BY StreamTypes, PortUnitFacts DEF Past
<1>3. InNetwork(gone)' = InNetwork(gone) /\ \A k \in Packet : WasSent(k)' <=> WasSent(k)
  BY <1>1 DEF InNetwork, WasSent
<1>4. OnceEach(Unit, Streams', InNetwork(gone)')
  <2>1. OnceEach(Unit, Streams, InNetwork(gone))
    BY DEF DeliveryInv
  <2>2. OnceEach(Unit, AddBack(TakeFront(Streams, a), b, Head(Streams[a])), InNetwork(gone))
    BY <1>1, <1>2, <2>1, MoveOne
  <2>3. QED
    BY <1>1, <1>3, <2>2
<1>5. OnceEach(NicVn, nicInBuf', Complete(gone))
  BY <1>1 DEF DeliveryInv
<1>6. ASSUME NEW u \in Unit, Peer[u[1]] \in Nic
      PROVE  next[u] = passed[u]
  <2>1. u # a
    BY <1>1, <1>6, LinkAssumption
  <2>2. QED
    BY <1>1, <2>1 DEF AddBack
<1>7. QED
  BY <1>3, <1>4, <1>5, <1>6 DEF DeliveryInv, Complete

\* The flit a NIC takes is the next one of its packet.
LEMMA NextFlitTaken ==
  ASSUME TypeOK, NEW passed \in Past, NEW gone \in [Packet -> Nat],
         DeliveryInv(passed, gone), LogsAreWorms(passed),
         NEW u \in Unit, Peer[u[1]] \in Nic, Streams[u] # <<>>
  PROVE  LET f == Head(Streams[u])
         IN  f \in Flit /\ WasSent(f.pkt) /\ f.id = gone[f.pkt]
<1> DEFINE f == Head(Streams[u])
           s == passed[u]
<1>1. s \in Seq(Flit) /\ Streams[u] \in Seq(Flit) /\ Worm(s \o Streams[u])
  BY LogTypes DEF LogsAreWorms, Log
<1>2. f \in InNetwork(gone)
  <2>1. Len(Streams[u]) \in Nat /\ Len(Streams[u]) # 0 /\ f = Streams[u][1]
    BY <1>1, LenProperties, EmptySeq
  <2>2. 1 \in 1 .. Len(Streams[u])
    BY <2>1
  <2>3. QED
    BY <2>1, <2>2 DEF DeliveryInv, OnceEach
<1>3. f \in Flit /\ WasSent(f.pkt) /\ f.id >= gone[f.pkt] /\ f.id \in Nat /\ gone[f.pkt] \in Nat
  BY <1>2 DEF InNetwork, Flit
<1>4. f.id <= gone[f.pkt]
  <2>1. CASE Whole(s)
    <3>1. f.id = 0
      BY <1>1, <2>1, WormCut DEF IsHead
    <3>2. QED
      BY <1>3, <3>1
  <2>2. CASE ~Whole(s)
    <3>1. Follows(Last(s), f) /\ s # <<>> /\ ~IsTail(Last(s))
      BY <1>1, <2>2, WormCut DEF Whole
    <3>2. f.pkt = Last(s).pkt /\ f.id = Last(s).id + 1
      BY <3>1 DEF Follows
    <3>3. Len(s) \in 1 .. Len(s) /\ Last(s) \in Flit
      BY <1>1, <3>1, EmptySeq, LenProperties, ElementOfSeq DEF Last
    <3>4. Last(s).id < gone[Last(s).pkt]
      BY <3>3 DEF DeliveryInv, Last
    <3>5. Last(s).id \in Nat
      BY <3>3 DEF Flit
    <3>6. QED
      BY <1>3, <3>2, <3>4, <3>5
  <2>3. QED
    BY <2>1, <2>2
<1>5. QED
  BY <1>3, <1>4

LEMMA DroppedDelivery ==
  ASSUME TypeOK, NEW passed \in Past, NEW gone \in [Packet -> Nat],
         DeliveryInv(passed, gone), LogsAreWorms(passed),
         NEW next \in Past, Dropped(passed, next)
  PROVE  \E more \in [Packet -> Nat] : DeliveryInv(next, more)'
<1>1. PICK u \in Unit, f \in Flit :
        /\ Peer[u[1]] \in Nic /\ <<Peer[u[1]], u[2]>> \in NicVn
        /\ Streams[u] # <<>> /\ Head(Streams[u]) = f
        /\ Streams' = TakeFront(Streams, u)
        /\ next = AddBack(passed, u, f)
        /\ nicInBuf' = IF IsTail(f)
                       THEN [nicInBuf EXCEPT ![<<Peer[u[1]], u[2]>>] = Append(@, f.pkt)]
                       ELSE nicInBuf
        /\ UNCHANGED sent
  BY DEF Dropped
<1>2. WasSent(f.pkt) /\ f.id = gone[f.pkt]
  BY <1>1, NextFlitTaken
<1>3. f.pkt \in Packet /\ f.id \in Nat /\ f.id < NumFlits[f.pkt] /\ NumFlits[f.pkt] \in Nat
  BY PacketAssumption DEF Flit
<1> DEFINE x == <<Peer[u[1]], u[2]>>
           k == f.pkt
<1>4. PICK more : more = [gone EXCEPT ![k] = @ + 1]
  OBVIOUS
<1>5. /\ more \in [Packet -> Nat] /\ more[k] = f.id + 1
      /\ \A l \in Packet : l # k => more[l] = gone[l]
  BY <1>2, <1>3, <1>4
<1>6. \A l \in Packet : WasSent(l)' <=> WasSent(l)
  BY <1>1 DEF WasSent
<1>7. InNetwork(more)' = InNetwork(gone) \ {f}
  <2>1. ASSUME NEW g \in Flit
        PROVE  g \in InNetwork(more)' <=> g \in InNetwork(gone) /\ g # f
    <3>1. g.pkt \in Packet /\ g.id \in Nat /\ g \in [pkt : Packet, id : Nat]
      BY DEF Flit
    <3>2. f \in [pkt : Packet, id : Nat]
      BY DEF Flit
    <3>3. g # f <=> g.pkt # k \/ g.id # f.id
      BY <3>1, <3>2
    <3>4. CASE g.pkt # k
      BY <1>5, <1>6, <3>1, <3>3, <3>4 DEF InNetwork
    <3>5. CASE g.pkt = k
      <4>1. g.id >= more[k] <=> g.id >= gone[k] /\ g.id # f.id
        BY <1>2, <1>3, <1>5, <3>1
      <4>2. QED
        BY <1>6, <3>1, <3>3, <3>5, <4>1 DEF InNetwork
    <3>6. QED
      BY <3>4, <3>5
  <2>2. QED
    BY <2>1 DEF InNetwork
<1>8. OnceEach(Unit, Streams', InNetwork(more)')
  <2>1. Streams \in [Unit -> Seq(Flit)] /\ OnceEach(Unit, Streams, InNetwork(gone))
    BY StreamTypes DEF DeliveryInv
  <2>2. OnceEach(Unit, [Streams EXCEPT ![u] = Tail(@)], InNetwork(gone) \ {f})
    BY <1>1, <2>1, TakeOne
  <2>3. TakeFront(Streams, u) = [Streams EXCEPT ![u] = Tail(@)]
    BY <2>1 DEF TakeFront
  <2>4. QED
    BY <1>1, <1>7, <2>2, <2>3
<1>9. OnceEach(NicVn, nicInBuf', Complete(more))
  <2>1. OnceEach(NicVn, nicInBuf, Complete(gone)) /\ nicInBuf \in [NicVn -> Seq(Packet)]
    BY DEF DeliveryInv, TypeOK, NicTypeOK
  <2>2. k \notin Complete(gone)
    BY <1>2, <1>3 DEF Complete
  <2>3. CASE IsTail(f)
    <3>1. Complete(more) = Complete(gone) \cup {k}
      BY <1>2, <1>3, <1>5, <2>3 DEF Complete, IsTail
    <3>2. nicInBuf' = [nicInBuf EXCEPT ![x] = Append(@, k)]
      BY <1>1, <2>3
    <3>3. OnceEach(NicVn, [nicInBuf EXCEPT ![x] = Append(@, k)], Complete(gone) \cup {k})
      BY <1>1, <1>3, <2>1, <2>2, AddOne
    <3>4. QED
      BY <3>1, <3>2, <3>3
  <2>4. CASE ~IsTail(f)
    <3>1. Complete(more) = Complete(gone)
      BY <1>2, <1>3, <1>5, <2>4 DEF Complete, IsTail
    <3>2. QED
      BY <1>1, <2>1, <2>4, <3>1
  <2>5. QED
    BY <2>3, <2>4
<1>10. \A l \in Packet : more[l] <= NumFlits[l] /\ (~WasSent(l)' => more[l] = 0)
  BY <1>2, <1>3, <1>5, <1>6 DEF DeliveryInv
<1>11. ASSUME NEW v \in Unit, Peer[v[1]] \in Nic, NEW i \in 1 .. Len(next[v])
       PROVE  next[v][i].id < more[next[v][i].pkt]
  <2>1. passed[v] \in Seq(Flit)
    BY DEF Past
  <2>2. ASSUME NEW g \in Flit, g.id < gone[g.pkt]
        PROVE  g.id < more[g.pkt]
    BY <1>2, <1>3, <1>5, <2>2 DEF Flit
  <2>3. \A j \in 1 .. Len(passed[v]) : passed[v][j] \in Flit /\ passed[v][j].id < gone[passed[v][j].pkt]
    BY <1>11, <2>1, ElementOfSeq DEF DeliveryInv
  <2>4. CASE v # u
    <3>1. next[v] = passed[v]
      BY <1>1, <2>4 DEF AddBack
    <3>2. QED
      BY <1>11, <2>2, <2>3, <3>1
  <2>5. CASE v = u
    <3>1. next[v] = Append(passed[v], f)
      BY <1>1, <2>5 DEF AddBack
    <3>2. \/ i \in 1 .. Len(passed[v]) /\ next[v][i] = passed[v][i]
          \/ next[v][i] = f
      BY <1>11, <2>1, <3>1, InAppend
    <3>3. CASE next[v][i] = f
      BY <1>3, <1>5, <3>3
    <3>4. QED
      BY <2>2, <2>3, <3>2, <3>3
  <2>6. QED
    BY <2>4, <2>5
<1>12. DeliveryInv(next, more)'
  BY <1>8, <1>9, <1>10, <1>11 DEF DeliveryInv, Complete
<1>13. QED
  BY <1>5, <1>12

\* Where the flits of a packet start, and what sending one more packet changes.
LEMMA SourceUnit ==
  ASSUME NEW k \in Packet
  PROVE  <<Src[k], PktVn[k], 0>> \in Unit
<1>1. Src[k] \in Nic /\ PktVn[k] \in VN /\ 0 \in VC
  BY PacketAssumption, SizeAssumption DEF VC
<1>2. QED
  BY <1>1 DEF Unit, End

LEMMA SentNext ==
  ASSUME TypeOK, NEW k \in Packet, sent' = [sent EXCEPT ![Src[k]] = Append(@, k)]
  PROVE  \A l \in Packet : WasSent(l)' <=> WasSent(l) \/ l = k
<1> SUFFICES ASSUME NEW l \in Packet
             PROVE  WasSent(l)' <=> WasSent(l) \/ l = k
  OBVIOUS
<1> DEFINE s == sent[Src[k]]
<1>1. s \in Seq(Packet) /\ Src[k] \in Nic /\ Src[l] \in Nic
      /\ sent'[Src[l]] = IF Src[l] = Src[k] THEN Append(s, k) ELSE sent[Src[l]]
  BY PacketAssumption DEF TypeOK, NicTypeOK
<1>2. /\ Len(s) \in Nat /\ Len(Append(s, k)) = Len(s) + 1
      /\ \A i \in 1 .. Len(s) : Append(s, k)[i] = s[i]
      /\ Append(s, k)[Len(s) + 1] = k
  BY <1>1, LenProperties, AppendProperties
<1>3. CASE Src[l] # Src[k]
  BY <1>1, <1>3 DEF WasSent
<1>4. CASE Src[l] = Src[k]
  <2>1. WasSent(l) <=> \E i \in 1 .. Len(s) : s[i] = l
    BY <1>4 DEF WasSent
  <2>2. WasSent(l)' <=> \E i \in 1 .. Len(Append(s, k)) : Append(s, k)[i] = l
    BY <1>1, <1>4 DEF WasSent
  <2>3. ASSUME NEW i \in 1 .. Len(Append(s, k))
        PROVE  i \in 1 .. Len(s) \/ Append(s, k)[i] = k
    BY <1>1, <2>3, InAppend
  <2> HIDE DEF s
  <2>4. \A i \in 1 .. Len(s) : i \in 1 .. Len(Append(s, k))
    BY <1>2
  <2>5. Len(s) + 1 \in 1 .. Len(Append(s, k))
    BY <1>2
  <2>6. QED
    BY <1>2, <2>1, <2>2, <2>3, <2>4, <2>5
<1>5. QED
  BY <1>3, <1>4

LEMMA AddedDelivery ==
  ASSUME TypeOK, NEW passed \in Past, NEW gone \in [Packet -> Nat],
         DeliveryInv(passed, gone), NEW next, Added(passed, next)
  PROVE  DeliveryInv(next, gone)'
<1>1. PICK k \in Packet :
        /\ ~WasSent(k)
        /\ Streams' = AddAll(Streams, <<Src[k], PktVn[k], 0>>, FlitsOf(k))
        /\ next = passed
        /\ sent' = [sent EXCEPT ![Src[k]] = Append(@, k)]
        /\ UNCHANGED nicInBuf
  BY DEF Added
<1>2. <<Src[k], PktVn[k], 0>> \in Unit /\ Streams \in Past /\ gone[k] = 0
  BY <1>1, SourceUnit, StreamTypes DEF Past, DeliveryInv
<1>3. \A l \in Packet : WasSent(l)' <=> WasSent(l) \/ l = k
  BY <1>1, SentNext
<1>4. InNetwork(gone)' = InNetwork(gone) \cup {f \in Flit : f.pkt = k}
  <2>1. ASSUME NEW f \in Flit
        PROVE  f \in InNetwork(gone)' <=> f \in InNetwork(gone) \/ f.pkt = k
    BY <1>2, <1>3 DEF InNetwork, Flit
  <2>2. QED
    BY <2>1 DEF InNetwork
<1>5. OnceEach(Unit, Streams', InNetwork(gone)')
  <2>1. OnceEach(Unit, Streams, InNetwork(gone)) /\ \A f \in InNetwork(gone) : f.pkt # k
    BY <1>1 DEF DeliveryInv, InNetwork
  <2>2. QED
    BY <1>1, <1>2, <1>4, <2>1, AddPacket
<1>6. QED
  BY <1>1, <1>3, <1>5 DEF DeliveryInv, Complete

-----------------------------------------------------------------------------
(* The invariant.                                                          *)

PacketsInv ==
  \E passed \in Past, gone \in [Packet -> Nat] : WormInv(passed) /\ DeliveryInv(passed, gone)

LEMMA DeliverySteps ==
  ASSUME TypeOK, NEW passed \in Past, NEW gone \in [Packet -> Nat],
         WormInv(passed), DeliveryInv(passed, gone),
         NEW next \in Past, PastStep(passed, next)
  PROVE  \E more \in [Packet -> Nat] : DeliveryInv(next, more)'
<1>1. CASE Kept(passed, next)
  BY <1>1, KeptDelivery
<1>2. CASE Moved(passed, next)
  BY <1>2, MovedDelivery
<1>3. CASE Dropped(passed, next)
  BY <1>3, DroppedDelivery DEF WormInv
<1>4. CASE Added(passed, next)
  BY <1>4, AddedDelivery
<1>5. QED
  BY <1>1, <1>2, <1>3, <1>4 DEF PastStep

LEMMA InitDelivery ==
  ASSUME Init, NEW passed \in Past, \A u \in Unit : passed[u] = <<>> /\ Streams[u] = <<>>,
         NEW gone \in [Packet -> Nat], \A k \in Packet : gone[k] = 0
  PROVE  DeliveryInv(passed, gone)
<1>1. \A k \in Packet : ~WasSent(k)
  BY PacketAssumption DEF Init, NicInit, WasSent
<1>2. \A k \in Packet : NumFlits[k] \in Nat \ {0, 1}
  BY PacketAssumption
<1>3. InNetwork(gone) = {} /\ Complete(gone) = {}
  BY <1>1, <1>2 DEF InNetwork, Complete, Flit
<1>4. OnceEach(Unit, Streams, InNetwork(gone))
  BY <1>3 DEF OnceEach
<1>5. OnceEach(NicVn, nicInBuf, Complete(gone))
  BY <1>3 DEF OnceEach, Init, NicInit
<1>6. QED
  BY <1>2, <1>4, <1>5 DEF DeliveryInv

LEMMA InitPacketsInv == Init => PacketsInv
<1> SUFFICES ASSUME Init PROVE PacketsInv
  OBVIOUS
<1>1. PICK passed \in Past : WormInv(passed) /\ \A u \in Unit : passed[u] = <<>>
  BY InitWorms
<1>2. PICK gone \in [Packet -> Nat] : \A k \in Packet : gone[k] = 0
  <2> DEFINE none == [k \in Packet |-> 0]
  <2>1. none \in [Packet -> Nat] /\ \A k \in Packet : none[k] = 0
    OBVIOUS
  <2>2. QED
    BY <2>1
<1>3. DeliveryInv(passed, gone)
  BY <1>1, <1>2, InitWorms, InitDelivery
<1>4. QED
  BY <1>1, <1>3 DEF PacketsInv

LEMMA NextPacketsInv == AllocInv /\ PacketsInv /\ [Next]_vars => PacketsInv'
<1> SUFFICES ASSUME AllocInv, PacketsInv, [Next]_vars PROVE PacketsInv'
  OBVIOUS
<1>1. PICK passed \in Past, gone \in [Packet -> Nat] :
        WormInv(passed) /\ DeliveryInv(passed, gone)
  BY DEF PacketsInv
<1>2. PICK next \in Past : WormInv(next)' /\ PastStep(passed, next)
  BY <1>1, WormSteps
<1>3. PICK more \in [Packet -> Nat] : DeliveryInv(next, more)'
  BY <1>1, <1>2, DeliverySteps DEF AllocInv
<1>4. QED
  BY <1>2, <1>3 DEF PacketsInv

LEMMA PacketsInvariant == Spec => [](AllocInv /\ PacketsInv)
BY InitPacketsInv, NextPacketsInv, AllocInvariant, PTL DEF Spec

-----------------------------------------------------------------------------
(* What it is for.                                                         *)

\* Where the sequences T[u] hold f.
Holding(U, T, f) == UNION {{<<u, i>> : i \in {j \in 1 .. Len(T[u]) : T[u][j] = f}} : u \in U}

LEMMA OnePlace ==
  ASSUME NEW U, NEW T, NEW P, OnceEach(U, T, P), NEW f
  PROVE  /\ f \in P => Cardinality(Holding(U, T, f)) = 1
         /\ f \notin P => Holding(U, T, f) = {} /\ Cardinality(Holding(U, T, f)) = 0
<1> DEFINE H == Holding(U, T, f)
<1>1. \A h : h \in H <=> \E u \in U : \E i \in 1 .. Len(T[u]) : T[u][i] = f /\ h = <<u, i>>
  BY DEF Holding
<1>2. ASSUME f \in P
      PROVE  Cardinality(H) = 1
  <2>1. PICK u \in U : \E i \in 1 .. Len(T[u]) : T[u][i] = f
    BY <1>2 DEF OnceEach
  <2>2. PICK i \in 1 .. Len(T[u]) : T[u][i] = f
    BY <2>1
  <2>3. ASSUME NEW v \in U, NEW j \in 1 .. Len(T[v]), T[v][j] = f
        PROVE  v = u /\ j = i
    BY <2>2, <2>3 DEF OnceEach
  <2>4. H = {<<u, i>>}
    BY <1>1, <2>2, <2>3
  <2>5. QED
    BY <2>4, FS_Singleton
<1>3. ASSUME f \notin P
      PROVE  H = {} /\ Cardinality(H) = 0
  <2>1. H = {}
    BY <1>1, <1>3 DEF OnceEach
  <2>2. QED
    BY <2>1, FS_EmptySet
<1>4. QED
  BY <1>2, <1>3

LEMMA PacketsStayIntact == AllocInv /\ PacketsInv => PacketsIntact
<1> SUFFICES ASSUME AllocInv, PacketsInv, NEW k \in Packet
             PROVE  IF WasSent(k)
                    THEN \E n \in 0 .. NumFlits[k] :
                           /\ \A i \in 0 .. NumFlits[k] - 1 :
                                Cardinality(Places([pkt |-> k, id |-> i])) = (IF i < n THEN 0 ELSE 1)
                           /\ Cardinality(Arrivals(k)) = (IF n = NumFlits[k] THEN 1 ELSE 0)
                    ELSE /\ Arrivals(k) = {}
                         /\ \A i \in 0 .. NumFlits[k] - 1 : Places([pkt |-> k, id |-> i]) = {}
  BY DEF PacketsIntact
<1>1. PICK passed \in Past, gone \in [Packet -> Nat] : DeliveryInv(passed, gone)
  BY DEF PacketsInv
<1> DEFINE n == gone[k]
           F(i) == [pkt |-> k, id |-> i]
<1>2. n \in 0 .. NumFlits[k] /\ NumFlits[k] \in Nat \ {0} /\ (~WasSent(k) => n = 0)
  BY <1>1, PacketAssumption DEF DeliveryInv
<1>3. ASSUME NEW f
      PROVE  Places(f) = Holding(Unit, Streams, f)
  BY DEF Places, Holding, Streams
<1>4. Arrivals(k) = Holding(NicVn, nicInBuf, k)
  BY DEF Arrivals, Holding
<1>5. ASSUME NEW i \in 0 .. NumFlits[k] - 1
      PROVE  F(i) \in InNetwork(gone) <=> WasSent(k) /\ ~(i < n)
  <2>1. F(i) \in Flit /\ F(i).pkt = k /\ F(i).id = i
    BY <1>2 DEF Flit
  <2>2. F(i) \in InNetwork(gone) <=> WasSent(k) /\ i >= n
    BY <2>1 DEF InNetwork
  <2>3. QED
    BY <1>2, <2>2
<1>6. k \in Complete(gone) <=> n = NumFlits[k]
  BY DEF Complete
<1>7. OnceEach(Unit, Streams, InNetwork(gone)) /\ OnceEach(NicVn, nicInBuf, Complete(gone))
  BY <1>1 DEF DeliveryInv
<1>8. ASSUME NEW i \in 0 .. NumFlits[k] - 1
      PROVE  /\ WasSent(k) => Cardinality(Places(F(i))) = (IF i < n THEN 0 ELSE 1)
             /\ ~WasSent(k) => Places(F(i)) = {}
  BY <1>3, <1>5, <1>7, OnePlace
<1>9. /\ Cardinality(Arrivals(k)) = (IF n = NumFlits[k] THEN 1 ELSE 0)
      /\ n # NumFlits[k] => Arrivals(k) = {}
  BY <1>4, <1>6, <1>7, OnePlace
<1>10. ~WasSent(k) => n # NumFlits[k]
  BY <1>2
<1> HIDE DEF n
<1>11. QED
  BY <1>2, <1>8, <1>9, <1>10

\* No flit is lost, duplicated or overtaken by a later one of its packet, wherever the
\* ticks of the routers and NICs and the deliveries of the links interleave; recv()
\* hands over each request once, when the last of its flits is taken.
THEOREM PacketsDelivered == Spec => []PacketsIntact
BY PacketsInvariant, PacketsStayIntact, PTL
-----------------------------------------------------------------------------
(* The invariant, and the steps that keep it.                              *)

Has(s, e) == \E i \in 1 .. Len(s) : s[i] = e

TailOf(k) == [pkt |-> k, id |-> NumFlits[k] - 1]

\* The stream packet k is sent on, and the one its flits go to from the end of a.
Source(k)  == <<Src[k], PktVn[k], 0>>
Onto(a, k) == <<Route[RouterOf[Peer[a[1]]]][Dest[k]], a[2], 0>>

\* Pairs of packets of one flow, in the order they were sent.
SentPairs == {p \in Packet \X Packet : Service!SentBefore(p[1], p[2])}

\* Before a flit of a packet comes the TAIL of every packet that precedes it.
Ordered(s, pairs) ==
  \A j \in 1 .. Len(s) : \A k \in Packet :
    <<k, s[j].pkt>> \in pairs => \E i \in 1 .. j - 1 : s[i] = TailOf(k)

SentOnce ==
  \A n \in Nic : \A i, j \in 1 .. Len(sent[n]) :
    Src[sent[n][i]] = n /\ (sent[n][i] = sent[n][j] => i = j)
LogsSent(passed) ==
  \A u \in Unit : \A i \in 1 .. Len(Log(passed, u)) : WasSent(Log(passed, u)[i].pkt)
TailsSent(passed) ==
  \A k \in Packet : WasSent(k) => Has(Log(passed, Source(k)), TailOf(k))
Forwarded(passed) ==
  \A a \in Unit : Peer[a[1]] \in Port =>
    \A i \in 1 .. Len(passed[a]) : Has(Log(passed, Onto(a, passed[a][i].pkt)), passed[a][i])
LogsOrdered(passed) == \A u \in Unit : Ordered(Log(passed, u), SentPairs)

ArrivedInTurn ==
  \A x \in NicVn : \A b \in 1 .. Len(nicInBuf[x]) :
    LET l == nicInBuf[x][b]
    IN  /\ WasSent(l)
        /\ \A a \in 1 .. b - 1 :
             Service!SameFlow(nicInBuf[x][a], l) => <<nicInBuf[x][a], l>> \in SentPairs
        /\ \A k \in Packet : <<k, l>> \in SentPairs => \E a \in 1 .. b - 1 : nicInBuf[x][a] = k

OrderInv(passed) ==
  /\ SentOnce
  /\ LogsSent(passed)
  /\ TailsSent(passed)
  /\ Forwarded(passed)
  /\ LogsOrdered(passed)
  /\ ArrivedInTurn

-----------------------------------------------------------------------------
(* Sequences.                                                              *)

LEMMA HasConcat ==
  ASSUME NEW S, NEW s \in Seq(S), NEW t \in Seq(S), NEW e, Has(s, e) \/ Has(t, e)
  PROVE  Has(s \o t, e)
<1> DEFINE w == s \o t
           m == Len(s)
           n == Len(t)
<1>1. /\ m \in Nat /\ n \in Nat /\ Len(w) = m + n
      /\ \A i \in 1 .. m + n : w[i] = IF i <= m THEN s[i] ELSE t[i - m]
  BY LenProperties, ConcatProperties
<1>2. CASE Has(s, e)
  <2>1. PICK i \in 1 .. m : s[i] = e
    BY <1>2 DEF Has
  <2> HIDE DEF w, m, n
  <2>2. i \in 1 .. m + n /\ i <= m
    BY <1>1
  <2>3. i \in 1 .. Len(w) /\ w[i] = e
    BY <1>1, <2>1, <2>2
  <2>4. QED
    BY <2>3 DEF Has, w
<1>3. CASE Has(t, e)
  <2>1. PICK i \in 1 .. n : t[i] = e
    BY <1>3 DEF Has
  <2> HIDE DEF w, m, n
  <2>2. m + i \in 1 .. m + n /\ ~(m + i <= m) /\ (m + i) - m = i
    BY <1>1
  <2>3. m + i \in 1 .. Len(w) /\ w[m + i] = e
    BY <1>1, <2>1, <2>2
  <2>4. QED
    BY <2>3 DEF Has, w
<1>4. QED
  BY <1>2, <1>3

LEMMA HasAppend ==
  ASSUME NEW S, NEW s \in Seq(S), NEW f \in S, NEW e, Has(s, e) \/ e = f
  PROVE  Has(Append(s, f), e)
<1>1. <<f>> \in Seq(S) /\ Append(s, f) = s \o <<f>> /\ Has(<<f>>, f)
  BY AppendIsConcat DEF Has
<1>2. QED
  BY <1>1, HasConcat, ZenonT(30)

\* More flits keep the order if what must precede them is there.
LEMMA OrderedConcat ==
  ASSUME NEW s \in Seq(Flit), NEW t \in Seq(Flit), NEW pairs, NEW more, Ordered(s, pairs),
         \A k \in Packet : \A i \in 1 .. Len(s) : <<k, s[i].pkt>> \in more => <<k, s[i].pkt>> \in pairs,
         \A k \in Packet : \A i \in 1 .. Len(t) : <<k, t[i].pkt>> \in more => Has(s, TailOf(k))
  PROVE  Ordered(s \o t, more)
<1> DEFINE w == s \o t
           m == Len(s)
           n == Len(t)
<1>1. /\ m \in Nat /\ n \in Nat /\ Len(w) = m + n
      /\ \A i \in 1 .. m + n : w[i] = IF i <= m THEN s[i] ELSE t[i - m]
  BY LenProperties, ConcatProperties
<1>2. \A k \in Packet : \A i \in 1 .. m :
        <<k, s[i].pkt>> \in more => \E h \in 1 .. i - 1 : s[h] = TailOf(k)
  BY DEF Ordered
<1>3. \A k \in Packet : \A i \in 1 .. n :
        <<k, t[i].pkt>> \in more => \E h \in 1 .. m : s[h] = TailOf(k)
  BY DEF Has
<1> HIDE DEF w, m, n
<1>4. ASSUME NEW j \in 1 .. Len(w), NEW k \in Packet, <<k, w[j].pkt>> \in more
      PROVE  \E i \in 1 .. j - 1 : w[i] = TailOf(k)
  <2>1. PICK h \in 1 .. m : h \in 1 .. j - 1 /\ s[h] = TailOf(k)
    <3>1. CASE j <= m
      <4>1. j \in 1 .. m /\ w[j] = s[j]
        BY <1>1, <3>1
      <4>2. PICK h \in 1 .. j - 1 : s[h] = TailOf(k)
        BY <1>2, <1>4, <4>1
      <4>3. h \in 1 .. m
        BY <1>1, <3>1, <4>1
      <4>4. QED
        BY <4>2, <4>3
    <3>2. CASE ~(j <= m)
      <4>1. j - m \in 1 .. n /\ w[j] = t[j - m]
        BY <1>1, <3>2
      <4>2. PICK h \in 1 .. m : s[h] = TailOf(k)
        BY <1>3, <1>4, <4>1
      <4>3. h \in 1 .. j - 1
        BY <1>1, <3>2
      <4>4. QED
        BY <4>2, <4>3
    <3>3. QED
      BY <3>1, <3>2
  <2>2. h \in 1 .. m + n /\ h <= m
    BY <1>1
  <2>3. w[h] = s[h]
    BY <1>1, <2>2
  <2>4. QED
    BY <2>1, <2>3
<1>5. QED
  BY <1>4 DEF Ordered, w

LEMMA OrderedAppend ==
  ASSUME NEW s \in Seq(Flit), NEW f \in Flit, NEW pairs, Ordered(s, pairs),
         \A k \in Packet : <<k, f.pkt>> \in pairs => Has(s, TailOf(k))
  PROVE  Ordered(Append(s, f), pairs)
<1> DEFINE t == <<f>>
<1>1. t \in Seq(Flit) /\ Append(s, f) = s \o t /\ \A i \in 1 .. Len(t) : t[i] = f
  BY AppendIsConcat
<1> HIDE DEF t
<1>2. QED
  BY <1>1, OrderedConcat

-----------------------------------------------------------------------------
(* Packets sent.                                                           *)

\* Of two packets of one flow, one was sent before the other.
LEMMA SentInTurn ==
  ASSUME TypeOK, SentOnce, NEW k \in Packet, NEW l \in Packet, k # l,
         WasSent(k), WasSent(l), Service!SameFlow(k, l)
  PROVE  <<k, l>> \in SentPairs \/ <<l, k>> \in SentPairs
<1> DEFINE s == sent[Src[k]]
<1>1. s \in Seq(Packet) /\ Len(s) \in Nat /\ Src[l] = Src[k]
  BY PacketAssumption, LenProperties DEF TypeOK, NicTypeOK, Service!SameFlow
<1>2. PICK i \in 1 .. Len(s) : s[i] = k
  BY DEF WasSent
<1>3. PICK j \in 1 .. Len(s) : s[j] = l
  BY <1>1 DEF WasSent
<1>4. i # j
  BY <1>2, <1>3
<1>5. i < j \/ j < i
  BY <1>1, <1>4
<1>6. Service!SameFlow(l, k)
  BY DEF Service!SameFlow, Service!Inbox
<1>7. CASE i < j
  <2>1. Service!SentBefore(k, l)
    BY <1>2, <1>3, <1>7 DEF Service!SentBefore
  <2>2. QED
    BY <2>1 DEF SentPairs
<1>8. CASE j < i
  <2>1. Service!SentBefore(l, k)
    BY <1>1, <1>2, <1>3, <1>6, <1>8 DEF Service!SentBefore
  <2>2. QED
    BY <2>1 DEF SentPairs
<1>9. QED
  BY <1>5, <1>7, <1>8

LEMMA PairFacts ==
  ASSUME NEW k, NEW l, <<k, l>> \in SentPairs
  PROVE  /\ k \in Packet /\ l \in Packet /\ WasSent(k) /\ WasSent(l)
         /\ Src[k] = Src[l] /\ Dest[k] = Dest[l] /\ PktVn[k] = PktVn[l]
BY DEF SentPairs, Service!SentBefore, Service!SameFlow, Service!Inbox, WasSent

\* Sending packet l puts it after those of its flow that were sent.
LEMMA SendOnce ==
  ASSUME TypeOK, SentOnce, NEW l \in Packet, ~WasSent(l),
         sent' = [sent EXCEPT ![Src[l]] = Append(@, l)]
  PROVE  /\ SentOnce'
         /\ SentPairs \subseteq SentPairs'
         /\ \A k, m \in Packet : <<k, m>> \in SentPairs' /\ <<k, m>> \notin SentPairs =>
              m = l /\ WasSent(k) /\ Src[k] = Src[l] /\ PktVn[k] = PktVn[l]
<1> DEFINE s == sent[Src[l]]
           c == Len(s)
           t == Append(s, l)
<1>1. /\ s \in Seq(Packet) /\ c \in Nat /\ Src[l] \in Nic
      /\ \A n \in Nic : sent'[n] = IF n = Src[l] THEN t ELSE sent[n]
  BY PacketAssumption, LenProperties DEF TypeOK, NicTypeOK
<1>2. Len(t) = c + 1 /\ t[c + 1] = l /\ \A i \in 1 .. c : t[i] = s[i]
  BY <1>1, AppendProperties
<1>3. \A i \in 1 .. c : s[i] # l
  BY DEF WasSent
<1>4. \A i, j \in 1 .. c : Src[s[i]] = Src[l] /\ (s[i] = s[j] => i = j)
  BY <1>1 DEF SentOnce
<1> HIDE DEF s, t, c
<1>5. \A i \in 1 .. Len(t) : i \in 1 .. c \/ i = c + 1
  BY <1>1, <1>2
<1>6. \A i \in 1 .. c : i \in 1 .. Len(t)
  BY <1>1, <1>2
<1>7. SentOnce'
  <2>1. ASSUME NEW i \in 1 .. Len(t), NEW j \in 1 .. Len(t)
        PROVE  Src[t[i]] = Src[l] /\ (t[i] = t[j] => i = j)
    BY <1>2, <1>3, <1>4, <1>5
  <2>2. ASSUME NEW n \in Nic, NEW i \in 1 .. Len(sent'[n]), NEW j \in 1 .. Len(sent'[n])
        PROVE  Src[sent'[n][i]] = n /\ (sent'[n][i] = sent'[n][j] => i = j)
    <3>1. CASE n = Src[l]
      <4>1. sent'[n] = t
        BY <1>1, <3>1
      <4>2. QED
        BY <2>1, <2>2, <3>1, <4>1
    <3>2. CASE n # Src[l]
      <4>1. sent'[n] = sent[n]
        BY <1>1, <3>2
      <4>2. i \in 1 .. Len(sent[n]) /\ j \in 1 .. Len(sent[n])
        BY <2>2, <4>1
      <4>3. Src[sent[n][i]] = n /\ (sent[n][i] = sent[n][j] => i = j)
        BY <4>2 DEF SentOnce
      <4>4. QED
        BY <4>1, <4>3
    <3>3. QED
      BY <3>1, <3>2
  <2>3. QED
    BY <2>2 DEF SentOnce
<1>8. ASSUME NEW k \in Packet, NEW m \in Packet, <<k, m>> \in SentPairs
      PROVE  <<k, m>> \in SentPairs'
  <2>1. Service!SentBefore(k, m)
    BY <1>8 DEF SentPairs
  <2>2. Service!SentBefore(k, m)'
    <3>1. CASE Src[k] = Src[l]
      <4>1. PICK i, j \in 1 .. c : i < j /\ s[i] = k /\ s[j] = m
        BY <2>1, <3>1 DEF Service!SentBefore, s, c
      <4>2. i \in 1 .. Len(t) /\ j \in 1 .. Len(t) /\ t[i] = k /\ t[j] = m
        BY <1>2, <1>6, <4>1
      <4>3. sent'[Src[k]] = t
        BY <1>1, <3>1
      <4>4. QED
        BY <2>1, <4>1, <4>2, <4>3 DEF Service!SentBefore
    <3>2. CASE Src[k] # Src[l]
      <4>1. sent'[Src[k]] = sent[Src[k]]
        BY <1>1, <3>2, PacketAssumption
      <4>2. QED
        BY <2>1, <4>1 DEF Service!SentBefore
    <3>3. QED
      BY <3>1, <3>2
  <2>3. QED
    BY <2>2 DEF SentPairs
<1>9. ASSUME NEW k \in Packet, NEW m \in Packet, <<k, m>> \in SentPairs', <<k, m>> \notin SentPairs
      PROVE  m = l /\ WasSent(k) /\ Src[k] = Src[l] /\ PktVn[k] = PktVn[l]
  <2>1. Service!SentBefore(k, m)' /\ ~Service!SentBefore(k, m)
    BY <1>9 DEF SentPairs
  <2>2. Service!SameFlow(k, m)
    BY <2>1 DEF Service!SentBefore
  <2>3. Src[k] = Src[l]
    <3>1. Src[k] # Src[l] => sent'[Src[k]] = sent[Src[k]]
      BY <1>1, PacketAssumption
    <3>2. QED
      BY <2>1, <3>1 DEF Service!SentBefore
  <2>4. PICK i, j \in 1 .. Len(t) : i < j /\ t[i] = k /\ t[j] = m
    BY <1>1, <2>1, <2>3 DEF Service!SentBefore
  <2>5. i \in 1 .. c
    BY <1>1, <1>2, <2>4
  <2>6. s[i] = k
    BY <1>2, <2>4, <2>5
  <2>7. j = c + 1
    <3>1. ASSUME j \in 1 .. c
          PROVE  FALSE
      <4>1. s[j] = m
        BY <1>2, <2>4, <3>1
      <4>2. Service!SentBefore(k, m)
        BY <2>2, <2>3, <2>4, <2>5, <2>6, <3>1, <4>1 DEF Service!SentBefore, s, c
      <4>3. QED
        BY <2>1, <4>2
    <3>2. QED
      BY <1>5, <3>1
  <2>8. WasSent(k)
    BY <2>3, <2>5, <2>6 DEF WasSent, s, c
  <2>9. m = l
    BY <1>2, <2>4, <2>7
  <2>10. QED
    BY <2>2, <2>3, <2>8, <2>9 DEF Service!SameFlow, Service!Inbox
<1>10. QED
  <2>1. SentPairs \subseteq SentPairs'
    BY <1>8 DEF SentPairs
  <2>2. QED
    BY <1>7, <1>9, <2>1

-----------------------------------------------------------------------------
(* The four things a step can do.                                          *)

LEMMA OntoUnit ==
  ASSUME NEW a \in Unit, NEW k \in Packet, Peer[a[1]] \in Port
  PROVE  Onto(a, k) \in Unit
<1>1. Route[RouterOf[Peer[a[1]]]][Dest[k]] \in Port /\ 0 \in VC
  BY TopologyAssumption, PacketAssumption, SizeAssumption DEF VC
<1>2. QED
  BY <1>1 DEF Onto, Unit, End

LEMMA PassedFlit ==
  ASSUME NEW passed \in Past, NEW u \in Unit, NEW i \in 1 .. Len(passed[u])
  PROVE  passed[u][i] \in Flit /\ passed[u][i].pkt \in Packet
<1>1. passed[u] \in Seq(Flit)
  BY DEF Past
<1>2. passed[u][i] \in Flit
  BY <1>1, ElementOfSeq
<1>3. QED
  BY <1>2 DEF Flit

\* What the endpoints see is as it was.
LEMMA SeenKept ==
  ASSUME SentOnce, ArrivedInTurn, nicInBuf' = nicInBuf, sent' = sent
  PROVE  /\ SentOnce' /\ ArrivedInTurn' /\ SentPairs' = SentPairs
         /\ \A k : WasSent(k)' <=> WasSent(k)
<1>1. SentPairs' = SentPairs /\ \A k : WasSent(k)' <=> WasSent(k)
  BY DEF SentPairs, Service!SentBefore, WasSent
<1>2. SentOnce'
  BY DEF SentOnce
<1>3. ArrivedInTurn'
  BY <1>1 DEF ArrivedInTurn
<1>4. QED
  BY <1>1, <1>2, <1>3

LEMMA KeptOrder ==
  ASSUME NumVcs = 1, NEW passed \in Past, OrderInv(passed), NEW next, Kept(passed, next)
  PROVE  OrderInv(next)'
<1>1. next = passed /\ Streams' = Streams /\ nicInBuf' = nicInBuf /\ sent' = sent
  BY DEF Kept
<1>2. \A u \in Unit : Log(next, u)' = Log(passed, u)
  BY <1>1 DEF Log
<1>3. SentPairs' = SentPairs /\ \A k : WasSent(k)' <=> WasSent(k)
  BY <1>1, SeenKept DEF OrderInv
<1>4. SentOnce' /\ ArrivedInTurn'
  BY <1>1, SeenKept DEF OrderInv
<1>5. LogsSent(next)' /\ LogsOrdered(next)'
  BY <1>2, <1>3 DEF OrderInv, LogsSent, LogsOrdered
<1>6. TailsSent(next)'
  BY <1>2, <1>3, SourceUnit DEF OrderInv, TailsSent, Source
<1>7. Forwarded(next)'
  <2>1. \A a \in Unit : \A k \in Packet : Peer[a[1]] \in Port => Onto(a, k) \in Unit
    BY OntoUnit
  <2>2. \A a \in Unit : \A i \in 1 .. Len(passed[a]) : passed[a][i].pkt \in Packet
    BY PassedFlit
  <2>3. QED
    BY <1>1, <1>2, <2>1, <2>2 DEF OrderInv, Forwarded
<1>8. QED
  BY <1>4, <1>5, <1>6, <1>7 DEF OrderInv

\* At the end of a stream, the TAILs of the packets sent before have passed.
LEMMA PassedBefore ==
  ASSUME TypeOK, NEW passed \in Past, LogsOrdered(passed),
         NEW u \in Unit, Streams[u] # <<>>,
         NEW k \in Packet, <<k, Head(Streams[u]).pkt>> \in SentPairs
  PROVE  \E i \in 1 .. Len(passed[u]) : passed[u][i] = TailOf(k)
<1> DEFINE q == passed[u]
           s == Streams[u]
           w == q \o s
           m == Len(q)
<1>1. q \in Seq(Flit) /\ s \in Seq(Flit) /\ Ordered(w, SentPairs)
  BY LogTypes DEF LogsOrdered, Log
<1>2. m \in Nat /\ m + 1 \in 1 .. Len(w) /\ w[m + 1] = Head(s)
  BY <1>1, ConcatFront
<1>3. Len(w) = m + Len(s) /\ Len(s) \in Nat
      /\ \A i \in 1 .. m + Len(s) : w[i] = IF i <= m THEN q[i] ELSE s[i - m]
  BY <1>1, ConcatProperties, LenProperties
<1>4. <<k, Head(s).pkt>> \in SentPairs
  OBVIOUS
<1> HIDE DEF w, m, q, s
<1>5. PICK i \in 1 .. (m + 1) - 1 : w[i] = TailOf(k)
  BY <1>1, <1>2, <1>4 DEF Ordered
<1>6. i \in 1 .. m /\ i <= m /\ i \in 1 .. m + Len(s)
  BY <1>2, <1>3
<1>7. q[i] = TailOf(k)
  BY <1>3, <1>5, <1>6
<1>8. QED
  BY <1>6, <1>7 DEF q, m

LEMMA MovedOrder ==
  ASSUME NumVcs = 1, TypeOK, NEW passed \in Past, OrderInv(passed),
         NEW next \in Past, Moved(passed, next)
  PROVE  OrderInv(next)'
<1>1. PICK a \in Unit, b \in PortUnit, f \in Flit :
        /\ Peer[a[1]] \in Port
        /\ Streams[a] # <<>> /\ Head(Streams[a]) = f
        /\ b[1] = Route[RouterOf[Peer[a[1]]]][Dest[f.pkt]] /\ b[2] = a[2]
        /\ Streams' = AddBack(TakeFront(Streams, a), b, f)
        /\ next = AddBack(passed, a, f)
        /\ nicInBuf' = nicInBuf /\ sent' = sent
  BY DEF Moved
<1>2. b \in Unit /\ f.pkt \in Packet
  BY PortUnitFacts DEF Flit
<1>3. /\ \A u \in Unit : next[u] = IF u = a THEN Append(passed[u], f) ELSE passed[u]
      /\ \A u \in Unit :
           Log(next, u)' = IF u = b THEN Append(Log(passed, u), f) ELSE Log(passed, u)
  BY <1>1, <1>2, LogsMove
<1>4. \A u \in Unit : Log(passed, u) \in Seq(Flit) /\ passed[u] \in Seq(Flit)
  BY LogTypes
<1>5. SentPairs' = SentPairs /\ \A k : WasSent(k)' <=> WasSent(k)
  BY <1>1, SeenKept DEF OrderInv
<1>6. SentOnce' /\ ArrivedInTurn'
  BY <1>1, SeenKept DEF OrderInv
<1>7. b = Onto(a, f.pkt)
  <2>1. b[3] = 0
    BY SizeAssumption DEF PortUnit, VC
  <2>2. b = <<b[1], b[2], b[3]>>
    BY DEF PortUnit
  <2>3. QED
    BY <1>1, <2>1, <2>2 DEF Onto
<1>8. PICK n \in 1 .. Len(Log(passed, a)) : Log(passed, a)[n] = f
  BY <1>1, LogFront
<1>9. \A u \in Unit : \A e : Has(Log(passed, u), e) => Has(Log(next, u)', e)
  <2>1. ASSUME NEW u \in Unit, NEW e, Has(Log(passed, u), e)
        PROVE  Has(Log(next, u)', e)
    <3>1. CASE u = b
      <4> DEFINE s == Log(passed, u)
      <4>1. s \in Seq(Flit) /\ Has(s, e) /\ Log(next, u)' = Append(s, f)
        BY <1>3, <1>4, <2>1, <3>1
      <4> HIDE DEF s
      <4>2. QED
        BY <4>1, HasAppend
    <3>2. CASE u # b
      BY <1>3, <2>1, <3>2
    <3>3. QED
      BY <3>1, <3>2
  <2>2. QED
    BY <2>1
<1>10. LogsSent(next)'
  <2>1. ASSUME NEW u \in Unit, NEW i \in 1 .. Len(Log(next, u)')
        PROVE  WasSent(Log(next, u)'[i].pkt)
    <3>1. CASE u # b
      BY <1>3, <2>1, <3>1 DEF OrderInv, LogsSent
    <3>2. CASE u = b
      <4> DEFINE s == Log(passed, u)
      <4>1. s \in Seq(Flit) /\ Log(next, u)' = Append(s, f)
            /\ \A j \in 1 .. Len(s) : WasSent(s[j].pkt)
        BY <1>3, <1>4, <3>2 DEF OrderInv, LogsSent
      <4>2. WasSent(f.pkt)
        BY <1>8 DEF OrderInv, LogsSent
      <4> HIDE DEF s
      <4>3. QED
        BY <2>1, <4>1, <4>2, InAppend
    <3>3. QED
      BY <3>1, <3>2
  <2>2. QED
    BY <1>5, <2>1 DEF LogsSent
<1>11. TailsSent(next)'
  BY <1>5, <1>9, SourceUnit DEF OrderInv, TailsSent, Source
<1>12. Forwarded(next)'
  <2>1. ASSUME NEW c \in Unit, Peer[c[1]] \in Port, NEW i \in 1 .. Len(next[c])
        PROVE  Has(Log(next, Onto(c, next[c][i].pkt))', next[c][i])
    <3>1. ASSUME NEW j \in 1 .. Len(passed[c]), next[c][i] = passed[c][j]
          PROVE  Has(Log(next, Onto(c, next[c][i].pkt))', next[c][i])
      <4>1. passed[c][j].pkt \in Packet
        BY PassedFlit
      <4>2. QED
        BY <1>9, <2>1, <3>1, <4>1, OntoUnit DEF OrderInv, Forwarded
    <3>2. CASE c # a
      <4>1. next[c] = passed[c]
        BY <1>3, <3>2
      <4>2. QED
        BY <3>1, <4>1
    <3>3. CASE c = a
      <4>1. next[c] = Append(passed[c], f)
        BY <1>3, <3>3
      <4>2. \/ i \in 1 .. Len(passed[c]) /\ next[c][i] = passed[c][i]
            \/ next[c][i] = f
        BY <1>4, <2>1, <4>1, InAppend
      <4>3. CASE next[c][i] = f
        <5>1. Log(next, b)' = Append(Log(passed, b), f) /\ Log(passed, b) \in Seq(Flit)
          BY <1>2, <1>3, <1>4
        <5>2. Has(Log(next, b)', f)
          <6> DEFINE s == Log(passed, b)
          <6>1. s \in Seq(Flit) /\ Log(next, b)' = Append(s, f)
            BY <5>1
          <6> HIDE DEF s
          <6>2. QED
            BY <6>1, HasAppend
        <5>3. QED
          BY <1>7, <3>3, <4>3, <5>2
      <4>4. QED
        BY <3>1, <4>2, <4>3
    <3>4. QED
      BY <3>2, <3>3
  <2>2. QED
    BY <2>1 DEF Forwarded
<1>13. LogsOrdered(next)'
  <2>1. ASSUME NEW u \in Unit
        PROVE  Ordered(Log(next, u)', SentPairs)
    <3>1. CASE u # b
      BY <1>3, <3>1 DEF OrderInv, LogsOrdered
    <3>2. CASE u = b
      <4> DEFINE s == Log(passed, b)
                 pairs == SentPairs
      <4>1. s \in Seq(Flit) /\ Ordered(s, pairs) /\ Log(next, u)' = Append(s, f)
        BY <1>2, <1>3, <1>4, <3>2 DEF OrderInv, LogsOrdered
      <4>2. ASSUME NEW k \in Packet, <<k, f.pkt>> \in pairs
            PROVE  Has(s, TailOf(k))
        <5>1. PICK i \in 1 .. Len(passed[a]) : passed[a][i] = TailOf(k)
          BY <1>1, <4>2, PassedBefore DEF OrderInv
        <5>2. Has(Log(passed, Onto(a, k)), TailOf(k))
          BY <1>1, <5>1 DEF OrderInv, Forwarded, TailOf
        <5>3. Onto(a, k) = b
          BY <1>7, <4>2, PairFacts DEF Onto
        <5>4. QED
          BY <5>2, <5>3
      <4> HIDE DEF s, pairs
      <4>3. Ordered(Append(s, f), pairs)
        BY <4>1, <4>2, OrderedAppend
      <4>4. QED
        BY <4>1, <4>3 DEF pairs
    <3>3. QED
      BY <3>1, <3>2
  <2>2. QED
    BY <1>5, <2>1 DEF LogsOrdered
<1>14. QED
  BY <1>6, <1>10, <1>11, <1>12, <1>13 DEF OrderInv

\* The packet whose TAIL a NIC takes was sent, is for it, and is not complete yet.
LEMMA TakenFacts ==
  ASSUME TypeOK, NEW passed \in Past, NEW gone \in [Packet -> Nat], WormInv(passed),
         DeliveryInv(passed, gone), NEW u \in Unit, Peer[u[1]] \in Nic, Streams[u] # <<>>
  PROVE  LET l == Head(Streams[u]).pkt
         IN  /\ l \in Packet /\ WasSent(l) /\ l \notin Complete(gone)
             /\ Dest[l] = Peer[u[1]] /\ PktVn[l] = u[2]
<1> DEFINE f == Head(Streams[u])
<1>1. f \in Flit /\ WasSent(f.pkt) /\ f.id = gone[f.pkt]
  BY NextFlitTaken DEF WormInv
<1>2. f.pkt \in Packet /\ f.id < NumFlits[f.pkt] /\ f.id \in Nat
  BY <1>1 DEF Flit
<1>3. f.pkt \notin Complete(gone)
  BY <1>1, <1>2 DEF Complete
<1>4. OnRoute(f, u)
  <2>1. PICK n \in 1 .. Len(Log(passed, u)) : Log(passed, u)[n] = f
    BY LogFront
  <2>2. QED
    BY <2>1 DEF WormInv, LogsOnRoute
<1>5. QED
  BY <1>1, <1>2, <1>3, <1>4 DEF OnRoute

\* The packets sent before it in its flow have arrived where it goes.
LEMMA PredecessorsArrived ==
  ASSUME TypeOK, NEW passed \in Past, NEW gone \in [Packet -> Nat], WormInv(passed),
         DeliveryInv(passed, gone), LogsOrdered(passed),
         NEW u \in Unit, Peer[u[1]] \in Nic, Streams[u] # <<>>,
         NEW k \in Packet, <<k, Head(Streams[u]).pkt>> \in SentPairs
  PROVE  Has(nicInBuf[<<Peer[u[1]], u[2]>>], k)
<1> DEFINE x == <<Peer[u[1]], u[2]>>
           l == Head(Streams[u]).pkt
<1>1. PICK i \in 1 .. Len(passed[u]) : passed[u][i] = TailOf(k)
  BY PassedBefore
<1>2. NumFlits[k] - 1 < gone[k]
  BY <1>1 DEF DeliveryInv, TailOf
<1>3. k \in Complete(gone)
  BY <1>2, PacketAssumption DEF DeliveryInv, Complete
<1>4. PICK y \in NicVn : \E j \in 1 .. Len(nicInBuf[y]) : nicInBuf[y][j] = k
  BY <1>3 DEF DeliveryInv, OnceEach
<1>5. Dest[k] = y[1] /\ PktVn[k] = y[2]
  BY <1>4 DEF WormInv, ArrivedHome
<1>6. Dest[l] = x[1] /\ PktVn[l] = x[2] /\ Dest[k] = Dest[l] /\ PktVn[k] = PktVn[l]
  BY TakenFacts, PairFacts
<1>7. y = <<y[1], y[2]>> /\ x = <<x[1], x[2]>>
  BY DEF NicVn
<1> HIDE DEF x, l
<1>8. y = x
  BY <1>5, <1>6, <1>7
<1>9. QED
  BY <1>4, <1>8 DEF Has, x

\* The TAIL a NIC takes is that of the packet of its flow that is next.
LEMMA DroppedOrder ==
  ASSUME NumVcs = 1, TypeOK, NEW passed \in Past, WormInv(passed), OrderInv(passed),
         NEW gone \in [Packet -> Nat], DeliveryInv(passed, gone),
         NEW next \in Past, Dropped(passed, next)
  PROVE  OrderInv(next)'
<1>1. PICK u \in Unit, f \in Flit :
        /\ Peer[u[1]] \in Nic /\ <<Peer[u[1]], u[2]>> \in NicVn
        /\ Streams[u] # <<>> /\ Head(Streams[u]) = f
        /\ Streams' = TakeFront(Streams, u)
        /\ next = AddBack(passed, u, f)
        /\ nicInBuf' = IF IsTail(f)
                       THEN [nicInBuf EXCEPT ![<<Peer[u[1]], u[2]>>] = Append(@, f.pkt)]
                       ELSE nicInBuf
        /\ sent' = sent
  BY DEF Dropped
<1>2. /\ \A v \in Unit : next[v] = IF v = u THEN Append(passed[v], f) ELSE passed[v]
      /\ \A v \in Unit : Log(next, v)' = Log(passed, v)
  BY <1>1, LogsDrop
<1>3. SentPairs' = SentPairs /\ SentOnce' /\ \A k : WasSent(k)' <=> WasSent(k)
  <2>1. SentPairs' = SentPairs
    BY <1>1 DEF SentPairs, Service!SentBefore
  <2>2. SentOnce'
    BY <1>1 DEF OrderInv, SentOnce
  <2>3. \A k : WasSent(k)' <=> WasSent(k)
    BY <1>1 DEF WasSent
  <2>4. QED
    BY <2>1, <2>2, <2>3
<1>4. LogsSent(next)' /\ LogsOrdered(next)'
  BY <1>2, <1>3 DEF OrderInv, LogsSent, LogsOrdered
<1>5. TailsSent(next)'
  BY <1>2, <1>3, SourceUnit DEF OrderInv, TailsSent, Source
<1>6. Forwarded(next)'
  <2>1. ASSUME NEW a \in Unit, Peer[a[1]] \in Port
        PROVE  next[a] = passed[a] /\ \A k \in Packet : Onto(a, k) \in Unit
    <3>1. a # u
      BY <1>1, <2>1, LinkAssumption
    <3>2. QED
      BY <1>2, <2>1, <3>1, OntoUnit
  <2>2. QED
    BY <1>2, <2>1, PassedFlit DEF OrderInv, Forwarded
<1>7. ArrivedInTurn'
  <2>1. CASE ~IsTail(f)
    BY <1>1, <2>1, SeenKept DEF OrderInv
  <2>2. CASE IsTail(f)
    <3> DEFINE x == <<Peer[u[1]], u[2]>>
               l == f.pkt
               s == nicInBuf[x]
               c == Len(s)
    <3>1. /\ x \in NicVn /\ l \in Packet /\ WasSent(l) /\ Dest[l] = x[1] /\ PktVn[l] = x[2]
          /\ l \notin Complete(gone)
      BY <1>1, <2>2, TakenFacts DEF WormInv
    <3>2. /\ s \in Seq(Packet) /\ c \in Nat
          /\ \A y \in NicVn : nicInBuf'[y] = IF y = x THEN Append(s, l) ELSE nicInBuf[y]
      BY <1>1, <2>2, <3>1, LenProperties DEF TypeOK, NicTypeOK
    <3>3. /\ Len(Append(s, l)) = c + 1 /\ Append(s, l)[c + 1] = l
          /\ \A i \in 1 .. c : Append(s, l)[i] = s[i]
      BY <3>1, <3>2, AppendProperties
    <3>4. \A i \in 1 .. c : s[i] # l /\ s[i] \in Packet
      BY <3>1, <3>2, ElementOfSeq DEF DeliveryInv, OnceEach
    <3>5. ASSUME NEW k \in Packet, <<k, l>> \in SentPairs
          PROVE  \E i \in 1 .. c : s[i] = k
      BY <1>1, <3>1, <3>5, PredecessorsArrived DEF OrderInv, Has
    <3>6. ASSUME NEW i \in 1 .. c, Service!SameFlow(s[i], l)
          PROVE  <<s[i], l>> \in SentPairs
      <4>1. s[i] \in Packet /\ s[i] # l /\ WasSent(s[i])
        BY <3>1, <3>4 DEF OrderInv, ArrivedInTurn
      <4>2. CASE <<l, s[i]>> \in SentPairs
        <5>1. PICK a \in 1 .. i - 1 : s[a] = l
          BY <3>1, <4>2 DEF OrderInv, ArrivedInTurn
        <5>2. a \in 1 .. c
          BY <3>2
        <5>3. QED
          BY <3>4, <5>1, <5>2
      <4>3. QED
        BY <3>1, <3>6, <4>1, <4>2, SentInTurn DEF OrderInv
    <3>7. ASSUME NEW y \in NicVn, y # x, NEW b \in 1 .. Len(nicInBuf'[y])
          PROVE  LET m == nicInBuf'[y][b]
                 IN  /\ WasSent(m)
                     /\ \A a \in 1 .. b - 1 : Service!SameFlow(nicInBuf'[y][a], m) =>
                          <<nicInBuf'[y][a], m>> \in SentPairs
                     /\ \A k \in Packet : <<k, m>> \in SentPairs =>
                          \E a \in 1 .. b - 1 : nicInBuf'[y][a] = k
      <4>1. nicInBuf'[y] = nicInBuf[y]
        BY <3>2, <3>7
      <4>2. b \in 1 .. Len(nicInBuf[y])
        BY <3>7, <4>1
      <4>3. QED
        BY <4>1, <4>2 DEF OrderInv, ArrivedInTurn
    <3> DEFINE t == Append(s, l)
    <3>8. ASSUME NEW b \in 1 .. Len(t)
          PROVE  LET m == t[b]
                 IN  /\ WasSent(m)
                     /\ \A a \in 1 .. b - 1 : Service!SameFlow(t[a], m) => <<t[a], m>> \in SentPairs
                     /\ \A k \in Packet : <<k, m>> \in SentPairs =>
                          \E a \in 1 .. b - 1 : t[a] = k
      <4>1. \A i \in 1 .. c :
               /\ WasSent(s[i])
               /\ \A a \in 1 .. i - 1 : Service!SameFlow(s[a], s[i]) => <<s[a], s[i]>> \in SentPairs
               /\ \A k \in Packet : <<k, s[i]>> \in SentPairs => \E a \in 1 .. i - 1 : s[a] = k
        BY <3>1 DEF OrderInv, ArrivedInTurn
      <4> HIDE DEF t, s, c, l
      <4>2. CASE b \in 1 .. c
        <5>1. t[b] = s[b] /\ \A a \in 1 .. b - 1 : a \in 1 .. c /\ t[a] = s[a]
          BY <3>2, <3>3, <4>2 DEF t
        <5>2. QED
          BY <4>1, <4>2, <5>1
      <4>3. CASE b = c + 1
        <5>1. t[b] = l /\ b - 1 = c /\ \A a \in 1 .. c : t[a] = s[a]
          BY <3>2, <3>3, <4>3 DEF t
        <5>2. QED
          BY <3>1, <3>5, <3>6, <5>1
      <4>4. QED
        BY <3>2, <3>3, <3>8, <4>2, <4>3 DEF t
    <3>9. nicInBuf'[x] = t
      BY <3>1, <3>2
    <3> HIDE DEF x, s, t, l, c
    <3>10. ASSUME NEW y \in NicVn, NEW b \in 1 .. Len(nicInBuf'[y])
           PROVE  LET m == nicInBuf'[y][b]
                  IN  /\ WasSent(m)
                      /\ \A a \in 1 .. b - 1 : Service!SameFlow(nicInBuf'[y][a], m) =>
                           <<nicInBuf'[y][a], m>> \in SentPairs
                      /\ \A k \in Packet : <<k, m>> \in SentPairs =>
                           \E a \in 1 .. b - 1 : nicInBuf'[y][a] = k
      <4>1. CASE y # x
        BY <3>7, <3>10, <4>1
      <4>2. CASE y = x
        BY <3>8, <3>9, <3>10, <4>2
      <4>3. QED
        BY <4>1, <4>2
    <3>11. QED
      BY <1>3, <3>10 DEF ArrivedInTurn
  <2>3. QED
    BY <2>1, <2>2
<1>8. QED
  BY <1>3, <1>4, <1>5, <1>6, <1>7 DEF OrderInv

LEMMA AddedOrder ==
  ASSUME TypeOK, NEW passed \in Past, OrderInv(passed), NEW next, Added(passed, next)
  PROVE  OrderInv(next)'
<1>1. PICK k \in Packet :
        /\ ~WasSent(k)
        /\ Streams' = AddAll(Streams, Source(k), FlitsOf(k))
        /\ next = passed
        /\ sent' = [sent EXCEPT ![Src[k]] = Append(@, k)]
        /\ nicInBuf' = nicInBuf
  BY DEF Added, Source
<1> DEFINE a == Source(k)
           t == FlitsOf(k)
<1>2. a \in Unit
  BY SourceUnit DEF Source
<1>3. \A u \in Unit : Log(passed, u)' = IF u = a THEN Log(passed, u) \o t ELSE Log(passed, u)
  BY <1>1, <1>2, LogsAdd
<1>4. /\ SentOnce' /\ SentPairs \subseteq SentPairs'
      /\ \A h, m \in Packet : <<h, m>> \in SentPairs' /\ <<h, m>> \notin SentPairs =>
           m = k /\ WasSent(h) /\ Src[h] = Src[k] /\ PktVn[h] = PktVn[k]
  BY <1>1, SendOnce DEF OrderInv
<1>5. \A l \in Packet : WasSent(l)' <=> WasSent(l) \/ l = k
  BY <1>1, SentNext
<1>6. /\ t \in Seq(Flit) /\ \A i \in 1 .. Len(t) : t[i].pkt = k
      /\ Has(t, TailOf(k))
  <2>1. Len(t) = NumFlits[k] /\ NumFlits[k] \in 1 .. NumFlits[k]
    <3>1. NumFlits[k] \in Nat \ {0}
      BY PacketAssumption
    <3>2. NumFlits[k] \in 1 .. NumFlits[k]
      BY <3>1
    <3>3. QED
      BY <3>2, FlitsOfFacts
  <2>2. t[NumFlits[k]] = TailOf(k)
    BY <2>1 DEF FlitsOf, TailOf
  <2>3. \A i \in 1 .. NumFlits[k] : t[i].pkt = k
    BY DEF FlitsOf
  <2>4. QED
    BY <2>1, <2>2, <2>3, FlitsOfFacts DEF Has
<1>7. \A u \in Unit : Log(passed, u) \in Seq(Flit)
  BY LogTypes
<1>8. ASSUME NEW u \in Unit, NEW i \in 1 .. Len(Log(passed, u))
      PROVE  /\ Log(passed, u)[i].pkt \in Packet /\ WasSent(Log(passed, u)[i].pkt)
             /\ Log(passed, u)[i].pkt # k
  <2>1. Log(passed, u)[i] \in Flit
    BY <1>7, ElementOfSeq
  <2>2. QED
    BY <1>1, <2>1 DEF OrderInv, LogsSent, Flit
<1> HIDE DEF a, t
<1>9. ASSUME NEW u \in Unit, NEW e, Has(Log(passed, u), e)
      PROVE  Has(Log(passed, u)', e)
  <2>1. CASE u = a
    <3> DEFINE s == Log(passed, u)
    <3>1. s \in Seq(Flit) /\ Has(s, e) /\ Log(passed, u)' = s \o t
      BY <1>3, <1>7, <1>9, <2>1
    <3> HIDE DEF s
    <3>2. QED
      BY <1>6, <3>1, HasConcat
  <2>2. CASE u # a
    BY <1>3, <1>9, <2>2
  <2>3. QED
    BY <2>1, <2>2
<1>10. LogsSent(next)'
  <2>1. ASSUME NEW u \in Unit, NEW i \in 1 .. Len(Log(passed, u)')
        PROVE  \E l \in Packet : Log(passed, u)'[i].pkt = l /\ (WasSent(l) \/ l = k)
    <3>1. CASE u # a
      BY <1>3, <1>8, <2>1, <3>1
    <3>2. CASE u = a
      <4> DEFINE s == Log(passed, u)
      <4>1. /\ s \in Seq(Flit) /\ Log(passed, u)' = s \o t
            /\ \A j \in 1 .. Len(s) : s[j].pkt \in Packet /\ WasSent(s[j].pkt)
        BY <1>3, <1>7, <1>8, <3>2
      <4> HIDE DEF s
      <4>2. \/ \E j \in 1 .. Len(s) : (s \o t)[i] = s[j]
            \/ \E j \in 1 .. Len(t) : (s \o t)[i] = t[j]
        <5>1. i \in 1 .. Len(s \o t)
          BY <2>1, <4>1
        <5>2. QED
          BY <1>6, <4>1, <5>1, InConcat
      <4>3. (s \o t)[i].pkt \in Packet /\ (WasSent((s \o t)[i].pkt) \/ (s \o t)[i].pkt = k)
        BY <1>6, <4>1, <4>2
      <4>4. QED
        BY <4>1, <4>3
    <3>3. QED
      BY <3>1, <3>2
  <2>2. ASSUME NEW u \in Unit, NEW i \in 1 .. Len(Log(passed, u)')
        PROVE  WasSent(Log(passed, u)[i].pkt)'
    <3>1. PICK l \in Packet : Log(passed, u)'[i].pkt = l /\ (WasSent(l) \/ l = k)
      BY <2>1
    <3>2. WasSent(l)'
      BY <1>5, <3>1
    <3>3. QED
      BY <3>1, <3>2 DEF WasSent
  <2>3. QED
    BY <1>1, <2>2 DEF LogsSent
<1>11. TailsSent(next)'
  <2>1. ASSUME NEW l \in Packet, WasSent(l)'
        PROVE  Has(Log(passed, Source(l))', TailOf(l))
    <3>1. CASE WasSent(l)
      BY <1>9, <3>1, SourceUnit DEF OrderInv, TailsSent, Source
    <3>2. CASE l = k
      <4> DEFINE s == Log(passed, a)
      <4>1. s \in Seq(Flit) /\ Log(passed, a)' = s \o t
        BY <1>2, <1>3, <1>7
      <4> HIDE DEF s
      <4>2. Has(s \o t, TailOf(k))
        BY <1>6, <4>1, HasConcat
      <4>3. QED
        BY <3>2, <4>1, <4>2 DEF a
    <3>3. QED
      BY <1>5, <2>1, <3>1, <3>2
  <2>2. QED
    BY <1>1, <2>1 DEF TailsSent
<1>12. Forwarded(next)'
  <2>1. ASSUME NEW c \in Unit, Peer[c[1]] \in Port, NEW i \in 1 .. Len(passed[c])
        PROVE  Has(Log(passed, Onto(c, passed[c][i].pkt))', passed[c][i])
    BY <1>9, <2>1, PassedFlit, OntoUnit DEF OrderInv, Forwarded
  <2>2. QED
    BY <1>1, <2>1 DEF Forwarded
<1>13. LogsOrdered(next)'
  <2>1. ASSUME NEW u \in Unit
        PROVE  Ordered(Log(passed, u)', SentPairs')
    <3> DEFINE s     == Log(passed, u)
               pairs == SentPairs
               more  == SentPairs'
    <3>1. /\ s \in Seq(Flit) /\ Ordered(s, pairs)
          /\ Log(passed, u)' = IF u = a THEN s \o t ELSE s
      BY <1>3, <1>7 DEF OrderInv, LogsOrdered
    <3>2. \A h \in Packet : \A i \in 1 .. Len(s) :
            <<h, s[i].pkt>> \in more => <<h, s[i].pkt>> \in pairs
      BY <1>4, <1>8
    <3>3. CASE u = a
      <4>1. ASSUME NEW h \in Packet, <<h, k>> \in more
            PROVE  Has(s, TailOf(h))
        <5>1. <<h, k>> \notin SentPairs
          BY <1>1, PairFacts
        <5>2. WasSent(h) /\ Source(h) = a
          BY <1>4, <4>1, <5>1 DEF Source, a
        <5>3. QED
          BY <3>3, <5>2 DEF OrderInv, TailsSent
      <4>2. \A h \in Packet : \A i \in 1 .. Len(t) : <<h, t[i].pkt>> \in more => Has(s, TailOf(h))
        BY <1>6, <4>1
      <4> HIDE DEF s, pairs, more
      <4>3. Ordered(s \o t, more)
        BY <1>6, <3>1, <3>2, <4>2, OrderedConcat
      <4>4. QED
        BY <3>1, <3>3, <4>3 DEF more
    <3>4. CASE u # a
      <4> HIDE DEF s, pairs, more
      <4>1. Ordered(s, more)
        BY <3>1, <3>2 DEF Ordered
      <4>2. QED
        BY <3>1, <3>4, <4>1 DEF more
    <3>5. QED
      BY <3>3, <3>4
  <2>2. QED
    BY <1>1, <2>1 DEF LogsOrdered
<1>14. ArrivedInTurn'
  <2>1. nicInBuf' = nicInBuf
    BY <1>1
  <2>2. ASSUME NEW x \in NicVn, NEW b \in 1 .. Len(nicInBuf[x]), NEW l, l = nicInBuf[x][b]
        PROVE  /\ l \in Packet /\ WasSent(l)'
               /\ \A c \in 1 .. b - 1 :
                    Service!SameFlow(nicInBuf[x][c], l) => <<nicInBuf[x][c], l>> \in SentPairs'
               /\ \A h \in Packet : <<h, l>> \in SentPairs' =>
                    \E c \in 1 .. b - 1 : nicInBuf[x][c] = h
    <3>1. l \in Packet
      BY <2>2, ElementOfSeq DEF TypeOK, NicTypeOK
    <3>2. /\ WasSent(l)
          /\ \A c \in 1 .. b - 1 :
                Service!SameFlow(nicInBuf[x][c], l) => <<nicInBuf[x][c], l>> \in SentPairs
          /\ \A h \in Packet : <<h, l>> \in SentPairs =>
                \E c \in 1 .. b - 1 : nicInBuf[x][c] = h
      BY <2>2 DEF OrderInv, ArrivedInTurn
    <3>3. l # k
      BY <1>1, <3>2
    <3>4. \A h \in Packet : <<h, l>> \in SentPairs' => <<h, l>> \in SentPairs
      BY <1>4, <3>1, <3>3
    <3>5. QED
      BY <1>4, <1>5, <3>1, <3>2, <3>4
  <2>3. ASSUME NEW x \in NicVn, NEW b \in 1 .. Len(nicInBuf[x])
        PROVE  /\ WasSent(nicInBuf[x][b])'
               /\ \A c \in 1 .. b - 1 :
                    Service!SameFlow(nicInBuf[x][c], nicInBuf[x][b])' =>
                      <<nicInBuf[x][c], nicInBuf[x][b]>> \in SentPairs'
               /\ \A h \in Packet : <<h, nicInBuf[x][b]>> \in SentPairs' =>
                    \E c \in 1 .. b - 1 : nicInBuf[x][c] = h
    <3>1. WasSent(nicInBuf[x][b])'
      BY <2>1, <2>2 DEF WasSent
    <3>2. \A c \in 1 .. b - 1 :
            Service!SameFlow(nicInBuf[x][c], nicInBuf[x][b])' =>
              Service!SameFlow(nicInBuf[x][c], nicInBuf[x][b])
      BY <2>1 DEF Service!SameFlow, Service!Inbox
    <3>3. QED
      BY <2>2, <3>1, <3>2
  <2>4. QED
    BY <2>1, <2>3 DEF ArrivedInTurn
<1>15. QED
  BY <1>4, <1>10, <1>11, <1>12, <1>13, <1>14 DEF OrderInv

-----------------------------------------------------------------------------
(* The invariant, and the steps of the service.                            *)

LEMMA OrderSteps ==
  ASSUME NumVcs = 1, TypeOK, NEW passed \in Past, NEW gone \in [Packet -> Nat],
         WormInv(passed), DeliveryInv(passed, gone), OrderInv(passed),
         NEW next \in Past, PastStep(passed, next)
  PROVE  OrderInv(next)'
<1>1. CASE Kept(passed, next)
  BY <1>1, KeptOrder
<1>2. CASE Moved(passed, next)
  BY <1>2, MovedOrder
<1>3. CASE Dropped(passed, next)
  BY <1>3, DroppedOrder
<1>4. CASE Added(passed, next)
  BY <1>4, AddedOrder
<1>5. QED
  BY <1>1, <1>2, <1>3, <1>4 DEF PastStep

\* Send(k) is the step Accept(k) of the service, a NIC that takes a TAIL does the step
\* HandOver of its packet, and nothing else is seen by the endpoints.
LEMMA ServiceSteps ==
  ASSUME TypeOK, NEW passed \in Past, NEW gone \in [Packet -> Nat],
         WormInv(passed), DeliveryInv(passed, gone), NumVcs = 1 => OrderInv(passed),
         NEW next \in Past, PastStep(passed, next)
  PROVE  [Service!Next]_(Service!serviceVars)
<1>1. CASE Kept(passed, next) \/ Moved(passed, next)
  BY <1>1 DEF Kept, Moved, Service!serviceVars
<1>2. CASE Added(passed, next)
  <2>1. PICK k \in Packet : ~WasSent(k) /\ sent' = [sent EXCEPT ![Src[k]] = Append(@, k)]
                            /\ nicInBuf' = nicInBuf
    BY <1>2 DEF Added
  <2>2. Service!Accept(k)
    BY <2>1 DEF Service!Accept, Service!Accepted, WasSent
  <2>3. QED
    BY <2>2 DEF Service!Next
<1>3. CASE Dropped(passed, next)
  <2>1. PICK u \in Unit, f \in Flit :
          /\ Peer[u[1]] \in Nic /\ Streams[u] # <<>> /\ Head(Streams[u]) = f
          /\ nicInBuf' = IF IsTail(f)
                         THEN [nicInBuf EXCEPT ![<<Peer[u[1]], u[2]>>] = Append(@, f.pkt)]
                         ELSE nicInBuf
          /\ sent' = sent
    BY <1>3 DEF Dropped
  <2>2. CASE ~IsTail(f)
    BY <2>1, <2>2 DEF Service!serviceVars
  <2>3. CASE IsTail(f)
    <3> DEFINE k == f.pkt
               x == <<Peer[u[1]], u[2]>>
    <3>1. k \in Packet /\ WasSent(k) /\ k \notin Complete(gone) /\ Service!Inbox(k) = x
      BY <2>1, TakenFacts DEF Service!Inbox
    <3>2. x \in NicVn
      BY <3>1, PacketAssumption DEF Service!Inbox, NicVn
    <3>3. Service!Accepted(k)
      BY <3>1 DEF Service!Accepted, WasSent
    <3>4. ~Service!HandedOver(k)
      BY <3>1, <3>2 DEF Service!HandedOver, DeliveryInv, OnceEach
    <3>5. ASSUME NumVcs = 1, NEW l \in Packet, Service!SentBefore(l, k)
          PROVE  Service!HandedOver(l)
      <4>1. <<l, k>> \in SentPairs
        BY <3>1, <3>5 DEF SentPairs
      <4>2. Has(nicInBuf[x], l)
        BY <2>1, <3>5, <4>1, PredecessorsArrived DEF OrderInv
      <4>3. Service!Inbox(l) = x
        BY <3>1, <3>5 DEF Service!SentBefore, Service!SameFlow
      <4>4. QED
        BY <4>2, <4>3 DEF Service!HandedOver, Has
    <3>6. nicInBuf' = [nicInBuf EXCEPT ![Service!Inbox(k)] = Append(@, k)]
      BY <2>1, <2>3, <3>1
    <3>7. Service!HandOver(k)
      BY <2>1, <3>3, <3>4, <3>5, <3>6 DEF Service!HandOver
    <3>8. QED
      BY <3>1, <3>7 DEF Service!Next
  <2>4. QED
    BY <2>2, <2>3
<1>4. QED
  BY <1>1, <1>2, <1>3 DEF PastStep

ServiceInv ==
  \E passed \in Past, gone \in [Packet -> Nat] :
    WormInv(passed) /\ DeliveryInv(passed, gone) /\ (NumVcs = 1 => OrderInv(passed))

LEMMA InitServiceInv == Init => ServiceInv /\ Service!Init
<1> SUFFICES ASSUME Init PROVE ServiceInv /\ Service!Init
  OBVIOUS
<1>1. PICK passed \in Past : WormInv(passed) /\ \A u \in Unit : passed[u] = <<>>
  BY InitWorms
<1>2. PICK gone \in [Packet -> Nat] : \A k \in Packet : gone[k] = 0
  <2> DEFINE none == [k \in Packet |-> 0]
  <2>1. none \in [Packet -> Nat] /\ \A k \in Packet : none[k] = 0
    OBVIOUS
  <2>2. QED
    BY <2>1
<1>3. \A u \in Unit : passed[u] = <<>> /\ Streams[u] = <<>>
  BY <1>1, InitWorms
<1>4. DeliveryInv(passed, gone)
  BY <1>2, <1>3, InitDelivery
<1>5. OrderInv(passed)
  <2>1. \A u \in Unit : Log(passed, u) = <<>>
    BY <1>3 DEF Log
  <2>2. \A k \in Packet : ~WasSent(k)
    BY PacketAssumption DEF Init, NicInit, WasSent
  <2>3. SentOnce /\ ArrivedInTurn
    BY DEF Init, NicInit, SentOnce, ArrivedInTurn
  <2>4. LogsSent(passed) /\ TailsSent(passed) /\ LogsOrdered(passed)
    BY <2>1, <2>2 DEF LogsSent, TailsSent, LogsOrdered, Ordered
  <2>5. Forwarded(passed)
    BY <1>1 DEF Forwarded
  <2>6. QED
    BY <2>3, <2>4, <2>5 DEF OrderInv
<1>6. Service!Init
  BY DEF Init, NicInit, NicVn, Service!Init
<1>7. QED
  BY <1>1, <1>4, <1>5, <1>6 DEF ServiceInv

LEMMA NextServiceInv ==
  AllocInv /\ ServiceInv /\ [Next]_vars => ServiceInv' /\ [Service!Next]_(Service!serviceVars)
<1> SUFFICES ASSUME AllocInv, ServiceInv, [Next]_vars
             PROVE  ServiceInv' /\ [Service!Next]_(Service!serviceVars)
  OBVIOUS
<1>1. PICK passed \in Past, gone \in [Packet -> Nat] :
        WormInv(passed) /\ DeliveryInv(passed, gone) /\ (NumVcs = 1 => OrderInv(passed))
  BY DEF ServiceInv
<1>2. TypeOK
  BY DEF AllocInv
<1>3. PICK next \in Past : WormInv(next)' /\ PastStep(passed, next)
  BY <1>1, WormSteps
<1>4. PICK more \in [Packet -> Nat] : DeliveryInv(next, more)'
  BY <1>1, <1>2, <1>3, DeliverySteps
<1>5. NumVcs = 1 => OrderInv(next)'
  BY <1>1, <1>2, <1>3, OrderSteps
<1>6. ServiceInv'
  BY <1>3, <1>4, <1>5 DEF ServiceInv
<1>7. QED
  BY <1>1, <1>2, <1>3, <1>6, ServiceSteps

\* Packets that arrive in turn arrive in the order of their flow.
LEMMA InTurnIsInOrder == AllocInv /\ ServiceInv => FlowOrder
<1> SUFFICES ASSUME AllocInv, ServiceInv, NumVcs = 1,
                    NEW x \in NicVn, NEW b \in 1 .. Len(nicInBuf[x])
             PROVE  LET l == nicInBuf[x][b]
                    IN  /\ Service!Accepted(l)
                        /\ \A a \in 1 .. b - 1 : Service!SameFlow(nicInBuf[x][a], l) =>
                             Service!SentBefore(nicInBuf[x][a], l)
                        /\ \A k \in Packet : Service!SentBefore(k, l) =>
                             \E a \in 1 .. b - 1 : nicInBuf[x][a] = k
  BY DEF FlowOrder, Service!FlowsInOrder, NicVn
<1>1. ArrivedInTurn
  BY DEF ServiceInv, OrderInv
<1>2. nicInBuf[x][b] \in Packet
  BY ElementOfSeq DEF AllocInv, TypeOK, NicTypeOK
<1> DEFINE l == nicInBuf[x][b]
<1>3. Service!Accepted(l)
  BY <1>1 DEF ArrivedInTurn, WasSent, Service!Accepted
<1>4. \A a \in 1 .. b - 1 : Service!SameFlow(nicInBuf[x][a], l) =>
        Service!SentBefore(nicInBuf[x][a], l)
  BY <1>1 DEF ArrivedInTurn, SentPairs
<1>5. \A k \in Packet : Service!SentBefore(k, l) => \E a \in 1 .. b - 1 : nicInBuf[x][a] = k
  BY <1>1, <1>2 DEF ArrivedInTurn, SentPairs
<1>6. QED
  BY <1>3, <1>4, <1>5

LEMMA ServiceInvariant == Spec => [](AllocInv /\ ServiceInv) /\ ServiceImplemented
<1>1. Init => ServiceInv /\ Service!Init
  BY InitServiceInv
<1>2. AllocInv /\ ServiceInv /\ [Next]_vars => ServiceInv' /\ [Service!Next]_(Service!serviceVars)
  BY NextServiceInv
<1>3. QED
  BY <1>1, <1>2, AllocInvariant, PTL DEF Spec, ServiceImplemented, Service!Spec

\* The network is the service the endpoints rely on: whatever its ports, crossbars,
\* allocators, NICs and links do between send() and recv(), each packet send()
\* accepted is handed over at most once, where it belongs, and nothing else is.
THEOREM NetworkIsService == Spec => ServiceImplemented
BY ServiceInvariant, PTL

\* With one virtual channel per virtual network, the packets one NIC sends another
\* are handed over in the order send() accepted them, with none left out.
THEOREM FlowsStayInOrder == Spec => []FlowOrder
BY ServiceInvariant, InTurnIsInOrder, PTL
=============================================================================
