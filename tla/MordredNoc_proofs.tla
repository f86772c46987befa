-------------------------- MODULE MordredNoc_proofs --------------------------
(***************************************************************************)
(* Proofs about the network, for any number of routers, ports, NICs,       *)
(* virtual networks, virtual channels and packets, any topology and any    *)
(* buffer sizes.                                                           *)
(***************************************************************************)
EXTENDS MordredNoc, TLAPS

\* What the allocation of output VCs and of the crossbar keeps true.
AllocInv == TypeOK /\ RequestsCurrent /\ CrossbarMatching /\ VcOwnership

\* A unit is the triple of its parts, and the ends of a stream are each
\* other's far end.
LEMMA UnitFacts ==
  ASSUME NEW u \in Unit
  PROVE  /\ u = <<u[1], u[2], u[3]>>
         /\ u[1] \in End /\ u[2] \in VN /\ u[3] \in VC
         /\ u[1] \in Port => u \in PortUnit
         /\ Far(u) \in Unit /\ Far(Far(u)) = u
         /\ Far(u)[1] = Peer[u[1]] /\ Far(u)[2] = u[2] /\ Far(u)[3] = u[3]
BY LinkAssumption DEF Unit, PortUnit, Far, End

LEMMA PortUnitFacts ==
  ASSUME NEW u \in PortUnit
  PROVE  /\ u = <<u[1], u[2], u[3]>>
         /\ u[1] \in Port /\ u[2] \in VN /\ u[3] \in VC
         /\ u \in Unit /\ u # None
BY NoneAssumption DEF Unit, PortUnit, End

LEMMA NoneFacts == None \notin PortUnit /\ None \notin Port /\ None \notin VC
BY NoneAssumption DEF PortUnit, Unit, End

\* A function keeps its type when one of its values is replaced.
LEMMA ExceptType ==
  ASSUME NEW S, NEW T, NEW f \in [S -> T], NEW a \in S, NEW v \in T
  PROVE  [f EXCEPT ![a] = v] \in [S -> T]
OBVIOUS

LEMMA InitAllocInv == Init => AllocInv
<1> SUFFICES ASSUME Init PROVE AllocInv
  OBVIOUS
<1> USE NoneFacts DEF Init, LinkInit, PortInit, NicInit
<1>1. LinkTypeOK
  BY DEF LinkTypeOK
<1>2. PortTypeOK
  BY SizeAssumption, UnitFacts, PortUnitFacts, LinkAssumption DEF PortTypeOK, LinkCredits, End
<1>3. NicTypeOK
  BY SizeAssumption, LinkAssumption DEF NicTypeOK, NicVn, LinkCredits, End, VN, VC
<1>4. RequestsCurrent
  BY PortUnitFacts DEF RequestsCurrent
<1>5. CrossbarMatching
  BY DEF CrossbarMatching
<1>6. VcOwnership
  BY DEF VcOwnership
<1>7. QED
  BY <1>1, <1>2, <1>3, <1>4, <1>5, <1>6 DEF AllocInv, TypeOK

\* A packet is given an output VC: the unit it gets was nobody's, and the packet
\* had none.
LEMMA VcGrantAllocInv ==
  ASSUME AllocInv, NEW in \in PortUnit, NEW vc \in VC,
         VcGrant(in, vc), UNCHANGED <<linkVars, nicVars>>
  PROVE  AllocInv'
<1> DEFINE out == <<outPort[in], in[2], vc>>
<1> USE NoneFacts DEF AllocInv, TypeOK
<1>1. /\ outVc[in] = None /\ inVcState[in] = "WAIT_VC" /\ outPort[in] \in Port
      /\ out \in PortUnit /\ outSrc[out] = None
  BY PortUnitFacts DEF VcGrant, FreeVc, RequestsCurrent, VcOwnership, PortTypeOK, PortUnit
<1>2. TypeOK'
  BY <1>1 DEF VcGrant, PortTypeOK, LinkTypeOK, NicTypeOK, linkVars, nicVars, xbarVars
<1>3. RequestsCurrent'
  BY <1>1 DEF VcGrant, PortTypeOK, RequestsCurrent, xbarVars
<1>4. CrossbarMatching'
  BY <1>1 DEF VcGrant, PortTypeOK, RequestsCurrent, CrossbarMatching, xbarVars, Granted, UnitsOf
<1>5. VcOwnership'
  <2> DEFINE GrantedNext(i) == <<outPort'[i], i[2], outVc'[i]>>
  <2>1. /\ outVc' = [outVc EXCEPT ![in] = vc]
        /\ outVcState' = [outVcState EXCEPT ![out] = "OUT_BUSY"]
        /\ outSrc' = [outSrc EXCEPT ![out] = in]
        /\ outPort' = outPort
        /\ in # None /\ vc # None
    BY PortUnitFacts DEF VcGrant
  <2>2. outVc'[in] = vc /\ GrantedNext(in) = out /\ outSrc'[out] = in
    BY <1>1, <2>1 DEF PortTypeOK
  <2>3. \A i \in PortUnit \ {in} : outVc'[i] = outVc[i] /\ GrantedNext(i) = Granted(i)
    BY <1>1, <2>1 DEF PortTypeOK, Granted
  <2>4. \A o \in PortUnit \ {out} : outSrc'[o] = outSrc[o] /\ outVcState'[o] = outVcState[o]
    BY <1>1, <2>1 DEF PortTypeOK
  <2>5. \A o \in PortUnit : outVcState'[o] = "OUT_IDLE" <=> outSrc'[o] = None
    BY <1>1, <2>1 DEF PortTypeOK, VcOwnership
  <2> HIDE DEF GrantedNext
  <2>6. ASSUME NEW o \in PortUnit, outSrc'[o] # None
        PROVE  outVc'[outSrc'[o]] # None /\ GrantedNext(outSrc'[o]) = o
    <3>1. CASE o = out
      BY <3>1, <2>1, <2>2
    <3>2. CASE o # out
      <4>1. outSrc[o] \in PortUnit \ {in} /\ outVc[outSrc[o]] # None /\ Granted(outSrc[o]) = o
        BY <3>2, <2>6, <2>4, <1>1 DEF PortTypeOK, VcOwnership
      <4>2. QED
        BY <4>1, <3>2, <2>3, <2>4
    <3>3. QED
      BY <3>1, <3>2
  <2>7. ASSUME NEW i \in PortUnit, outVc'[i] # None
        PROVE  GrantedNext(i) \in PortUnit /\ outSrc'[GrantedNext(i)] = i
    <3>1. CASE i = in
      BY <3>1, <1>1, <2>2
    <3>2. CASE i # in
      <4>1. Granted(i) \in PortUnit /\ outSrc[Granted(i)] = i
        BY <3>2, <2>7, <2>3 DEF VcOwnership
      <4>2. Granted(i) # out
        BY <4>1, <1>1, PortUnitFacts
      <4>3. QED
        BY <4>1, <4>2, <3>2, <2>3, <2>4
    <3>3. QED
      BY <3>1, <3>2
  <2>8. QED
    BY <2>5, <2>6, <2>7 DEF VcOwnership, Granted, GrantedNext
<1>6. QED
  BY <1>2, <1>3, <1>4, <1>5

\* An input is connected to an output: neither was connected, and the request
\* that is served was made by the packet that owns the output VC.
LEMMA SwitchGrantAllocInv ==
  ASSUME AllocInv, NEW in \in PortUnit,
         SwitchGrant(in), UNCHANGED <<linkVars, nicVars>>
  PROVE  AllocInv'
<1> DEFINE q == in[1]
           p == outPort[in]
           out == Granted(in)
<1> USE NoneFacts DEF AllocInv, TypeOK
<1>1. /\ inVcState[in] = "IN_ACTIVE" /\ p \in Port /\ q \in Port /\ in # None
      /\ out \in PortUnit /\ out # None
      /\ sendTo[q] = None /\ sendFrom[q] = None /\ rcvTo[p] = None /\ rcvFrom[p] = None
  BY PortUnitFacts
  DEF SwitchGrant, Unconnected, RequestsCurrent, CrossbarMatching, VcOwnership, PortTypeOK
<1>2. /\ sendTo' = [sendTo EXCEPT ![q] = p]
      /\ sendFrom' = [sendFrom EXCEPT ![q] = in]
      /\ rcvFrom' = [rcvFrom EXCEPT ![p] = q]
      /\ rcvTo' = [rcvTo EXCEPT ![p] = out]
      /\ needSwitchAlloc' = needSwitchAlloc \ {in}
      /\ in \in needSwitchAlloc
      /\ UNCHANGED <<inVars, outVars, needVcAlloc>>
  BY DEF SwitchGrant, Granted
<1>3. TypeOK'
  <2>1. LinkTypeOK' /\ NicTypeOK'
    BY DEF LinkTypeOK, NicTypeOK, linkVars, nicVars
  <2>2. sendTo' \in [Port -> Port \cup {None}] /\ rcvFrom' \in [Port -> Port \cup {None}]
    BY <1>1, <1>2 DEF PortTypeOK
  <2>3. /\ sendFrom' \in [Port -> PortUnit \cup {None}]
        /\ rcvTo' \in [Port -> PortUnit \cup {None}]
    BY <1>1, <1>2 DEF PortTypeOK
  <2>4. QED
    BY <1>2, <2>1, <2>2, <2>3 DEF PortTypeOK, inVars, outVars
<1>4. RequestsCurrent'
  <2>1. sendFrom[in[1]] # in /\ sendFrom'[in[1]] = in
    BY <1>1, <1>2 DEF PortTypeOK
  <2>2. ASSUME NEW i \in PortUnit, i # in
        PROVE  sendFrom'[i[1]] = i <=> sendFrom[i[1]] = i
    BY <2>2, <1>1, <1>2, PortUnitFacts DEF PortTypeOK
  <2>3. QED
    BY <1>1, <1>2, <2>1, <2>2 DEF RequestsCurrent, inVars
<1>5. CrossbarMatching'
  <2>1. \A a \in Port : (rcvFrom'[a] = None) <=> (rcvTo'[a] = None)
    BY <1>1, <1>2 DEF PortTypeOK, CrossbarMatching
  <2>2. \A a \in Port : (sendTo'[a] = None) <=> (sendFrom'[a] = None)
    BY <1>1, <1>2 DEF PortTypeOK, CrossbarMatching
  <2>3. \A a \in Port : rcvFrom'[a] # None => sendTo'[rcvFrom'[a]] = a
    BY <1>1, <1>2 DEF PortTypeOK, CrossbarMatching
  <2>4. ASSUME NEW a \in Port, sendTo'[a] # None
        PROVE  /\ rcvFrom'[sendTo'[a]] = a
               /\ sendFrom'[a] \in UnitsOf(a)
               /\ outPort[sendFrom'[a]] = sendTo'[a]
               /\ rcvTo'[sendTo'[a]] = Granted(sendFrom'[a])
    <3>1. CASE a = q
      <4>1. sendTo'[a] = p /\ sendFrom'[a] = in
        BY <3>1, <1>1, <1>2 DEF PortTypeOK
      <4>2. rcvFrom'[p] = q /\ rcvTo'[p] = Granted(in)
        BY <1>1, <1>2 DEF PortTypeOK
      <4>3. in \in UnitsOf(q)
        BY PortUnitFacts DEF UnitsOf
      <4>4. QED
        BY <3>1, <4>1, <4>2, <4>3
    <3>2. CASE a # q
      <4>1. sendTo'[a] = sendTo[a] /\ sendFrom'[a] = sendFrom[a]
        BY <3>2, <1>1, <1>2 DEF PortTypeOK
      <4>2. /\ rcvFrom[sendTo[a]] = a /\ sendFrom[a] \in UnitsOf(a)
            /\ outPort[sendFrom[a]] = sendTo[a]
            /\ rcvTo[sendTo[a]] = Granted(sendFrom[a])
            /\ sendTo[a] \in Port
        BY <2>4, <4>1 DEF PortTypeOK, CrossbarMatching
      <4>3. sendTo[a] # p
        BY <4>2, <1>1
      <4>4. rcvFrom'[sendTo[a]] = rcvFrom[sendTo[a]] /\ rcvTo'[sendTo[a]] = rcvTo[sendTo[a]]
        BY <4>2, <4>3, <1>1, <1>2 DEF PortTypeOK
      <4>5. QED
        BY <4>1, <4>2, <4>4
    <3>3. QED
      BY <3>1, <3>2
  <2>5. QED
    BY <1>2, <2>1, <2>2, <2>3, <2>4 DEF CrossbarMatching, Granted, inVars
<1>6. VcOwnership'
  BY <1>2 DEF VcOwnership, Granted, inVars, outVars
<1>7. QED
  BY <1>3, <1>4, <1>5, <1>6

\* The units a crossbar connection joins.
LEMMA ConnectionFacts ==
  ASSUME AllocInv, NEW p \in Port, rcvFrom[p] # None
  PROVE  LET q == rcvFrom[p]
             in == sendFrom[q]
             out == rcvTo[p]
         IN  /\ q \in Port /\ in \in PortUnit /\ out \in PortUnit
             /\ in[1] = q /\ out[1] = p /\ out = Granted(in) /\ outSrc[out] = in
             /\ sendTo[q] = p /\ outPort[in] = p
             /\ inVcState[in] = "IN_ACTIVE" /\ outVc[in] # None
             /\ in \notin needVcAlloc /\ in \notin needSwitchAlloc
<1> DEFINE q == rcvFrom[p]
           in == sendFrom[q]
           out == rcvTo[p]
<1> USE NoneFacts DEF AllocInv, TypeOK
<1>1. q \in Port /\ sendTo[q] = p
  BY DEF PortTypeOK, CrossbarMatching
<1>2. in \in PortUnit /\ in[1] = q /\ outPort[in] = p /\ out = Granted(in)
  BY <1>1 DEF PortTypeOK, CrossbarMatching, UnitsOf
<1>3. /\ inVcState[in] = "IN_ACTIVE" /\ outVc[in] # None
      /\ in \notin needVcAlloc /\ in \notin needSwitchAlloc
  BY <1>2 DEF RequestsCurrent
<1>4. out \in PortUnit /\ out[1] = p /\ outSrc[out] = in
  BY <1>2, <1>3 DEF VcOwnership, Granted
<1>5. QED
  BY <1>1, <1>2, <1>3, <1>4

\* A flit crosses the crossbar; with the TAIL both units and both ports are
\* released together.
LEMMA CrossbarTransferAllocInv ==
  ASSUME AllocInv, NEW p \in Port,
         CrossbarTransfer(p), UNCHANGED <<linkVars, nicVars>>
  PROVE  AllocInv'
<1> DEFINE q == rcvFrom[p]
           in == sendFrom[q]
           out == rcvTo[p]
           flit == Head(inBuf[in])
<1> USE NoneFacts DEF AllocInv, TypeOK
<1>1. /\ q \in Port /\ in \in PortUnit /\ out \in PortUnit
      /\ in[1] = q /\ out[1] = p /\ out = Granted(in) /\ outSrc[out] = in
      /\ sendTo[q] = p /\ outPort[in] = p
      /\ inVcState[in] = "IN_ACTIVE" /\ outVc[in] # None
      /\ in \notin needVcAlloc /\ in \notin needSwitchAlloc
      /\ in # None
  BY ConnectionFacts, PortUnitFacts DEF CrossbarTransfer
<1>2. /\ outBufCredits[out] > 0 /\ inBuf[in] # <<>>
      /\ inBuf' = [inBuf EXCEPT ![in] = Tail(@)]
      /\ retCredits' = [retCredits EXCEPT ![in] = @ + 1]
      /\ outBuf' = [outBuf EXCEPT ![out] = Append(@, flit)]
      /\ outBufCredits' = [outBufCredits EXCEPT ![out] = @ - 1]
      /\ UNCHANGED <<destCredits, needVcAlloc, needSwitchAlloc>>
  BY DEF CrossbarTransfer, needVars
<1>3. /\ inBuf' \in [PortUnit -> Seq(Flit)] /\ outBuf' \in [PortUnit -> Seq(Flit)]
      /\ retCredits' \in [PortUnit -> Nat] /\ outBufCredits' \in [PortUnit -> Nat]
      /\ flit \in Flit
  <2>1. inBuf[in] \in Seq(Flit) /\ outBuf[out] \in Seq(Flit)
        /\ retCredits[in] \in Nat /\ outBufCredits[out] \in Nat
    BY <1>1 DEF PortTypeOK
  <2>2. flit \in Flit /\ Tail(inBuf[in]) \in Seq(Flit)
    BY <1>2, <2>1
  <2>3. Append(outBuf[out], flit) \in Seq(Flit)
    BY <2>1, <2>2
  <2>4. inBuf' \in [PortUnit -> Seq(Flit)]
    BY <1>1, <1>2, <2>2, ExceptType DEF PortTypeOK
  <2>5. outBuf' \in [PortUnit -> Seq(Flit)]
    BY <1>1, <1>2, <2>3, ExceptType DEF PortTypeOK
  <2>6. retCredits' \in [PortUnit -> Nat]
    <3>1. retCredits[in] + 1 \in Nat
      BY <2>1
    <3>2. QED
      BY <1>1, <1>2, <3>1, ExceptType DEF PortTypeOK
  <2>7. outBufCredits' \in [PortUnit -> Nat]
    BY <1>1, <1>2, <2>1 DEF PortTypeOK
  <2>8. QED
    BY <2>2, <2>4, <2>5, <2>6, <2>7
<1>4. CASE ~IsTail(flit)
  <2>1. UNCHANGED <<outPort, outVc, outSrc, inVcState, outVcState, xbarVars>>
    BY <1>4 DEF CrossbarTransfer, Releases
  <2>2. TypeOK'
    BY <1>2, <1>3, <2>1 DEF PortTypeOK, LinkTypeOK, NicTypeOK, linkVars, nicVars, xbarVars
  <2>3. RequestsCurrent' /\ CrossbarMatching' /\ VcOwnership'
    BY <1>2, <2>1 DEF RequestsCurrent, CrossbarMatching, VcOwnership, Granted, xbarVars
  <2>4. QED
    BY <2>2, <2>3
<1>5. CASE IsTail(flit)
  <2>1. /\ outPort' = [outPort EXCEPT ![in] = None]
        /\ outVc' = [outVc EXCEPT ![in] = None]
        /\ outSrc' = [outSrc EXCEPT ![out] = None]
        /\ inVcState' = [inVcState EXCEPT ![in] = "IN_IDLE"]
        /\ outVcState' = [outVcState EXCEPT ![out] = "OUT_IDLE"]
        /\ sendTo' = [sendTo EXCEPT ![q] = None]
        /\ sendFrom' = [sendFrom EXCEPT ![q] = None]
        /\ rcvFrom' = [rcvFrom EXCEPT ![p] = None]
        /\ rcvTo' = [rcvTo EXCEPT ![p] = None]
    BY <1>5 DEF CrossbarTransfer, Releases
  <2>2. TypeOK'
    <3>1. LinkTypeOK' /\ NicTypeOK'
      BY DEF LinkTypeOK, NicTypeOK, linkVars, nicVars
    <3>2. /\ inVcState' \in [PortUnit -> {"IN_IDLE", "ROUTING", "WAIT_VC", "IN_ACTIVE"}]
          /\ outVcState' \in [PortUnit -> {"OUT_IDLE", "OUT_BUSY"}]
      BY <1>1, <2>1 DEF PortTypeOK
    <3>3. /\ outPort' \in [PortUnit -> Port \cup {None}]
          /\ outVc' \in [PortUnit -> VC \cup {None}]
      BY <1>1, <2>1 DEF PortTypeOK
    <3>4. outSrc' \in [PortUnit -> PortUnit \cup {None}]
      BY <1>1, <2>1 DEF PortTypeOK
    <3>5. sendTo' \in [Port -> Port \cup {None}] /\ rcvFrom' \in [Port -> Port \cup {None}]
      BY <1>1, <2>1 DEF PortTypeOK
    <3>6. /\ sendFrom' \in [Port -> PortUnit \cup {None}]
          /\ rcvTo' \in [Port -> PortUnit \cup {None}]
      BY <1>1, <2>1 DEF PortTypeOK
    <3>7. destCredits' \in [PortUnit -> Nat] /\ needVcAlloc' \subseteq PortUnit
          /\ needSwitchAlloc' \subseteq PortUnit
      BY <1>2 DEF PortTypeOK
    <3>8. PortTypeOK'
      BY <1>3, <3>2, <3>3, <3>4, <3>5, <3>6, <3>7 DEF PortTypeOK
    <3>9. QED
      BY <3>1, <3>8
  <2>3. RequestsCurrent'
    <3>1. ASSUME NEW i \in PortUnit, i # in
          PROVE  /\ inVcState'[i] = inVcState[i] /\ outVc'[i] = outVc[i]
                 /\ outPort'[i] = outPort[i]
                 /\ sendFrom'[i[1]] = i <=> sendFrom[i[1]] = i
      <4>1. inVcState'[i] = inVcState[i] /\ outVc'[i] = outVc[i] /\ outPort'[i] = outPort[i]
        BY <3>1, <2>1 DEF PortTypeOK
      <4>2. CASE i[1] = q
        <5>1. sendFrom'[i[1]] = None
          BY <4>2, <1>1, <2>1 DEF PortTypeOK
        <5>2. i # None
          BY PortUnitFacts
        <5>3. QED
          BY <3>1, <4>1, <4>2, <5>1, <5>2
      <4>3. CASE i[1] # q
        BY <4>1, <4>3, <2>1, PortUnitFacts DEF PortTypeOK
      <4>4. QED
        BY <4>2, <4>3
    <3>2. /\ inVcState'[in] = "IN_IDLE" /\ outVc'[in] = None /\ outPort'[in] = None
          /\ sendFrom'[in[1]] # in
      BY <1>1, <2>1 DEF PortTypeOK
    <3>3. QED
      BY <3>1, <3>2, <1>1, <1>2 DEF RequestsCurrent
  <2> DEFINE GrantedNext(i) == <<outPort'[i], i[2], outVc'[i]>>
  <2>4. \A i \in PortUnit \ {in} : /\ outVc'[i] = outVc[i] /\ outPort'[i] = outPort[i]
                                   /\ GrantedNext(i) = Granted(i)
    BY <1>1, <2>1 DEF PortTypeOK, Granted
  <2> HIDE DEF GrantedNext
  <2>5. CrossbarMatching'
    <3>1. \A a \in Port : (rcvFrom'[a] = None) <=> (rcvTo'[a] = None)
      BY <1>1, <2>1 DEF PortTypeOK, CrossbarMatching
    <3>2. \A a \in Port : (sendTo'[a] = None) <=> (sendFrom'[a] = None)
      BY <1>1, <2>1 DEF PortTypeOK, CrossbarMatching
    <3>3. \A a \in Port : rcvFrom'[a] # None => sendTo'[rcvFrom'[a]] = a
      BY <1>1, <2>1 DEF PortTypeOK, CrossbarMatching
    <3>4. ASSUME NEW a \in Port, sendTo'[a] # None
          PROVE  /\ rcvFrom'[sendTo'[a]] = a
                 /\ sendFrom'[a] \in UnitsOf(a)
                 /\ outPort'[sendFrom'[a]] = sendTo'[a]
                 /\ rcvTo'[sendTo'[a]] = GrantedNext(sendFrom'[a])
      <4>1. a # q /\ sendTo'[a] = sendTo[a] /\ sendFrom'[a] = sendFrom[a]
        BY <3>4, <1>1, <2>1 DEF PortTypeOK
      <4>2. /\ rcvFrom[sendTo[a]] = a /\ sendFrom[a] \in UnitsOf(a)
            /\ outPort[sendFrom[a]] = sendTo[a]
            /\ rcvTo[sendTo[a]] = Granted(sendFrom[a])
            /\ sendTo[a] \in Port /\ sendFrom[a] \in PortUnit
        BY <3>4, <4>1 DEF PortTypeOK, CrossbarMatching
      <4>3. sendTo[a] # p /\ sendFrom[a] # in
        BY <4>1, <4>2, <1>1 DEF UnitsOf
      <4>4. QED
        BY <4>1, <4>2, <4>3, <2>1, <2>4 DEF PortTypeOK
    <3>5. QED
      BY <3>1, <3>2, <3>3, <3>4 DEF CrossbarMatching, Granted, GrantedNext
  <2>6. VcOwnership'
    <3>1. \A o \in PortUnit : outVcState'[o] = "OUT_IDLE" <=> outSrc'[o] = None
      BY <1>1, <2>1 DEF PortTypeOK, VcOwnership
    <3>2. \A o \in PortUnit \ {out} : outSrc'[o] = outSrc[o]
      BY <1>1, <2>1 DEF PortTypeOK
    <3>3. ASSUME NEW o \in PortUnit, outSrc'[o] # None
          PROVE  outVc'[outSrc'[o]] # None /\ GrantedNext(outSrc'[o]) = o
      <4>1. o # out /\ outSrc'[o] = outSrc[o] /\ outSrc[o] \in PortUnit
        BY <3>3, <1>1, <2>1 DEF PortTypeOK
      <4>2. outVc[outSrc[o]] # None /\ Granted(outSrc[o]) = o
        BY <3>3, <4>1 DEF VcOwnership
      <4>3. outSrc[o] # in
        BY <4>1, <4>2, <1>1
      <4>4. QED
        BY <4>1, <4>2, <4>3, <2>4
    <3>4. ASSUME NEW i \in PortUnit, outVc'[i] # None
          PROVE  GrantedNext(i) \in PortUnit /\ outSrc'[GrantedNext(i)] = i
      <4>1. i # in
        BY <3>4, <2>1 DEF PortTypeOK
      <4>2. Granted(i) \in PortUnit /\ outSrc[Granted(i)] = i
        BY <3>4, <4>1, <2>4 DEF VcOwnership
      <4>3. Granted(i) # out
        BY <4>1, <4>2, <1>1
      <4>4. QED
        BY <4>1, <4>2, <4>3, <2>4, <3>2
    <3>5. QED
      BY <3>1, <3>3, <3>4 DEF VcOwnership, Granted, GrantedNext
  <2>7. QED
    BY <2>2, <2>3, <2>5, <2>6
<1>6. QED
  BY <1>4, <1>5

\* The flit part and the credit part of a clock tick keep the types of the
\* buffers and counters they move.
LEMMA SendFlitType ==
  ASSUME AllocInv, NEW p \in Port, SendFlit(p)
  PROVE  /\ outBuf' \in [PortUnit -> Seq(Flit)]
         /\ outBufCredits' \in [PortUnit -> Nat]
         /\ destCredits' \in [PortUnit -> Nat]
         /\ wire' \in [Unit -> Seq(Flit)]
<1> USE DEF AllocInv, TypeOK, PortTypeOK, LinkTypeOK
<1>1. CASE UNCHANGED <<outBuf, outBufCredits, destCredits, wire>>
  BY <1>1
<1>2. ASSUME NEW u \in UnitsOf(p), Sendable(u),
             outBuf' = [outBuf EXCEPT ![u] = Tail(@)],
             outBufCredits' = [outBufCredits EXCEPT ![u] = @ + 1],
             destCredits' = [destCredits EXCEPT ![u] = @ - 1],
             TransportFlit(u, Head(outBuf[u]))
      PROVE  /\ outBuf' \in [PortUnit -> Seq(Flit)]
             /\ outBufCredits' \in [PortUnit -> Nat]
             /\ destCredits' \in [PortUnit -> Nat]
             /\ wire' \in [Unit -> Seq(Flit)]
  <2>1. u \in PortUnit /\ u \in Unit
    BY UnitFacts DEF UnitsOf
  <2>2. outBuf[u] \in Seq(Flit) /\ outBuf[u] # <<>> /\ wire[u] \in Seq(Flit)
        /\ destCredits[u] \in Nat /\ destCredits[u] > 0 /\ outBufCredits[u] \in Nat
    BY <1>2, <2>1 DEF Sendable
  <2>3. Head(outBuf[u]) \in Flit /\ Tail(outBuf[u]) \in Seq(Flit)
    BY <2>2
  <2>4. Append(wire[u], Head(outBuf[u])) \in Seq(Flit)
    BY <2>2, <2>3
  <2>5. outBuf' \in [PortUnit -> Seq(Flit)]
    BY <1>2, <2>1, <2>3, ExceptType
  <2>6. outBufCredits' \in [PortUnit -> Nat] /\ destCredits' \in [PortUnit -> Nat]
    BY <1>2, <2>1, <2>2
  <2>7. wire' \in [Unit -> Seq(Flit)]
    BY <1>2, <2>1, <2>4, ExceptType DEF TransportFlit
  <2>8. QED
    BY <2>5, <2>6, <2>7
<1>3. QED
  BY <1>1, <1>2 DEF SendFlit

LEMMA ReturnCreditType ==
  ASSUME AllocInv, NEW p \in Port, ReturnCredit(p)
  PROVE  retCredits' \in [PortUnit -> Nat] /\ creditWire' \in [Unit -> Nat]
<1> USE DEF AllocInv, TypeOK, PortTypeOK, LinkTypeOK
<1>1. PICK owing \in SUBSET {u \in UnitsOf(p) : retCredits[u] # 0} :
        /\ creditWire' = [u \in Unit |-> IF u \in owing THEN creditWire[u] + retCredits[u]
                                                        ELSE creditWire[u]]
        /\ retCredits' = [u \in PortUnit |-> IF u \in owing THEN 0 ELSE retCredits[u]]
  BY DEF ReturnCredit
<1>2. \A u \in owing : u \in PortUnit
  BY UnitFacts DEF UnitsOf
<1>3. QED
  BY <1>1, <1>2

\* A port's clock tick: packets advance through the input stages.
LEMMA ClockTickAllocInv ==
  ASSUME AllocInv, NEW p \in Port, ClockTick(p), UNCHANGED nicVars
  PROVE  AllocInv'
<1> DEFINE idle == StartsRouting(p)
           routed == InUnits(p, "ROUTING")
           granted == GotVc(p)
<1> USE NoneFacts DEF AllocInv, TypeOK
<1>1. /\ inVcState' = [u \in PortUnit |->
                         CASE u \in idle    -> "ROUTING"
                           [] u \in routed  -> "WAIT_VC"
                           [] u \in granted -> "IN_ACTIVE"
                           [] OTHER         -> inVcState[u]]
      /\ outPort' = [u \in PortUnit |->
                       IF u \in idle
                       THEN Route[RouterOf[p]][Dest[Head(inBuf[u]).pkt]]
                       ELSE outPort[u]]
      /\ needVcAlloc' = needVcAlloc \cup routed
      /\ needSwitchAlloc' = needSwitchAlloc \cup granted
      /\ UNCHANGED <<outVc, inBuf, outVcState, outSrc>>
      /\ UNCHANGED <<sendTo, sendFrom, rcvFrom, rcvTo>>
  BY DEF ClockTick, InputPipeline, SendFlit, xbarVars
<1>2. \A u \in PortUnit :
        /\ u \in idle <=> u[1] = p /\ inVcState[u] = "IN_IDLE" /\ inBuf[u] # <<>>
        /\ u \in routed <=> u[1] = p /\ inVcState[u] = "ROUTING"
        /\ u \in granted <=> u[1] = p /\ inVcState[u] = "WAIT_VC" /\ outVc[u] # None
  BY PortUnitFacts DEF StartsRouting, InUnits, GotVc, UnitsOf
<1>3. idle \subseteq PortUnit /\ routed \subseteq PortUnit /\ granted \subseteq PortUnit
  BY UnitFacts DEF StartsRouting, InUnits, GotVc, UnitsOf
<1>4. \A u \in idle : outPort'[u] \in Port /\ outPort'[u] # None
  <2> SUFFICES ASSUME NEW u \in idle PROVE outPort'[u] \in Port
    OBVIOUS
  <2>1. u \in PortUnit /\ inBuf[u] # <<>> /\ inBuf[u] \in Seq(Flit)
    BY <1>2, <1>3 DEF PortTypeOK
  <2>2. Head(inBuf[u]) \in Flit
    BY <2>1
  <2>3. Dest[Head(inBuf[u]).pkt] \in Nic /\ RouterOf[p] \in Router
    BY <2>2, PacketAssumption, TopologyAssumption DEF Flit
  <2>4. QED
    BY <1>1, <2>1, <2>3, TopologyAssumption
<1> HIDE DEF idle, routed, granted
<1>5. TypeOK'
  <2>1. inVcState' \in [PortUnit -> {"IN_IDLE", "ROUTING", "WAIT_VC", "IN_ACTIVE"}]
    BY <1>1 DEF PortTypeOK
  <2>2. outPort' \in [PortUnit -> Port \cup {None}]
    BY <1>1, <1>4 DEF PortTypeOK
  <2>3. needVcAlloc' \subseteq PortUnit /\ needSwitchAlloc' \subseteq PortUnit
    BY <1>1, <1>3 DEF PortTypeOK
  <2>4. PortTypeOK' /\ LinkTypeOK'
    BY <1>1, <2>1, <2>2, <2>3, SendFlitType, ReturnCreditType
    DEF ClockTick, PortTypeOK, LinkTypeOK
  <2>5. NicTypeOK'
    BY DEF NicTypeOK, nicVars
  <2>6. QED
    BY <2>4, <2>5
<1>6. RequestsCurrent'
  <2> SUFFICES ASSUME NEW in \in PortUnit
      PROVE  /\ in \in needVcAlloc' <=> inVcState'[in] = "WAIT_VC" /\ outVc'[in] = None
             /\ inVcState'[in] = "IN_ACTIVE" <=>
                  in \in needSwitchAlloc' \/ sendFrom'[in[1]] = in
             /\ ~(in \in needSwitchAlloc' /\ sendFrom'[in[1]] = in)
             /\ outVc'[in] # None => inVcState'[in] \in {"WAIT_VC", "IN_ACTIVE"}
             /\ inVcState'[in] = "IN_ACTIVE" => outVc'[in] # None
             /\ (outPort'[in] = None) <=> inVcState'[in] = "IN_IDLE"
    BY DEF RequestsCurrent
  <2>0. /\ in \in needVcAlloc <=> inVcState[in] = "WAIT_VC" /\ outVc[in] = None
        /\ inVcState[in] = "IN_ACTIVE" <=> in \in needSwitchAlloc \/ sendFrom[in[1]] = in
        /\ ~(in \in needSwitchAlloc /\ sendFrom[in[1]] = in)
        /\ outVc[in] # None => inVcState[in] \in {"WAIT_VC", "IN_ACTIVE"}
        /\ inVcState[in] = "IN_ACTIVE" => outVc[in] # None
        /\ (outPort[in] = None) <=> inVcState[in] = "IN_IDLE"
    BY DEF RequestsCurrent
  <2>1. CASE in \in idle
    BY <2>0, <2>1, <1>1, <1>2, <1>4
  <2>2. CASE in \in routed
    BY <2>0, <2>2, <1>1, <1>2
  <2>3. CASE in \in granted
    BY <2>0, <2>3, <1>1, <1>2
  <2>4. CASE in \notin idle \cup routed \cup granted
    BY <2>0, <2>4, <1>1
  <2>5. QED
    BY <2>1, <2>2, <2>3, <2>4
<1>7. \A u \in PortUnit : outVc[u] # None => outPort'[u] = outPort[u]
  BY <1>1, <1>2 DEF RequestsCurrent
<1>8. CrossbarMatching'
  <2>1. ASSUME NEW q \in Port, sendTo[q] # None
        PROVE  outPort'[sendFrom[q]] = outPort[sendFrom[q]]
    <3>1. sendFrom[q] \in PortUnit /\ sendFrom[q][1] = q
      BY <2>1 DEF CrossbarMatching, PortTypeOK, UnitsOf
    <3>2. outVc[sendFrom[q]] # None
      BY <3>1 DEF RequestsCurrent
    <3>3. QED
      BY <3>1, <3>2, <1>7
  <2>2. \A q \in Port : sendTo[q] # None => Granted(sendFrom[q])' = Granted(sendFrom[q])
    BY <1>1, <2>1 DEF Granted
  <2>3. UNCHANGED <<sendTo, sendFrom, rcvFrom, rcvTo>>
    BY <1>1
  <2> HIDE DEF Granted
  <2>4. QED
    BY <2>1, <2>2, <2>3 DEF CrossbarMatching
<1>9. VcOwnership'
  <2>1. \A o \in PortUnit : outSrc[o] # None =>
          outSrc[o] \in PortUnit /\ outPort'[outSrc[o]] = outPort[outSrc[o]]
    BY <1>7 DEF VcOwnership, PortTypeOK
  <2>2. QED
    BY <1>1, <1>7, <2>1 DEF VcOwnership, Granted
<1>10. QED
  BY <1>5, <1>6, <1>8, <1>9

\* Steps that touch neither the allocation state nor the input stages.
LEMMA AllocUnchanged ==
  ASSUME AllocInv,
         UNCHANGED <<inVcState, outPort, outVc, outVcState, outSrc, xbarVars, needVars>>
  PROVE  RequestsCurrent' /\ CrossbarMatching' /\ VcOwnership'
BY DEF AllocInv, RequestsCurrent, CrossbarMatching, VcOwnership, Granted, xbarVars, needVars

LEMMA DeliverFlitAllocInv ==
  ASSUME AllocInv, NEW u \in Unit, DeliverFlit(u)
  PROVE  AllocInv'
<1> DEFINE f == Head(wire[u])
           x == <<Peer[u[1]], u[2]>>
<1> USE DEF AllocInv, TypeOK
<1>1. f \in Flit /\ wire' \in [Unit -> Seq(Flit)] /\ creditWire' \in [Unit -> Nat]
  BY DEF DeliverFlit, LinkTypeOK
<1>2. CASE Peer[u[1]] \in Port /\ PortReceiveFlit(Far(u), f) /\ UNCHANGED nicVars
  <2>1. Far(u) \in PortUnit
    BY <1>2, UnitFacts
  <2>2. inBuf' \in [PortUnit -> Seq(Flit)]
    BY <1>1, <1>2, <2>1 DEF PortReceiveFlit, PortTypeOK
  <2>3. TypeOK'
    BY <1>1, <1>2, <2>2
    DEF PortReceiveFlit, PortTypeOK, LinkTypeOK, NicTypeOK, nicVars, outVars, xbarVars, needVars
  <2>4. QED
    BY <1>2, <2>3, AllocUnchanged DEF PortReceiveFlit, outVars
<1>3. CASE Peer[u[1]] \in Nic /\ NicReceiveFlit(x, f) /\ UNCHANGED portVars
  <2>1. x \in NicVn
    BY <1>3, UnitFacts DEF NicVn
  <2>2. NicTypeOK'
    <3>1. f.pkt \in Packet
      BY <1>1 DEF Flit
    <3>2. nicInBuf[x] \in Seq(Packet) /\ inReturnCredits[x] \in Nat
      BY <2>1 DEF NicTypeOK
    <3>3. Append(nicInBuf[x], f.pkt) \in Seq(Packet)
      BY <3>1, <3>2
    <3>4. nicInBuf' \in [NicVn -> Seq(Packet)]
      BY <1>3, <2>1, <3>3, ExceptType DEF NicReceiveFlit, NicTypeOK
    <3>5. inReturnCredits[x] + 1 \in Nat
      BY <3>2
    <3>6. inReturnCredits' \in [NicVn -> Nat]
      BY <1>3, <2>1, <3>5, ExceptType DEF NicReceiveFlit, NicTypeOK
    <3>7. QED
      BY <1>3, <3>4, <3>6 DEF NicReceiveFlit, NicTypeOK
  <2>3. TypeOK'
    BY <1>1, <1>3, <2>2
    DEF PortTypeOK, LinkTypeOK, portVars, inVars, outVars, xbarVars, needVars
  <2>4. QED
    BY <1>3, <2>3, AllocUnchanged DEF portVars, inVars, outVars
<1>4. QED
  BY <1>2, <1>3 DEF DeliverFlit

LEMMA DeliverCreditAllocInv ==
  ASSUME AllocInv, NEW u \in Unit, DeliverCredit(u)
  PROVE  AllocInv'
<1> DEFINE x == <<Peer[u[1]], u[2]>>
<1> USE DEF AllocInv, TypeOK
<1>1. PICK credits \in 1 .. creditWire[u] :
        /\ creditWire' = [creditWire EXCEPT ![u] = @ - credits]
        /\ UNCHANGED wire
        /\ \/ /\ Peer[u[1]] \in Port
              /\ PortReceiveCredit(Far(u), credits)
              /\ UNCHANGED nicVars
           \/ /\ Peer[u[1]] \in Nic
              /\ NicReceiveCredit(x, credits)
              /\ UNCHANGED portVars
  BY DEF DeliverCredit
<1>2. creditWire[u] \in Nat /\ credits \in Nat /\ credits <= creditWire[u]
  BY DEF LinkTypeOK
<1>3. LinkTypeOK'
  BY <1>1, <1>2 DEF LinkTypeOK
<1>4. CASE Peer[u[1]] \in Port /\ PortReceiveCredit(Far(u), credits) /\ UNCHANGED nicVars
  <2>1. Far(u) \in PortUnit
    BY <1>4, UnitFacts
  <2>2. TypeOK'
    <3>1. destCredits' \in [PortUnit -> Nat]
      BY <1>2, <1>4, <2>1 DEF PortReceiveCredit, PortTypeOK
    <3>2. PortTypeOK'
      BY <1>4, <3>1 DEF PortReceiveCredit, PortTypeOK, inVars, xbarVars, needVars
    <3>3. NicTypeOK'
      BY <1>4 DEF NicTypeOK, nicVars
    <3>4. QED
      BY <1>3, <3>2, <3>3
  <2>3. QED
    BY <1>4, <2>2, AllocUnchanged DEF PortReceiveCredit, inVars
<1>5. CASE Peer[u[1]] \in Nic /\ NicReceiveCredit(x, credits) /\ UNCHANGED portVars
  <2>1. x \in NicVn
    BY <1>5, UnitFacts DEF NicVn
  <2>2. TypeOK'
    <3>1. rtrCredits' \in [NicVn -> Nat]
      BY <1>2, <1>5, <2>1 DEF NicReceiveCredit, NicTypeOK
    <3>2. NicTypeOK'
      BY <1>5, <3>1 DEF NicReceiveCredit, NicTypeOK
    <3>3. PortTypeOK'
      BY <1>5 DEF PortTypeOK, portVars, inVars, outVars, xbarVars, needVars
    <3>4. QED
      BY <1>3, <3>2, <3>3
  <2>3. QED
    BY <1>5, <2>2, AllocUnchanged DEF portVars, inVars, outVars
<1>6. QED
  BY <1>1, <1>4, <1>5

LEMMA FlitsOfFacts ==
  ASSUME NEW k \in Packet
  PROVE  /\ FlitsOf(k) \in Seq(Flit)
         /\ Len(FlitsOf(k)) = NumFlits[k]
         /\ <<Src[k], PktVn[k]>> \in NicVn
         /\ NumFlits[k] \in Nat
<1>1. NumFlits[k] \in Nat
  BY PacketAssumption
<1>2. \A i \in 1 .. NumFlits[k] : [pkt |-> k, id |-> i - 1] \in Flit
  BY <1>1 DEF Flit
<1>3. FlitsOf(k) = [i \in 1 .. NumFlits[k] |-> [pkt |-> k, id |-> i - 1]]
  BY DEF FlitsOf
<1>4. FlitsOf(k) \in [1 .. NumFlits[k] -> Flit]
  BY <1>2, <1>3
<1>5. FlitsOf(k) \in Seq(Flit) /\ Len(FlitsOf(k)) = NumFlits[k]
  BY <1>1, <1>4
<1>6. <<Src[k], PktVn[k]>> \in NicVn
  BY PacketAssumption DEF NicVn
<1>7. QED
  BY <1>1, <1>5, <1>6

\* A flit waiting in the output buffer of a sending NIC.
LEMMA NicSendingFacts ==
  ASSUME NicTypeOK, NEW n \in Nic, NEW x \in NicSending(n)
  PROVE  /\ x \in NicVn /\ rtrCredits[x] > 0
         /\ nicOutBuf[x] \in Seq(Flit) /\ nicOutBuf[x] # <<>>
         /\ Head(nicOutBuf[x]) \in Flit /\ Tail(nicOutBuf[x]) \in Seq(Flit)
         /\ Len(Tail(nicOutBuf[x])) = Len(nicOutBuf[x]) - 1
<1>1. /\ x \in NicVn /\ rtrCredits[x] > 0
      /\ nicOutBuf[x] \in Seq(Flit) /\ nicOutBuf[x] # <<>>
  BY DEF NicSending, NicTypeOK
<1>2. QED
  BY <1>1

LEMMA NicStepAllocInv ==
  ASSUME AllocInv, NicStep
  PROVE  AllocInv'
<1> USE DEF AllocInv, TypeOK
<1>1. UNCHANGED portVars
  BY DEF NicStep
<1>2. PortTypeOK' /\ RequestsCurrent' /\ CrossbarMatching' /\ VcOwnership'
  BY <1>1, AllocUnchanged DEF PortTypeOK, portVars, inVars, outVars, xbarVars, needVars
<1>3. ASSUME NEW k \in Packet, Send(k)
      PROVE  LinkTypeOK' /\ NicTypeOK'
  <2> DEFINE x == <<Src[k], PktVn[k]>>
  <2>1. x \in NicVn /\ Src[k] \in Nic /\ NumFlits[k] \in Nat
    BY FlitsOfFacts, PacketAssumption
  <2>2. outbufCredits[x] \in Nat /\ outbufCredits[x] >= NumFlits[k]
        /\ nicOutBuf[x] \in Seq(Flit) /\ sent[Src[k]] \in Seq(Packet)
    BY <1>3, <2>1 DEF Send, NicTypeOK
  <2>3. nicOutBuf[x] \o FlitsOf(k) \in Seq(Flit) /\ Append(sent[Src[k]], k) \in Seq(Packet)
    BY <2>2, FlitsOfFacts
  <2>4. LinkTypeOK'
    BY <1>3 DEF Send, LinkTypeOK, linkVars
  <2>5. outbufCredits' \in [NicVn -> Nat]
    BY <1>3, <2>1, <2>2 DEF Send, NicTypeOK
  <2>6. nicOutBuf' \in [NicVn -> Seq(Flit)]
    BY <1>3, <2>1, <2>3, ExceptType DEF Send, NicTypeOK
  <2>7. sent' \in [Nic -> Seq(Packet)]
    BY <1>3, <2>1, <2>3, ExceptType DEF Send, NicTypeOK
  <2>8. QED
    BY <1>3, <2>4, <2>5, <2>6, <2>7 DEF Send, NicTypeOK
<1>4. ASSUME NEW n \in Nic, NicSendFlits(n)
      PROVE  LinkTypeOK' /\ NicTypeOK'
  <2>1. nicOutBuf' \in [NicVn -> Seq(Flit)]
    BY <1>4, NicSendingFacts DEF NicSendFlits, NicTypeOK
  <2>2. rtrCredits' \in [NicVn -> Nat] /\ outbufCredits' \in [NicVn -> Nat]
    <3>1. \A x \in NicVn : rtrCredits[x] \in Nat /\ outbufCredits[x] \in Nat
      BY DEF NicTypeOK
    <3>2. \A x \in NicSending(n) : rtrCredits[x] > 0
      BY NicSendingFacts
    <3>3. \A x \in NicVn : (IF x \in NicSending(n) THEN rtrCredits[x] - 1 ELSE rtrCredits[x]) \in Nat
      BY <3>1, <3>2
    <3>4. \A x \in NicVn : (IF x \in NicSending(n) THEN outbufCredits[x] + 1 ELSE outbufCredits[x]) \in Nat
      BY <3>1
    <3>5. QED
      BY <1>4, <3>3, <3>4 DEF NicSendFlits
  <2>3. wire' \in [Unit -> Seq(Flit)]
    <3>1. ASSUME NEW u \in Unit, <<u[1], u[2]>> \in NicSending(n)
          PROVE  Append(wire[u], Head(nicOutBuf[<<u[1], u[2]>>])) \in Seq(Flit)
      BY <3>1, NicSendingFacts DEF LinkTypeOK
    <3>2. QED
      BY <1>4, <3>1 DEF NicSendFlits, LinkTypeOK
  <2>4. QED
    BY <1>4, <2>1, <2>2, <2>3 DEF NicSendFlits, NicTypeOK, LinkTypeOK
<1>5. ASSUME NEW n \in Nic, NicReturnCredit(n)
      PROVE  LinkTypeOK' /\ NicTypeOK'
  <2>1. PICK vn \in VN :
          /\ creditWire' = [creditWire EXCEPT ![<<n, vn, 0>>] = @ + inReturnCredits[<<n, vn>>]]
          /\ inReturnCredits' = [inReturnCredits EXCEPT ![<<n, vn>>] = 0]
    BY <1>5 DEF NicReturnCredit
  <2>2. inReturnCredits[<<n, vn>>] \in Nat /\ <<n, vn, 0>> \in Unit /\ <<n, vn>> \in NicVn
    BY SizeAssumption DEF NicTypeOK, NicVn, Unit, End, VC
  <2>3. creditWire[<<n, vn, 0>>] \in Nat
    BY <2>2 DEF LinkTypeOK
  <2>4. creditWire[<<n, vn, 0>>] + inReturnCredits[<<n, vn>>] \in Nat
    BY <2>2, <2>3
  <2>5. creditWire' \in [Unit -> Nat] /\ inReturnCredits' \in [NicVn -> Nat]
    BY <2>1, <2>2, <2>4 DEF LinkTypeOK, NicTypeOK
  <2>6. QED
    BY <1>5, <2>5 DEF NicReturnCredit, LinkTypeOK, NicTypeOK
<1>6. QED
  BY <1>2, <1>3, <1>4, <1>5 DEF NicStep, NicClockTick

LEMMA NextAllocInv == AllocInv /\ [Next]_vars => AllocInv'
<1> SUFFICES ASSUME AllocInv, [Next]_vars PROVE AllocInv'
  OBVIOUS
<1>1. CASE RouterStep
  BY <1>1, CrossbarTransferAllocInv, SwitchGrantAllocInv, VcGrantAllocInv DEF RouterStep
<1>2. CASE PortStep
  BY <1>2, ClockTickAllocInv DEF PortStep
<1>3. CASE NicStep
  BY <1>3, NicStepAllocInv
<1>4. CASE LinkStep
  BY <1>4, DeliverFlitAllocInv, DeliverCreditAllocInv DEF LinkStep
<1>5. CASE UNCHANGED vars
  <2>1. TypeOK'
    BY <1>5 DEF AllocInv, TypeOK, PortTypeOK, LinkTypeOK, NicTypeOK, vars, linkVars,
                portVars, nicVars, inVars, outVars, xbarVars, needVars
  <2>2. QED
    BY <1>5, <2>1, AllocUnchanged DEF AllocInv, vars, portVars, inVars, outVars
<1>6. QED
  BY <1>1, <1>2, <1>3, <1>4, <1>5 DEF Next

LEMMA AllocInvariant == Spec => []AllocInv
BY InitAllocInv, NextAllocInv, PTL DEF Spec

\* Every variable keeps its type; in particular no credit counter of a port or
\* a NIC ever becomes negative.
THEOREM TypeCorrect == Spec => []TypeOK
BY AllocInvariant, PTL DEF AllocInv

\* Output virtual channels are never shared by two packets, whatever grants the
\* VC allocators make and however the routers' clocks interleave.
THEOREM OwnershipCorrect == Spec => []VcOwnership
BY AllocInvariant, PTL DEF AllocInv

\* Every router's crossbar is a matching between inputs and outputs at all times.
THEOREM MatchingCorrect == Spec => []CrossbarMatching
BY AllocInvariant, PTL DEF AllocInv

\* Pending requests for output VCs and for the crossbar are never lost or stale.
THEOREM RequestsCorrect == Spec => []RequestsCurrent
BY AllocInvariant, PTL DEF AllocInv

-----------------------------------------------------------------------------
(* Credits.                                                                *)

LEMMA CreditTypes ==
  ASSUME TypeOK, NEW u \in Unit
  PROVE  /\ HeldCredits(u) \in Nat /\ UsedSpace(u) \in Nat
         /\ creditWire[u] \in Nat /\ wire[u] \in Seq(Flit) /\ Len(wire[u]) \in Nat
<1>1. CASE u[1] \in Port
  <2>1. u \in PortUnit
    BY <1>1, UnitFacts
  <2>2. destCredits[u] \in Nat /\ retCredits[u] \in Nat /\ inBuf[u] \in Seq(Flit)
    BY <2>1 DEF TypeOK, PortTypeOK
  <2>3. QED
    BY <1>1, <2>2 DEF TypeOK, LinkTypeOK, HeldCredits, UsedSpace
<1>2. CASE u[1] \notin Port
  <2>1. <<u[1], u[2]>> \in NicVn
    BY <1>2, UnitFacts DEF End, NicVn
  <2>2. rtrCredits[<<u[1], u[2]>>] \in Nat /\ inReturnCredits[<<u[1], u[2]>>] \in Nat
    BY <2>1 DEF TypeOK, NicTypeOK
  <2>3. QED
    BY <1>2, <2>2 DEF TypeOK, LinkTypeOK, HeldCredits, UsedSpace
<1>3. QED
  BY <1>1, <1>2

LEMMA CreditTypesNext ==
  ASSUME TypeOK', NEW u \in Unit
  PROVE  /\ HeldCredits(u)' \in Nat /\ UsedSpace(u)' \in Nat
         /\ creditWire'[u] \in Nat /\ wire'[u] \in Seq(Flit) /\ Len(wire'[u]) \in Nat
<1>1. CASE u[1] \in Port
  <2>1. u \in PortUnit
    BY <1>1, UnitFacts
  <2>2. destCredits'[u] \in Nat /\ retCredits'[u] \in Nat /\ inBuf'[u] \in Seq(Flit)
    BY <2>1 DEF TypeOK, PortTypeOK
  <2>3. QED
    BY <1>1, <2>2 DEF TypeOK, LinkTypeOK, HeldCredits, UsedSpace
<1>2. CASE u[1] \notin Port
  <2>1. <<u[1], u[2]>> \in NicVn
    BY <1>2, UnitFacts DEF End, NicVn
  <2>2. rtrCredits'[<<u[1], u[2]>>] \in Nat /\ inReturnCredits'[<<u[1], u[2]>>] \in Nat
    BY <2>1 DEF TypeOK, NicTypeOK
  <2>3. QED
    BY <1>2, <2>2 DEF TypeOK, LinkTypeOK, HeldCredits, UsedSpace
<1>3. QED
  BY <1>1, <1>2

LEMMA LenTail ==
  ASSUME NEW S, NEW s \in Seq(S), s # <<>>
  PROVE  Tail(s) \in Seq(S) /\ Len(Tail(s)) = Len(s) - 1 /\ Head(s) \in S
OBVIOUS

LEMMA LenConcat ==
  ASSUME NEW S, NEW s \in Seq(S), NEW t \in Seq(S)
  PROVE  Len(s \o t) = Len(s) + Len(t) /\ Len(s) \in Nat
OBVIOUS

LEMMA LenAppend ==
  ASSUME NEW S, NEW s \in Seq(S), NEW e \in S
  PROVE  Append(s, e) \in Seq(S) /\ Len(Append(s, e)) = Len(s) + 1
OBVIOUS

CreditInv == CreditConservation /\ OutputSpaceExact

LEMMA InitCreditInv == Init => CreditInv
<1> SUFFICES ASSUME Init PROVE CreditInv
  OBVIOUS
<1> USE DEF Init, LinkInit, PortInit, NicInit
<1>1. ASSUME NEW u \in Unit
      PROVE  HeldCredits(u) + Len(wire[u]) + UsedSpace(Far(u)) + creditWire[Far(u)]
               = LinkCredits(u)
  <2>1. LinkCredits(u) \in Nat
    BY UnitFacts, SizeAssumption, LinkAssumption DEF LinkCredits
  <2>2. HeldCredits(u) = LinkCredits(u)
    <3>1. CASE u[1] \in Port
      BY <3>1, UnitFacts DEF HeldCredits
    <3>2. CASE u[1] \notin Port /\ u[3] = 0
      <4>1. <<u[1], u[2]>> \in NicVn /\ u = <<u[1], u[2], 0>>
        BY <3>2, UnitFacts DEF End, NicVn
      <4>2. QED
        BY <3>2, <4>1 DEF HeldCredits
    <3>3. CASE u[1] \notin Port /\ u[3] # 0
      BY <3>3 DEF HeldCredits, LinkCredits
    <3>4. QED
      BY <3>1, <3>2, <3>3
  <2>3. wire[u] = <<>> /\ creditWire[Far(u)] = 0
    BY UnitFacts
  <2>4. UsedSpace(Far(u)) = 0
    <3>1. CASE Far(u)[1] \in Port
      BY <3>1, UnitFacts DEF UsedSpace
    <3>2. CASE Far(u)[1] \notin Port
      <4>1. <<Far(u)[1], Far(u)[2]>> \in NicVn
        BY <3>2, UnitFacts, LinkAssumption DEF End, NicVn
      <4>2. QED
        BY <3>2, <4>1 DEF UsedSpace
    <3>3. QED
      BY <3>1, <3>2
  <2>5. QED
    BY <2>1, <2>2, <2>3, <2>4
<1>2. OutputSpaceExact
  BY SizeAssumption, PortUnitFacts DEF OutputSpaceExact, NicVn, End
<1>3. QED
  BY <1>1, <1>2 DEF CreditInv, CreditConservation

\* The four terms of the conservation law sit at the two ends of a stream and on
\* its wires.  A step that only moves credits between two of them keeps the sum.
MovesCredits ==
  \/ \A u \in Unit : /\ HeldCredits(u)' + Len(wire'[u]) = HeldCredits(u) + Len(wire[u])
                     /\ UsedSpace(u)' + creditWire'[u] = UsedSpace(u) + creditWire[u]
  \/ \A u \in Unit : /\ HeldCredits(u)' = HeldCredits(u) /\ creditWire'[u] = creditWire[u]
                     /\ Len(wire'[u]) + UsedSpace(Far(u))' = Len(wire[u]) + UsedSpace(Far(u))
  \/ \A u \in Unit : /\ Len(wire'[u]) = Len(wire[u]) /\ UsedSpace(u)' = UsedSpace(u)
                     /\ HeldCredits(u)' + creditWire'[Far(u)]
                          = HeldCredits(u) + creditWire[Far(u)]

LEMMA ConservationStep ==
  ASSUME AllocInv, AllocInv', CreditConservation, MovesCredits
  PROVE  CreditConservation'
<1> SUFFICES ASSUME NEW u \in Unit, NEW v \in Unit, v = Far(u)
             PROVE  HeldCredits(u)' + Len(wire'[u]) + UsedSpace(v)' + creditWire'[v]
                      = LinkCredits(u)
  BY UnitFacts DEF CreditConservation
<1> DEFINE h  == HeldCredits(u)
           w  == Len(wire[u])
           s  == UsedSpace(v)
           c  == creditWire[v]
           h2 == HeldCredits(u)'
           w2 == Len(wire'[u])
           s2 == UsedSpace(v)'
           c2 == creditWire'[v]
<1>1. h + w + s + c = LinkCredits(u)
  BY DEF CreditConservation
<1>2. h \in Nat /\ w \in Nat /\ s \in Nat /\ c \in Nat
  BY CreditTypes DEF AllocInv
<1>3. h2 \in Nat /\ w2 \in Nat /\ s2 \in Nat /\ c2 \in Nat
  BY CreditTypesNext DEF AllocInv
<1>4. \/ h2 + w2 = h + w /\ s2 + c2 = s + c
      \/ h2 = h /\ c2 = c /\ w2 + s2 = w + s
      \/ w2 = w /\ s2 = s /\ h2 + c2 = h + c
  BY DEF MovesCredits
<1> HIDE DEF h, w, s, c, h2, w2, s2, c2
<1>5. h2 + w2 + s2 + c2 = h + w + s + c
  BY <1>2, <1>3, <1>4
<1>6. QED
  BY <1>1, <1>5 DEF h, w, s, c, h2, w2, s2, c2

LEMMA CreditsUnchanged ==
  ASSUME UNCHANGED <<destCredits, rtrCredits, wire, creditWire, inBuf, retCredits, inReturnCredits>>
  PROVE  MovesCredits
BY DEF MovesCredits, HeldCredits, UsedSpace

LEMMA OutputUnchanged ==
  ASSUME OutputSpaceExact, UNCHANGED <<outBuf, outBufCredits, nicOutBuf, outbufCredits>>
  PROVE  OutputSpaceExact'
BY DEF OutputSpaceExact

LEMMA CrossbarTransferCredits ==
  ASSUME AllocInv, OutputSpaceExact, NEW p \in Port,
         CrossbarTransfer(p), UNCHANGED <<linkVars, nicVars>>
  PROVE  MovesCredits /\ OutputSpaceExact'
<1> DEFINE in == sendFrom[rcvFrom[p]]
           out == rcvTo[p]
           flit == Head(inBuf[in])
<1>1. in \in PortUnit /\ out \in PortUnit
  BY ConnectionFacts DEF CrossbarTransfer
<1>2. /\ inBuf[in] # <<>>
      /\ inBuf' = [inBuf EXCEPT ![in] = Tail(@)]
      /\ retCredits' = [retCredits EXCEPT ![in] = @ + 1]
      /\ outBuf' = [outBuf EXCEPT ![out] = Append(@, flit)]
      /\ outBufCredits' = [outBufCredits EXCEPT ![out] = @ - 1]
      /\ UNCHANGED <<destCredits, wire, creditWire, rtrCredits, inReturnCredits,
                     nicOutBuf, outbufCredits>>
  BY DEF CrossbarTransfer, linkVars, nicVars
<1>3. /\ inBuf[in] \in Seq(Flit) /\ retCredits[in] \in Nat
      /\ outBuf[out] \in Seq(Flit) /\ outBufCredits[out] \in Nat
  BY <1>1 DEF AllocInv, TypeOK, PortTypeOK
<1>4. Len(inBuf'[in]) + retCredits'[in] = Len(inBuf[in]) + retCredits[in]
  <2>1. Len(Tail(inBuf[in])) = Len(inBuf[in]) - 1 /\ Len(inBuf[in]) \in Nat
    BY <1>2, <1>3, LenTail
  <2>2. inBuf'[in] = Tail(inBuf[in]) /\ retCredits'[in] = retCredits[in] + 1
    BY <1>1, <1>2 DEF AllocInv, TypeOK, PortTypeOK
  <2> DEFINE a  == Len(inBuf[in])
             b  == retCredits[in]
             a2 == Len(inBuf'[in])
             b2 == retCredits'[in]
  <2>3. a \in Nat /\ b \in Nat /\ a2 = a - 1 /\ b2 = b + 1
    BY <1>3, <2>1, <2>2
  <2> HIDE DEF a, b, a2, b2
  <2>4. a2 + b2 = a + b
    BY <2>3
  <2>5. QED
    BY <2>4 DEF a, b, a2, b2
<1>5. \A u \in PortUnit \ {in} : inBuf'[u] = inBuf[u] /\ retCredits'[u] = retCredits[u]
  BY <1>2 DEF AllocInv, TypeOK, PortTypeOK
<1>6. ASSUME NEW u \in Unit PROVE UsedSpace(u)' = UsedSpace(u)
  <2>1. CASE u[1] \in Port
    BY <2>1, <1>4, <1>5, UnitFacts DEF UsedSpace
  <2>2. CASE u[1] \notin Port
    BY <2>2, <1>2 DEF UsedSpace
  <2>3. QED
    BY <2>1, <2>2
<1>7. MovesCredits
  BY <1>2, <1>6 DEF MovesCredits, HeldCredits
<1>8. outBufCredits'[out] + Len(outBuf'[out]) = outBufCredits[out] + Len(outBuf[out])
  <2>1. flit \in Flit
    BY <1>2, <1>3
  <2>2. Len(Append(outBuf[out], flit)) = Len(outBuf[out]) + 1 /\ Len(outBuf[out]) \in Nat
    BY <1>3, <2>1, LenAppend
  <2>3. outBuf'[out] = Append(outBuf[out], flit) /\ outBufCredits'[out] = outBufCredits[out] - 1
    BY <1>1, <1>2 DEF AllocInv, TypeOK, PortTypeOK
  <2> DEFINE a  == outBufCredits[out]
             b  == Len(outBuf[out])
             a2 == outBufCredits'[out]
             b2 == Len(outBuf'[out])
  <2>4. a \in Nat /\ b \in Nat /\ a2 = a - 1 /\ b2 = b + 1
    BY <1>3, <2>2, <2>3
  <2> HIDE DEF a, b, a2, b2
  <2>5. a2 + b2 = a + b
    BY <2>4
  <2>6. QED
    BY <2>5 DEF a, b, a2, b2
<1>9. OutputSpaceExact'
  BY <1>1, <1>2, <1>8 DEF AllocInv, TypeOK, PortTypeOK, OutputSpaceExact
<1>10. QED
  BY <1>7, <1>9

LEMMA ClockTickCredits ==
  ASSUME AllocInv, OutputSpaceExact, NEW p \in Port, ClockTick(p), UNCHANGED nicVars
  PROVE  MovesCredits /\ OutputSpaceExact'
<1> USE DEF AllocInv, TypeOK, PortTypeOK, LinkTypeOK
<1>0. UNCHANGED <<inBuf, rtrCredits, inReturnCredits, nicOutBuf, outbufCredits>>
  BY DEF ClockTick, InputPipeline, nicVars
<1>1. /\ \A u \in PortUnit : /\ destCredits'[u] + Len(wire'[u]) = destCredits[u] + Len(wire[u])
                             /\ outBufCredits'[u] + Len(outBuf'[u]) = outBufCredits[u] + Len(outBuf[u])
      /\ \A u \in Unit \ PortUnit : wire'[u] = wire[u]
  <2>1. CASE UNCHANGED <<outBuf, outBufCredits, destCredits, wire>>
    BY <2>1
  <2>2. ASSUME NEW u \in UnitsOf(p), Sendable(u),
               outBuf' = [outBuf EXCEPT ![u] = Tail(@)],
               outBufCredits' = [outBufCredits EXCEPT ![u] = @ + 1],
               destCredits' = [destCredits EXCEPT ![u] = @ - 1],
               TransportFlit(u, Head(outBuf[u]))
        PROVE  <1>1!1 /\ <1>1!2
    <3>1. u \in PortUnit /\ u \in Unit
      BY UnitFacts DEF UnitsOf
    <3>2. outBuf[u] \in Seq(Flit) /\ outBuf[u] # <<>> /\ wire[u] \in Seq(Flit)
          /\ destCredits[u] \in Nat /\ outBufCredits[u] \in Nat
      BY <2>2, <3>1 DEF Sendable
    <3>3. /\ Len(Tail(outBuf[u])) = Len(outBuf[u]) - 1 /\ Len(outBuf[u]) \in Nat
          /\ Len(Append(wire[u], Head(outBuf[u]))) = Len(wire[u]) + 1 /\ Len(wire[u]) \in Nat
      BY <3>2, LenTail, LenAppend
    <3>4. /\ outBuf'[u] = Tail(outBuf[u]) /\ outBufCredits'[u] = outBufCredits[u] + 1
          /\ destCredits'[u] = destCredits[u] - 1
          /\ wire'[u] = Append(wire[u], Head(outBuf[u]))
      BY <2>2, <3>1 DEF TransportFlit
    <3>5. destCredits'[u] + Len(wire'[u]) = destCredits[u] + Len(wire[u])
      BY <3>2, <3>3, <3>4
    <3>6. outBufCredits'[u] + Len(outBuf'[u]) = outBufCredits[u] + Len(outBuf[u])
      BY <3>2, <3>3, <3>4
    <3>7. /\ \A v \in PortUnit \ {u} : /\ outBuf'[v] = outBuf[v] /\ outBufCredits'[v] = outBufCredits[v]
                                       /\ destCredits'[v] = destCredits[v]
          /\ \A v \in Unit \ {u} : wire'[v] = wire[v]
      BY <2>2 DEF TransportFlit
    <3>8. \A v \in PortUnit : v \in Unit
      BY PortUnitFacts
    <3>9. QED
      BY <3>1, <3>5, <3>6, <3>7, <3>8
  <2>3. QED
    BY <2>1, <2>2 DEF ClockTick, SendFlit
<1>2. /\ \A u \in PortUnit : retCredits'[u] + creditWire'[u] = retCredits[u] + creditWire[u]
      /\ \A u \in Unit \ PortUnit : creditWire'[u] = creditWire[u]
  <2>1. PICK owing \in SUBSET {u \in UnitsOf(p) : retCredits[u] # 0} :
          /\ creditWire' = [u \in Unit |-> IF u \in owing THEN creditWire[u] + retCredits[u]
                                                          ELSE creditWire[u]]
          /\ retCredits' = [u \in PortUnit |-> IF u \in owing THEN 0 ELSE retCredits[u]]
    BY DEF ClockTick, ReturnCredit
  <2>2. \A u \in owing : u \in PortUnit
    BY UnitFacts DEF UnitsOf
  <2>3. \A u \in PortUnit : u \in Unit /\ retCredits[u] \in Nat /\ creditWire[u] \in Nat
    BY PortUnitFacts
  <2>4. QED
    BY <2>1, <2>2, <2>3
<1>3. ASSUME NEW u \in Unit
      PROVE  /\ HeldCredits(u)' + Len(wire'[u]) = HeldCredits(u) + Len(wire[u])
             /\ UsedSpace(u)' + creditWire'[u] = UsedSpace(u) + creditWire[u]
  <2>1. CASE u[1] \in Port
    <3>1. u \in PortUnit
      BY <2>1, UnitFacts
    <3>2. Len(inBuf[u]) \in Nat /\ retCredits[u] \in Nat /\ creditWire[u] \in Nat
      BY <3>1, PortUnitFacts
    <3>3. retCredits'[u] \in Nat /\ creditWire'[u] \in Nat
      BY <3>1, PortUnitFacts, ReturnCreditType DEF ClockTick
    <3>4. Len(inBuf'[u]) + retCredits'[u] + creditWire'[u]
            = Len(inBuf[u]) + retCredits[u] + creditWire[u]
      <4> DEFINE a  == Len(inBuf[u])
                 b  == retCredits[u]
                 c  == creditWire[u]
                 a2 == Len(inBuf'[u])
                 b2 == retCredits'[u]
                 c2 == creditWire'[u]
      <4>1. /\ a \in Nat /\ b \in Nat /\ c \in Nat /\ b2 \in Nat /\ c2 \in Nat
            /\ a2 = a /\ b2 + c2 = b + c
        BY <1>0, <1>2, <3>1, <3>2, <3>3
      <4> HIDE DEF a, b, c, a2, b2, c2
      <4>2. a2 + b2 + c2 = a + b + c
        BY <4>1
      <4>3. QED
        BY <4>2 DEF a, b, c, a2, b2, c2
    <3>5. QED
      BY <2>1, <3>1, <3>4, <1>1 DEF HeldCredits, UsedSpace
  <2>2. CASE u[1] \notin Port
    <3>1. u \notin PortUnit
      BY <2>2, PortUnitFacts
    <3>2. QED
      BY <2>2, <3>1, <1>0, <1>1, <1>2 DEF HeldCredits, UsedSpace
  <2>3. QED
    BY <2>1, <2>2
<1>4. QED
  BY <1>0, <1>1, <1>3 DEF MovesCredits, OutputSpaceExact

LEMMA SendCredits ==
  ASSUME AllocInv, OutputSpaceExact, NEW k \in Packet, Send(k), UNCHANGED portVars
  PROVE  MovesCredits /\ OutputSpaceExact'
<1> DEFINE x == <<Src[k], PktVn[k]>>
<1> USE DEF AllocInv, TypeOK, NicTypeOK
<1>1. /\ outbufCredits' = [outbufCredits EXCEPT ![x] = @ - NumFlits[k]]
      /\ nicOutBuf' = [nicOutBuf EXCEPT ![x] = @ \o FlitsOf(k)]
      /\ UNCHANGED <<rtrCredits, inReturnCredits, wire, creditWire, inBuf, retCredits,
                     outBuf, outBufCredits, destCredits>>
  BY DEF Send, linkVars, portVars, inVars, outVars
<1>2. x \in NicVn /\ NumFlits[k] \in Nat /\ FlitsOf(k) \in Seq(Flit)
      /\ Len(FlitsOf(k)) = NumFlits[k]
  BY FlitsOfFacts
<1>3. outbufCredits'[x] + Len(nicOutBuf'[x]) = outbufCredits[x] + Len(nicOutBuf[x])
  <2> DEFINE a  == outbufCredits[x]
             b  == Len(nicOutBuf[x])
             n  == NumFlits[k]
             a2 == outbufCredits'[x]
             b2 == Len(nicOutBuf'[x])
  <2>1. nicOutBuf[x] \in Seq(Flit) /\ outbufCredits[x] \in Nat
    BY <1>2
  <2>2. Len(nicOutBuf[x] \o FlitsOf(k)) = Len(nicOutBuf[x]) + Len(FlitsOf(k))
    BY <1>2, <2>1, LenConcat
  <2>3. a \in Nat /\ b \in Nat /\ n \in Nat /\ a2 = a - n /\ b2 = b + n
    BY <1>1, <1>2, <2>1, <2>2
  <2> HIDE DEF a, b, n, a2, b2
  <2>4. a2 + b2 = a + b
    BY <2>3
  <2>5. QED
    BY <2>4 DEF a, b, a2, b2
<1>4. \A y \in NicVn \ {x} : outbufCredits'[y] = outbufCredits[y] /\ nicOutBuf'[y] = nicOutBuf[y]
  BY <1>1
<1>5. OutputSpaceExact'
  BY <1>1, <1>2, <1>3, <1>4 DEF OutputSpaceExact
<1>6. QED
  BY <1>1, <1>5, CreditsUnchanged

LEMMA NicSendFlitsCredits ==
  ASSUME AllocInv, OutputSpaceExact, NEW n \in Nic, NicSendFlits(n), UNCHANGED portVars
  PROVE  MovesCredits /\ OutputSpaceExact'
<1> USE DEF AllocInv, TypeOK, NicTypeOK, LinkTypeOK
<1>1. /\ UNCHANGED <<inReturnCredits, creditWire, inBuf, retCredits, outBuf, outBufCredits,
                     destCredits>>
      /\ \A x \in NicVn \ NicSending(n) :
           /\ rtrCredits'[x] = rtrCredits[x]
           /\ outbufCredits'[x] = outbufCredits[x] /\ nicOutBuf'[x] = nicOutBuf[x]
      /\ \A x \in NicSending(n) :
           /\ x \in NicVn
           /\ rtrCredits'[x] = rtrCredits[x] - 1
           /\ outbufCredits'[x] = outbufCredits[x] + 1 /\ nicOutBuf'[x] = Tail(nicOutBuf[x])
  BY NicSendingFacts DEF NicSendFlits, portVars, inVars, outVars
<1>2. ASSUME NEW u \in Unit
      PROVE  HeldCredits(u)' + Len(wire'[u]) = HeldCredits(u) + Len(wire[u])
  <2> DEFINE x == <<u[1], u[2]>>
  <2>1. CASE u[3] = 0 /\ x \in NicSending(n)
    <3>1. u[1] \notin Port
      BY <2>1, NicSendingFacts, LinkAssumption DEF NicVn
    <3>2. wire'[u] = Append(wire[u], Head(nicOutBuf[x]))
      BY <2>1 DEF NicSendFlits
    <3>3. wire[u] \in Seq(Flit) /\ Head(nicOutBuf[x]) \in Flit /\ rtrCredits[x] \in Nat
      BY <2>1, NicSendingFacts
    <3> DEFINE a  == rtrCredits[x]
               b  == Len(wire[u])
               a2 == rtrCredits'[x]
               b2 == Len(wire'[u])
    <3>4. a \in Nat /\ b \in Nat /\ a2 = a - 1 /\ b2 = b + 1
      BY <1>1, <2>1, <3>2, <3>3, LenAppend
    <3> HIDE DEF a, b, a2, b2
    <3>5. a2 + b2 = a + b
      BY <3>4
    <3>6. QED
      BY <2>1, <3>1, <3>5 DEF HeldCredits, a, b, a2, b2
  <2>2. CASE ~(u[3] = 0 /\ x \in NicSending(n))
    <3>1. wire'[u] = wire[u]
      BY <2>2 DEF NicSendFlits
    <3>2. u[1] \notin Port => x \in NicVn
      BY UnitFacts DEF End, NicVn
    <3>3. HeldCredits(u)' = HeldCredits(u)
      BY <1>1, <2>2, <3>2 DEF HeldCredits
    <3>4. QED
      BY <3>1, <3>3
  <2>3. QED
    BY <2>1, <2>2
<1>3. MovesCredits
  BY <1>1, <1>2 DEF MovesCredits, UsedSpace
<1>4. ASSUME NEW x \in NicVn
      PROVE  outbufCredits'[x] + Len(nicOutBuf'[x]) = outbufCredits[x] + Len(nicOutBuf[x])
  <2>1. CASE x \in NicSending(n)
    <3> DEFINE a  == outbufCredits[x]
               b  == Len(nicOutBuf[x])
               a2 == outbufCredits'[x]
               b2 == Len(nicOutBuf'[x])
    <3>1. a \in Nat /\ b \in Nat /\ a2 = a + 1 /\ b2 = b - 1
      <4>1. nicOutBuf[x] \in Seq(Flit) /\ outbufCredits[x] \in Nat
        OBVIOUS
      <4>2. Len(Tail(nicOutBuf[x])) = Len(nicOutBuf[x]) - 1
        BY <2>1, NicSendingFacts
      <4>3. outbufCredits'[x] = outbufCredits[x] + 1 /\ nicOutBuf'[x] = Tail(nicOutBuf[x])
        BY <1>1, <2>1
      <4>4. Len(nicOutBuf'[x]) = Len(nicOutBuf[x]) - 1
        BY <4>2, <4>3
      <4>5. Len(nicOutBuf[x]) \in Nat
        BY <4>1
      <4>6. QED
        BY <4>1, <4>3, <4>4, <4>5
    <3> HIDE DEF a, b, a2, b2
    <3>2. a2 + b2 = a + b
      BY <3>1
    <3>3. QED
      BY <3>2 DEF a, b, a2, b2
  <2>2. CASE x \notin NicSending(n)
    BY <1>1, <2>2
  <2>3. QED
    BY <2>1, <2>2
<1>5. OutputSpaceExact'
  BY <1>1, <1>4 DEF OutputSpaceExact
<1>6. QED
  BY <1>3, <1>5

LEMMA NicReturnCreditCredits ==
  ASSUME AllocInv, OutputSpaceExact, NEW n \in Nic, NicReturnCredit(n), UNCHANGED portVars
  PROVE  MovesCredits /\ OutputSpaceExact'
<1> USE DEF AllocInv, TypeOK, NicTypeOK, LinkTypeOK
<1>1. PICK vn \in VN :
        /\ creditWire' = [creditWire EXCEPT ![<<n, vn, 0>>] = @ + inReturnCredits[<<n, vn>>]]
        /\ inReturnCredits' = [inReturnCredits EXCEPT ![<<n, vn>>] = 0]
  BY DEF NicReturnCredit
<1>2. UNCHANGED <<rtrCredits, wire, inBuf, retCredits, outBuf, outBufCredits, destCredits,
                  nicOutBuf, outbufCredits>>
  BY DEF NicReturnCredit, portVars, inVars, outVars
<1>3. <<n, vn, 0>> \in Unit /\ <<n, vn>> \in NicVn /\ n \notin Port
  BY SizeAssumption, LinkAssumption DEF NicVn, Unit, End, VC
<1>4. ASSUME NEW u \in Unit
      PROVE  UsedSpace(u)' + creditWire'[u] = UsedSpace(u) + creditWire[u]
  <2>1. CASE u = <<n, vn, 0>>
    <3>1. UsedSpace(u)' = 0 /\ UsedSpace(u) = inReturnCredits[<<n, vn>>]
      BY <1>1, <1>3, <2>1 DEF UsedSpace
    <3>2. creditWire'[u] = creditWire[u] + inReturnCredits[<<n, vn>>]
      BY <1>1, <1>3, <2>1
    <3>3. creditWire[u] \in Nat /\ inReturnCredits[<<n, vn>>] \in Nat
      BY <1>3, <2>1
    <3>4. QED
      BY <3>1, <3>2, <3>3
  <2>2. CASE u # <<n, vn, 0>>
    <3>1. creditWire'[u] = creditWire[u]
      BY <1>1, <2>2
    <3>2. u[1] \notin Port => <<u[1], u[2]>> \in NicVn
      BY UnitFacts DEF End, NicVn
    <3>3. u[1] \notin Port /\ u[3] = 0 => <<u[1], u[2]>> # <<n, vn>>
      BY <2>2, UnitFacts
    <3>4. UsedSpace(u)' = UsedSpace(u)
      BY <1>1, <1>2, <3>2, <3>3 DEF UsedSpace
    <3>5. QED
      BY <3>1, <3>4
  <2>3. QED
    BY <2>1, <2>2
<1>5. MovesCredits
  BY <1>2, <1>4 DEF MovesCredits, HeldCredits
<1>6. QED
  BY <1>2, <1>5, OutputUnchanged

\* Nothing is in flight on a stream that was granted no credits.
LEMMA UnusedStream ==
  ASSUME AllocInv, CreditConservation, NEW u \in Unit, LinkCredits(u) = 0
  PROVE  wire[u] = <<>> /\ creditWire[Far(u)] = 0
<1> DEFINE h == HeldCredits(u)
           w == Len(wire[u])
           s == UsedSpace(Far(u))
           c == creditWire[Far(u)]
<1>1. h \in Nat /\ w \in Nat /\ s \in Nat /\ c \in Nat
  BY UnitFacts, CreditTypes DEF AllocInv
<1>2. h + w + s + c = 0
  BY DEF CreditConservation
<1> HIDE DEF h, w, s, c
<1>3. w = 0 /\ c = 0
  BY <1>1, <1>2
<1>4. wire[u] \in Seq(Flit)
  BY CreditTypes DEF AllocInv
<1>5. QED
  BY <1>3, <1>4 DEF w, c

LEMMA DeliverFlitCredits ==
  ASSUME AllocInv, CreditInv, NEW u \in Unit, DeliverFlit(u)
  PROVE  MovesCredits /\ OutputSpaceExact'
<1> USE DEF AllocInv, TypeOK, PortTypeOK, NicTypeOK, LinkTypeOK
<1> DEFINE v == Far(u)
           x == <<Peer[u[1]], u[2]>>
           f == Head(wire[u])
<1>1. /\ wire[u] \in Seq(Flit) /\ wire[u] # <<>> /\ f \in Flit
      /\ Len(Tail(wire[u])) = Len(wire[u]) - 1
      /\ wire'[u] = Tail(wire[u])
      /\ \A w \in Unit \ {u} : wire'[w] = wire[w]
      /\ UNCHANGED creditWire
  BY DEF DeliverFlit
<1>2. v \in Unit /\ v[1] = Peer[u[1]] /\ v[2] = u[2] /\ v[3] = u[3]
  BY UnitFacts
<1>3. UNCHANGED <<destCredits, rtrCredits, outBuf, outBufCredits, nicOutBuf, outbufCredits>>
  BY DEF DeliverFlit, PortReceiveFlit, NicReceiveFlit, nicVars, portVars, outVars
<1>4. UsedSpace(v)' = UsedSpace(v) + 1
  <2>1. CASE v[1] \in Port
    <3>1. v \in PortUnit /\ v[1] \notin Nic
      BY <2>1, <1>2, UnitFacts, LinkAssumption
    <3>2. inBuf' = [inBuf EXCEPT ![v] = Append(@, f)] /\ retCredits' = retCredits
      BY <2>1, <3>1, <1>2 DEF DeliverFlit, PortReceiveFlit
    <3>3. Len(inBuf'[v]) = Len(inBuf[v]) + 1 /\ retCredits'[v] = retCredits[v]
      BY <1>1, <3>1, <3>2, LenAppend
    <3> DEFINE a  == Len(inBuf[v])
               b  == retCredits[v]
               a2 == Len(inBuf'[v])
               b2 == retCredits'[v]
    <3>4. a \in Nat /\ b \in Nat /\ a2 = a + 1 /\ b2 = b
      BY <3>1, <3>3
    <3> HIDE DEF a, b, a2, b2
    <3>5. a2 + b2 = a + b + 1
      BY <3>4
    <3>6. QED
      BY <2>1, <3>5 DEF UsedSpace, a, b, a2, b2
  <2>2. CASE v[1] \notin Port
    <3>1. x \in NicVn /\ v[1] \in Nic
      BY <2>2, <1>2, UnitFacts DEF End, NicVn
    <3>2. inReturnCredits' = [inReturnCredits EXCEPT ![x] = @ + 1]
      BY <2>2, <1>2 DEF DeliverFlit, NicReceiveFlit
    <3>3. u[3] = 0
      <4>1. u[3] # 0 => LinkCredits(u) = 0
        BY <2>2, <1>2 DEF LinkCredits
      <4>2. QED
        BY <4>1, <1>1, UnusedStream DEF CreditInv
    <3>4. QED
      BY <2>2, <1>2, <3>1, <3>2, <3>3 DEF UsedSpace
  <2>3. QED
    BY <2>1, <2>2
<1>5. ASSUME NEW w \in Unit, w # v PROVE UsedSpace(w)' = UsedSpace(w)
  <2>1. CASE w[1] \in Port
    <3>1. w \in PortUnit
      BY <2>1, UnitFacts
    <3>2. inBuf'[w] = inBuf[w] /\ retCredits'[w] = retCredits[w]
      BY <1>5, <3>1 DEF DeliverFlit, PortReceiveFlit, portVars, inVars
    <3>3. QED
      BY <2>1, <3>2 DEF UsedSpace
  <2>2. CASE w[1] \notin Port /\ w[3] = 0
    <3>1. <<w[1], w[2]>> \in NicVn
      BY <2>2, UnitFacts DEF End, NicVn
    <3>2. inReturnCredits'[<<w[1], w[2]>>] = inReturnCredits[<<w[1], w[2]>>]
      <4>1. CASE UNCHANGED nicVars
        BY <4>1 DEF nicVars
      <4>2. CASE ~UNCHANGED nicVars
        <5>1. inReturnCredits' = [inReturnCredits EXCEPT ![x] = @ + 1] /\ v[1] \in Nic
          BY <4>2, <1>2 DEF DeliverFlit, NicReceiveFlit
        <5>2. CASE <<w[1], w[2]>> = x
          <6>1. v = <<v[1], v[2], v[3]>> /\ w = <<w[1], w[2], w[3]>>
            BY <1>2, UnitFacts
          <6>2. v[3] # 0
            BY <5>2, <2>2, <1>2, <1>5, <6>1
          <6>3. LinkCredits(u) = 0
            BY <6>2, <5>1, <1>2, LinkAssumption DEF LinkCredits
          <6>4. QED
            BY <6>3, <1>1, UnusedStream DEF CreditInv
        <5>3. QED
          BY <5>1, <5>2, <3>1
      <4>3. QED
        BY <4>1, <4>2
    <3>3. QED
      BY <2>2, <3>2 DEF UsedSpace
  <2>3. CASE w[1] \notin Port /\ w[3] # 0
    BY <2>3 DEF UsedSpace
  <2>4. QED
    BY <2>1, <2>2, <2>3
<1>6. ASSUME NEW w \in Unit
      PROVE  Len(wire'[w]) + UsedSpace(Far(w))' = Len(wire[w]) + UsedSpace(Far(w))
  <2>1. CASE w = u
    <3> DEFINE a  == Len(wire[u])
               b  == UsedSpace(v)
               a2 == Len(wire'[u])
               b2 == UsedSpace(v)'
    <3>1. a \in Nat /\ b \in Nat /\ a2 = a - 1 /\ b2 = b + 1
      BY <1>1, <1>2, <1>4, CreditTypes
    <3> HIDE DEF a, b, a2, b2
    <3>2. a2 + b2 = a + b
      BY <3>1
    <3>3. QED
      BY <2>1, <3>2 DEF a, b, a2, b2
  <2>2. CASE w # u
    <3>1. Far(w) \in Unit /\ Far(w) # v
      BY <2>2, UnitFacts
    <3>2. wire'[w] = wire[w]
      BY <1>1, <2>2
    <3>3. QED
      BY <1>5, <3>1, <3>2
  <2>3. QED
    BY <2>1, <2>2
<1>7. MovesCredits
  BY <1>1, <1>3, <1>6 DEF MovesCredits, HeldCredits
<1>8. QED
  BY <1>3, <1>7, OutputUnchanged DEF CreditInv

LEMMA DeliverCreditCredits ==
  ASSUME AllocInv, CreditInv, NEW u \in Unit, DeliverCredit(u)
  PROVE  MovesCredits /\ OutputSpaceExact'
<1> USE DEF AllocInv, TypeOK, PortTypeOK, NicTypeOK, LinkTypeOK
<1> DEFINE v == Far(u)
           x == <<Peer[u[1]], u[2]>>
<1>1. PICK credits \in 1 .. creditWire[u] :
        /\ creditWire' = [creditWire EXCEPT ![u] = @ - credits]
        /\ UNCHANGED wire
        /\ \/ /\ Peer[u[1]] \in Port
              /\ PortReceiveCredit(v, credits)
              /\ UNCHANGED nicVars
           \/ /\ Peer[u[1]] \in Nic
              /\ NicReceiveCredit(x, credits)
              /\ UNCHANGED portVars
  BY DEF DeliverCredit
<1>2. /\ creditWire[u] \in Nat /\ credits \in Nat /\ creditWire[u] > 0
      /\ creditWire'[u] = creditWire[u] - credits
      /\ \A w \in Unit \ {u} : creditWire'[w] = creditWire[w]
  BY <1>1
<1>3. v \in Unit /\ v[1] = Peer[u[1]] /\ v[2] = u[2] /\ v[3] = u[3] /\ Far(v) = u
  BY UnitFacts
<1>4. UNCHANGED <<inBuf, retCredits, inReturnCredits, outBuf, outBufCredits, nicOutBuf,
                  outbufCredits>>
  BY <1>1 DEF PortReceiveCredit, NicReceiveCredit, nicVars, portVars, inVars, outVars
<1>5. v[1] \notin Port => v[3] = 0
  <2>1. v[1] \notin Port /\ v[3] # 0 => LinkCredits(v) = 0
    BY DEF LinkCredits
  <2>2. v[1] \notin Port /\ v[3] # 0 => creditWire[u] = 0
    BY <2>1, <1>3, UnusedStream DEF CreditInv
  <2>3. QED
    BY <2>2, <1>2
<1>6. HeldCredits(v)' = HeldCredits(v) + credits
  <2>1. CASE v[1] \in Port
    <3>1. v \in PortUnit /\ v[1] \notin Nic
      BY <2>1, <1>3, UnitFacts, LinkAssumption
    <3>2. destCredits' = [destCredits EXCEPT ![v] = @ + credits]
      BY <1>1, <1>3, <3>1 DEF PortReceiveCredit
    <3>3. QED
      BY <2>1, <3>1, <3>2 DEF HeldCredits
  <2>2. CASE v[1] \notin Port
    <3>1. x \in NicVn
      BY <2>2, <1>3, UnitFacts DEF End, NicVn
    <3>2. rtrCredits' = [rtrCredits EXCEPT ![x] = @ + credits]
      BY <1>1, <1>3, <2>2 DEF NicReceiveCredit
    <3>3. QED
      BY <2>2, <1>3, <1>5, <3>1, <3>2 DEF HeldCredits
  <2>3. QED
    BY <2>1, <2>2
<1>7. ASSUME NEW w \in Unit, w # v PROVE HeldCredits(w)' = HeldCredits(w)
  <2>1. CASE w[1] \in Port
    <3>1. w \in PortUnit
      BY <2>1, UnitFacts
    <3>2. destCredits'[w] = destCredits[w]
      BY <1>1, <1>7, <3>1 DEF PortReceiveCredit, portVars, outVars
    <3>3. QED
      BY <2>1, <3>2 DEF HeldCredits
  <2>2. CASE w[1] \notin Port /\ w[3] = 0
    <3>1. <<w[1], w[2]>> \in NicVn
      BY <2>2, UnitFacts DEF End, NicVn
    <3>2. CASE UNCHANGED nicVars
      BY <2>2, <3>2 DEF HeldCredits, nicVars
    <3>3. CASE Peer[u[1]] \in Nic /\ NicReceiveCredit(x, credits)
      <4>1. v = <<v[1], v[2], v[3]>> /\ w = <<w[1], w[2], w[3]>> /\ v[1] \notin Port
        BY <3>3, <1>3, UnitFacts, LinkAssumption
      <4>2. <<w[1], w[2]>> # x
        BY <4>1, <2>2, <1>3, <1>5, <1>7
      <4>3. rtrCredits' = [rtrCredits EXCEPT ![x] = @ + credits]
        BY <3>3 DEF NicReceiveCredit
      <4>4. rtrCredits'[<<w[1], w[2]>>] = rtrCredits[<<w[1], w[2]>>]
        BY <3>1, <4>2, <4>3
      <4>5. QED
        BY <2>2, <4>4 DEF HeldCredits
    <3>4. QED
      BY <1>1, <3>2, <3>3
  <2>3. CASE w[1] \notin Port /\ w[3] # 0
    BY <2>3 DEF HeldCredits
  <2>4. QED
    BY <2>1, <2>2, <2>3
<1>8. ASSUME NEW w \in Unit
      PROVE  HeldCredits(w)' + creditWire'[Far(w)] = HeldCredits(w) + creditWire[Far(w)]
  <2>1. CASE w = v
    <3> DEFINE a  == HeldCredits(v)
               b  == creditWire[u]
               a2 == HeldCredits(v)'
               b2 == creditWire'[u]
    <3>1. a \in Nat /\ b \in Nat /\ credits \in Nat /\ a2 = a + credits /\ b2 = b - credits
      BY <1>2, <1>3, <1>6, CreditTypes
    <3> HIDE DEF a, b, a2, b2
    <3>2. a2 + b2 = a + b
      BY <3>1
    <3>3. QED
      BY <2>1, <1>3, <3>2 DEF a, b, a2, b2
  <2>2. CASE w # v
    <3>1. Far(w) \in Unit /\ Far(w) # u
      BY <2>2, <1>3, UnitFacts
    <3>2. QED
      BY <2>2, <1>2, <1>7, <3>1
  <2>3. QED
    BY <2>1, <2>2
<1>9. MovesCredits
  BY <1>1, <1>4, <1>8 DEF MovesCredits, UsedSpace
<1>10. QED
  BY <1>4, <1>9, OutputUnchanged DEF CreditInv

LEMMA NextCreditInv == AllocInv /\ CreditInv /\ [Next]_vars => CreditInv'
<1> SUFFICES ASSUME AllocInv, CreditInv, [Next]_vars PROVE CreditInv'
  OBVIOUS
<1>1. AllocInv'
  BY NextAllocInv
<1>2. MovesCredits /\ OutputSpaceExact'
  <2> USE DEF CreditInv
  <2>1. CASE RouterStep
    <3>1. ASSUME NEW in \in PortUnit, SwitchGrant(in), UNCHANGED <<linkVars, nicVars>>
          PROVE  MovesCredits /\ OutputSpaceExact'
      BY <3>1, CreditsUnchanged, OutputUnchanged
      DEF SwitchGrant, linkVars, nicVars, inVars, outVars
    <3>2. ASSUME NEW in \in PortUnit, NEW vc \in VC, VcGrant(in, vc),
                 UNCHANGED <<linkVars, nicVars>>
          PROVE  MovesCredits /\ OutputSpaceExact'
      BY <3>2, CreditsUnchanged, OutputUnchanged DEF VcGrant, linkVars, nicVars
    <3>3. QED
      BY <2>1, <3>1, <3>2, CrossbarTransferCredits DEF RouterStep
  <2>2. CASE PortStep
    BY <2>2, ClockTickCredits DEF PortStep
  <2>3. CASE NicStep
    BY <2>3, SendCredits, NicSendFlitsCredits, NicReturnCreditCredits
    DEF NicStep, NicClockTick
  <2>4. CASE LinkStep
    BY <2>4, DeliverFlitCredits, DeliverCreditCredits DEF LinkStep
  <2>5. CASE UNCHANGED vars
    BY <2>5, CreditsUnchanged, OutputUnchanged
    DEF vars, linkVars, portVars, nicVars, inVars, outVars
  <2>6. QED
    BY <2>1, <2>2, <2>3, <2>4, <2>5 DEF Next
<1>3. QED
  BY <1>1, <1>2, ConservationStep DEF CreditInv

\* Credits alone bound the queues: what is buffered at a receiver is part of what
\* its sender was granted.
LEMMA CreditsBoundBuffers ==
  ASSUME AllocInv, CreditInv
  PROVE  BuffersBounded
<1> USE DEF AllocInv, TypeOK, PortTypeOK, NicTypeOK, LinkTypeOK, CreditInv
<1>1. ASSUME NEW v \in PortUnit PROVE Len(inBuf[v]) <= InCap[v[1]]
  <2> DEFINE u == Far(v)
             h == HeldCredits(u)
             w == Len(wire[u])
             l == Len(inBuf[v])
             r == retCredits[v]
             c == creditWire[v]
             m == InCap[v[1]]
  <2>1. v \in Unit /\ u \in Unit /\ Far(u) = v /\ v[1] \in Port /\ v[1] \in End
        /\ Peer[u[1]] = v[1]
    BY PortUnitFacts, UnitFacts, LinkAssumption
  <2>2. h \in Nat /\ w \in Nat /\ l \in Nat /\ r \in Nat /\ c \in Nat /\ m \in Nat
    <3>1. h \in Nat /\ w \in Nat /\ c \in Nat
      BY <2>1, CreditTypes
    <3>2. inBuf[v] \in Seq(Flit) /\ r \in Nat /\ m \in Nat
      BY <2>1, SizeAssumption
    <3>3. l \in Nat
      BY <3>2
    <3>4. QED
      BY <3>1, <3>2, <3>3
  <2>3. h + w + (l + r) + c = LinkCredits(u)
    BY <2>1 DEF CreditConservation, UsedSpace
  <2>4. LinkCredits(u) = m \/ LinkCredits(u) = 0
    BY <2>1 DEF LinkCredits
  <2> HIDE DEF h, w, l, r, c, m
  <2>5. l <= m
    BY <2>2, <2>3, <2>4
  <2>6. QED
    BY <2>5 DEF l, m
<1>2. ASSUME NEW v \in PortUnit PROVE Len(outBuf[v]) <= OutCap[v[1]]
  <2> DEFINE a == outBufCredits[v]
             b == Len(outBuf[v])
             m == OutCap[v[1]]
  <2>1. a \in Nat /\ b \in Nat /\ m \in Nat /\ a + b = m
    BY SizeAssumption, PortUnitFacts DEF OutputSpaceExact, End
  <2> HIDE DEF a, b, m
  <2>2. b <= m
    BY <2>1
  <2>3. QED
    BY <2>2 DEF b, m
<1>3. ASSUME NEW x \in NicVn PROVE Len(nicOutBuf[x]) <= OutCap[x[1]]
  <2> DEFINE a == outbufCredits[x]
             b == Len(nicOutBuf[x])
             m == OutCap[x[1]]
  <2>1. a \in Nat /\ b \in Nat /\ m \in Nat /\ a + b = m
    BY SizeAssumption DEF OutputSpaceExact, NicVn, End
  <2> HIDE DEF a, b, m
  <2>2. b <= m
    BY <2>1
  <2>3. QED
    BY <2>2 DEF b, m
<1>4. QED
  BY <1>1, <1>2, <1>3 DEF BuffersBounded

LEMMA CreditInvariant == Spec => [](AllocInv /\ CreditInv)
BY InitAllocInv, InitCreditInv, NextAllocInv, NextCreditInv, PTL DEF Spec

\* On every stream of every link the credits add up to those granted by init(),
\* under every interleaving of ticks and deliveries.
THEOREM CreditsCorrect == Spec => []CreditConservation
BY CreditInvariant, PTL DEF CreditInv

\* The counters that gate the crossbar and send() are the exact free space.
THEOREM OutputSpaceCorrect == Spec => []OutputSpaceExact
BY CreditInvariant, PTL DEF CreditInv

\* No queue of a port, and no output queue of a NIC, outgrows its buffer, though
\* no push checks its length.
THEOREM BuffersNeverOverrun == Spec => []BuffersBounded
BY CreditInvariant, CreditsBoundBuffers, PTL
=============================================================================
