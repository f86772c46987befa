---------------------------- MODULE NicEndpoint ----------------------------
(***************************************************************************)
(* One NIC in detail: the loops of MordredNicBase::clockTick over the      *)
(* virtual networks, the stamp that tells the receiver when the HEAD of a  *)
(* packet was put on the link, and the notifications of the endpoint,      *)
(* which may call recv() and send() from inside them.                      *)
(*                                                                         *)
(* A clock cycle stands for the packets whose HEAD was put on the link in  *)
(* it, which is all that telling the stamps apart takes; no packet stands  *)
(* for UINT64_MAX.                                                         *)
(***************************************************************************)
EXTENDS Integers, Sequences

CONSTANTS
  NumVns,    \* virtual networks
  OutBuf,    \* output_buf_size / flit size, in flits
  InBuf,     \* input_buf_size / flit size, in flits
  RtrBuf,    \* the router's input buffer, in flits
  Workload   \* what the endpoint may have to do: each a record of
             \*   packets    to send, in this order: [vn, flits, after], once
             \*              that many requests have been received
             \*   requests   that arrive: [vn, flits]
             \*   polls      whether it receives in its own time

VN == 0 .. NumVns - 1

ASSUME SizesAssumption ==
  /\ NumVns \in Nat /\ OutBuf \in Nat /\ InBuf \in Nat /\ RtrBuf \in Nat

\* Whatever is sent has at least a HEAD and a TAIL.
PacketToSend == [vn : VN, flits : Nat \ {0, 1}, after : Nat]
Request      == [vn : VN, flits : Nat \ {0, 1}]

ASSUME WorkloadAssumption ==
  \A w \in Workload :
    w.packets \in Seq(PacketToSend) /\ w.requests \in Seq(Request) /\ w.polls \in BOOLEAN

VARIABLES
  work, requests,   \* the packets and requests, numbered from 1
  polls,            \* the endpoint ignores receiveFunctor
  todo,             \* the first packet not yet accepted by send()
  asleep,           \* the endpoint waits for sendFunctor to be called
  outBuf,           \* outBuf[vn]: flits <<packet, id>>
  outbufCredits, rtrCredits,
  headInjectCycle,
  stamp,            \* stamp[k]: head_inject_cycle of the TAIL of packet k
  onLink,           \* flits put on the link in the last cycle
  toCome,           \* toCome[vn]: flits <<request, id>> still to arrive
  portCredits,      \* portCredits[vn]: what the router may still send
  inReturnCredits,
  inBuf,            \* inBuf[vn]: requests for recv()
  received          \* how many the endpoint has taken

constant == <<work, requests, polls>>
vars     == <<constant, todo, asleep, outBuf, outbufCredits, rtrCredits, headInjectCycle,
              stamp, onLink, toCome, portCredits, inReturnCredits, inBuf, received>>

Never == {}

\* The flits of the requests on vn, one request after the other.
FlitsOn(vn) ==
  LET flits[r \in 0 .. Len(requests)] ==
        IF r = 0 THEN <<>>
        ELSE IF requests[r].vn # vn THEN flits[r - 1]
        ELSE flits[r - 1] \o [j \in 1 .. requests[r].flits |-> <<r, j - 1>>]
  IN  flits[Len(requests)]

Init ==
  /\ \E w \in Workload : work = w.packets /\ requests = w.requests /\ polls = w.polls
  /\ todo = 1
  /\ asleep = FALSE
  /\ outBuf = [vn \in VN |-> <<>>]
  /\ outbufCredits = [vn \in VN |-> OutBuf]
  /\ rtrCredits = [vn \in VN |-> RtrBuf]
  /\ headInjectCycle = Never
  /\ stamp = [i \in 1 .. Len(work) |-> Never]
  /\ onLink = <<>>
  /\ toCome = [vn \in VN |-> FlitsOn(vn)]
  /\ portCredits = [vn \in VN |-> InBuf]
  /\ inReturnCredits = [vn \in VN |-> 0]
  /\ inBuf = [vn \in VN |-> <<>>]
  /\ received = 0

IsHead(flit) == flit[2] = 0
IsTail(flit) == flit[2] = work[flit[1]].flits - 1

EndsRequest(flit) == flit[2] = requests[flit[1]].flits - 1

\* Faulty: one flit is as good as none.
SpaceForAllButOne(s, i) ==
  i <= Len(work) /\ s.outbufCredits[work[i].vn] + 1 >= work[i].flits

\* send() for packet i, in state s of the NIC; spaceToSend() guards it.
SpaceToSend(s, i) ==
  i <= Len(work) /\ s.outbufCredits[work[i].vn] >= work[i].flits

Send(s, i) ==
  LET vn == work[i].vn
  IN  [s EXCEPT !.outbufCredits[vn] = @ - work[i].flits,
                !.outBuf[vn] = @ \o [j \in 1 .. work[i].flits |-> <<i, j - 1>>],
                !.todo = i + 1]

State == [todo |-> todo, asleep |-> asleep, outBuf |-> outBuf,
          outbufCredits |-> outbufCredits, rtrCredits |-> rtrCredits,
          headInjectCycle |-> headInjectCycle, stamp |-> stamp, onLink |-> onLink,
          toCome |-> toCome, portCredits |-> portCredits,
          inReturnCredits |-> inReturnCredits, inBuf |-> inBuf, received |-> received]

Become(s) ==
  /\ todo' = s.todo /\ asleep' = s.asleep /\ outBuf' = s.outBuf
  /\ outbufCredits' = s.outbufCredits /\ rtrCredits' = s.rtrCredits
  /\ headInjectCycle' = s.headInjectCycle /\ stamp' = s.stamp /\ onLink' = s.onLink
  /\ toCome' = s.toCome /\ portCredits' = s.portCredits
  /\ inReturnCredits' = s.inReturnCredits /\ inBuf' = s.inBuf /\ received' = s.received
  /\ UNCHANGED constant

-----------------------------------------------------------------------------
(* The endpoint.                                                           *)

\* It has received what its next packet answers.
Ready(s) == s.todo <= Len(work) /\ work[s.todo].after <= s.received

\* It sends when there is space, and otherwise sleeps until notified.
TrySend(s) ==
  IF ~Ready(s) THEN s
  ELSE IF SpaceToSend(s, s.todo) THEN [Send(s, s.todo) EXCEPT !.asleep = FALSE]
  ELSE [s EXCEPT !.asleep = TRUE]

\* recv() until there is nothing left.
Recv(s, vn) == [s EXCEPT !.inBuf[vn] = <<>>, !.received = @ + Len(s.inBuf[vn])]

EndpointSends == ~asleep /\ Ready(State) /\ Become(TrySend(State))

EndpointReceives ==
  /\ polls
  /\ \E vn \in VN : inBuf[vn] # <<>> /\ Become(Recv(State, vn))

\* Faulty: the endpoint is not notified.
NoFunctor(s) == s

\* sendFunctor: called on every TAIL, whether the endpoint sleeps or not.
SendFunctor(s) == IF s.asleep THEN TrySend(s) ELSE s

\* receiveFunctor.
ReceiveFunctor(s, vn) == IF polls THEN s ELSE TrySend(Recv(s, vn))

-----------------------------------------------------------------------------
(* clockTick.                                                              *)

CanSend(s, vn) == s.outBuf[vn] # <<>> /\ s.rtrCredits[vn] > 0

\* The cycle, so far, in which flit is put on the link: the packets of its HEADs.
ThisCycle(s, flit) ==
  {s.onLink[i][1] : i \in {j \in DOMAIN s.onLink : IsHead(s.onLink[j])}} \cup {flit[1]}

\* Faulty: a TAIL does not carry the cycle of its HEAD.
UnstampedTail(s, flit) ==
  IF IsHead(flit) THEN [s EXCEPT !.headInjectCycle = ThisCycle(s, flit)]
  ELSE IF IsTail(flit) THEN [s EXCEPT !.headInjectCycle = Never]
  ELSE s

\* The stamps, once flit has been taken from outBuf.
Stamped(s, flit) ==
  IF IsHead(flit) THEN [s EXCEPT !.headInjectCycle = ThisCycle(s, flit)]
  ELSE IF IsTail(flit)
  THEN [s EXCEPT !.stamp[flit[1]] = s.headInjectCycle, !.headInjectCycle = Never]
  ELSE s

\* Faulty: the space given back is what there was before the notification.
PutOnLinkStale(s, vn) ==
  LET flit  == Head(s.outBuf[vn])
      taken == Stamped([s EXCEPT !.outBuf[vn] = Tail(@)], flit)
      woken == IF IsTail(flit) THEN SendFunctor(taken) ELSE taken
  IN  [woken EXCEPT !.rtrCredits[vn] = @ - 1,
                    !.outbufCredits[vn] = s.outbufCredits[vn] + 1,
                    !.onLink = Append(@, flit)]

\* On a TAIL the endpoint is notified before the flit's space is given back.
PutOnLink(s, vn) ==
  LET flit  == Head(s.outBuf[vn])
      taken == Stamped([s EXCEPT !.outBuf[vn] = Tail(@)], flit)
      woken == IF IsTail(flit) THEN SendFunctor(taken) ELSE taken
  IN  [woken EXCEPT !.rtrCredits[vn] = @ - 1, !.outbufCredits[vn] = @ + 1,
                    !.onLink = Append(@, flit)]

\* One iteration of the loop.
SendFlit(s, vn) == IF CanSend(s, vn) THEN PutOnLink(s, vn) ELSE s

\* Faulty: what the other virtual networks owe is reset along with it.
ReturnCreditResetAll(s) ==
  LET owing == {vn \in VN : s.inReturnCredits[vn] > 0}
      vn    == CHOOSE v \in owing : \A w \in owing : v <= w
  IN  IF owing = {} THEN s
      ELSE [s EXCEPT !.portCredits[vn] = @ + s.inReturnCredits[vn],
                     !.inReturnCredits = [w \in VN |-> 0]]

\* Faulty: the loop stops at the first virtual network, whether it owes some or not.
ReturnCreditOfFirst(s) ==
  [s EXCEPT !.portCredits[0] = @ + s.inReturnCredits[0], !.inReturnCredits[0] = 0]

\* Only in a tick that sends nothing: the credits of the first virtual network that
\* owes some.
ReturnCredit(s) ==
  LET owing == {vn \in VN : s.inReturnCredits[vn] > 0}
      vn    == CHOOSE v \in owing : \A w \in owing : v <= w
  IN  IF owing = {} THEN s
      ELSE [s EXCEPT !.portCredits[vn] = @ + s.inReturnCredits[vn], !.inReturnCredits[vn] = 0]

ClockTick ==
  LET after[n \in 0 .. NumVns] ==
        IF n = 0 THEN [State EXCEPT !.onLink = <<>>] ELSE SendFlit(after[n - 1], n - 1)
  IN  \E s \in {after[NumVns]} : Become(IF s.onLink = <<>> THEN ReturnCredit(s) ELSE s)

\* The router returns a credit for a flit it has taken out of its buffer.
RouterReturnsCredit ==
  \E vn \in VN :
    /\ rtrCredits[vn] < RtrBuf
    /\ Become([State EXCEPT !.rtrCredits[vn] = @ + 1])

\* processIncomingEvent, for a flit the router sends: on a TAIL the endpoint is
\* notified before the credit of the flit is recorded.
ReceiveFlit(vn) ==
  /\ toCome[vn] # <<>>
  /\ portCredits[vn] > 0
  /\ LET flit   == Head(toCome[vn])
         s      == [State EXCEPT !.toCome[vn] = Tail(@), !.portCredits[vn] = @ - 1]
         queued == [s EXCEPT !.inBuf[vn] = Append(@, flit[1])]
         told   == IF EndsRequest(flit) THEN ReceiveFunctor(queued, vn) ELSE s
     IN  Become([told EXCEPT !.inReturnCredits[vn] = @ + 1])

RouterSendsFlit == \E vn \in VN : ReceiveFlit(vn)

Next ==
  \/ EndpointSends \/ EndpointReceives
  \/ ClockTick
  \/ RouterReturnsCredit \/ RouterSendsFlit

Spec == Init /\ [][Next]_vars

\* The clocks tick, and the router frees its buffer and sends what it has.
FairSpec ==
  /\ Spec
  /\ WF_vars(EndpointSends) /\ WF_vars(EndpointReceives) /\ WF_vars(ClockTick)
  /\ WF_vars(RouterReturnsCredit) /\ WF_vars(RouterSendsFlit)

-----------------------------------------------------------------------------
SentFlit     == {f \in (DOMAIN work) \X Nat : f[2] < work[f[1]].flits}
ReceivedFlit == {f \in (DOMAIN requests) \X Nat : f[2] < requests[f[1]].flits}

NicState ==
  [todo : 1 .. Len(work) + 1, asleep : BOOLEAN, outBuf : [VN -> Seq(SentFlit)],
   outbufCredits : [VN -> Nat], rtrCredits : [VN -> Nat],
   headInjectCycle : SUBSET DOMAIN work, stamp : [DOMAIN work -> SUBSET DOMAIN work],
   onLink : Seq(SentFlit), toCome : [VN -> Seq(ReceivedFlit)], portCredits : [VN -> Nat],
   inReturnCredits : [VN -> Nat], inBuf : [VN -> Seq(DOMAIN requests)], received : Nat]

\* No counter ever goes negative, also when the endpoint spends what the loop is
\* about to give back.
TypeOK ==
  /\ work \in Seq(PacketToSend) /\ requests \in Seq(Request) /\ polls \in BOOLEAN
  /\ State \in NicState

\* A flit accepted is in the output buffer or its space is free again, also when
\* the endpoint calls send() from inside the loop.
SpaceExact == \A vn \in VN : outbufCredits[vn] + Len(outBuf[vn]) = OutBuf

\* TailSent(i): the TAIL of packet i has been put on the link.
TailSent(i) ==
  /\ i < todo
  /\ \A j \in 1 .. Len(outBuf[work[i].vn]) : outBuf[work[i].vn][j][1] # i

\* The TAIL of every packet carries the cycle in which its own HEAD was "put onto
\* the link", from which the receiver takes the packet's latency.
HeadStampExact == \A i \in 1 .. Len(work) : TailSent(i) => i \in stamp[i]

\* ... which holds as long as all packets are on one virtual network.
StampExactOnOneVn == (\A i, j \in 1 .. Len(work) : work[i].vn = work[j].vn) => HeadStampExact

\* The router may send what the NIC has room for, less what it has not been told.
\* (A credit is given when a flit has arrived, not when recv() takes the request.)
CreditsExact == \A vn \in VN : portCredits[vn] + inReturnCredits[vn] = InBuf

\* An endpoint that sleeps while there is no space for its next packet, or waits for
\* a request before it answers, is woken in time: all requests are received and all
\* there is to send is sent.
NeverSleepsForever ==
  <>( /\ received = Len(requests)
      /\ todo > Len(work)
      /\ \A vn \in VN : outBuf[vn] = <<>> )

\* The credits a NIC owes on a virtual network are given back.  They wait for a tick
\* that sends nothing, and there for the lower virtual networks, on which the router,
\* once it has its credits, makes the NIC owe some again: this needs traffic that ends
\* or pauses, as that of Workload does.
CreditsComeBack == \A vn \in VN : inReturnCredits[vn] > 0 ~> inReturnCredits[vn] = 0
=============================================================================
