--------------------------- MODULE MordredNicBase ---------------------------
(***************************************************************************)
(* The flow control of the NICs (MordredNicBase with the raw-link          *)
(* transport of MordredNIC): splitting a request into flits, sending them  *)
(* against the router's credits, and reassembling what arrives.  A NIC     *)
(* uses VC 0 of its link only.                                             *)
(***************************************************************************)
EXTENDS MordredLink

VARIABLES
  nicOutBuf,        \* outBuf[vn]: flits waiting for the link
  outbufCredits,    \* free space in outBuf[vn], in flits
  rtrCredits,       \* free space at the router, in flits
  inReturnCredits,  \* credits owed to the router
  nicInBuf,         \* inBuf[vn]: requests that arrived, in order
  sent              \* sent[n]: packets send() accepted, in order

nicVars == <<nicOutBuf, outbufCredits, rtrCredits, inReturnCredits, nicInBuf, sent>>

NicVn == Nic \X VN

NicTypeOK ==
  /\ nicOutBuf \in [NicVn -> Seq(Flit)]
  /\ outbufCredits \in [NicVn -> Nat]
  /\ rtrCredits \in [NicVn -> Nat]
  /\ inReturnCredits \in [NicVn -> Nat]
  /\ nicInBuf \in [NicVn -> Seq(Packet)]
  /\ sent \in [Nic -> Seq(Packet)]

NicInit ==
  /\ nicOutBuf = [x \in NicVn |-> <<>>]
  /\ outbufCredits = [x \in NicVn |-> OutCap[x[1]]]
  /\ rtrCredits = [x \in NicVn |-> LinkCredits(<<x[1], x[2], 0>>)]
  /\ inReturnCredits = [x \in NicVn |-> 0]
  /\ nicInBuf = [x \in NicVn |-> <<>>]
  /\ sent = [n \in Nic |-> <<>>]

WasSent(k) == \E i \in 1 .. Len(sent[Src[k]]) : sent[Src[k]][i] = k

\* Faulty: space is reserved for one flit instead of the whole packet.
SendReservesOne(k) ==
  LET x == <<Src[k], PktVn[k]>>
  IN  /\ ~WasSent(k)
      /\ outbufCredits[x] >= NumFlits[k]
      /\ outbufCredits' = [outbufCredits EXCEPT ![x] = @ - 1]
      /\ nicOutBuf' = [nicOutBuf EXCEPT ![x] = @ \o FlitsOf(k)]
      /\ sent' = [sent EXCEPT ![Src[k]] = Append(@, k)]
      /\ UNCHANGED <<rtrCredits, inReturnCredits, nicInBuf, linkVars>>

\* send(): accepted only if the whole packet fits in the output buffer.
Send(k) ==
  LET x == <<Src[k], PktVn[k]>>
  IN  /\ ~WasSent(k)
      /\ outbufCredits[x] >= NumFlits[k]
      /\ outbufCredits' = [outbufCredits EXCEPT ![x] = @ - NumFlits[k]]
      /\ nicOutBuf' = [nicOutBuf EXCEPT ![x] = @ \o FlitsOf(k)]
      /\ sent' = [sent EXCEPT ![Src[k]] = Append(@, k)]
      /\ UNCHANGED <<rtrCredits, inReturnCredits, nicInBuf, linkVars>>

\* clockTick(): one flit of every VN that has one and a credit for it.  Only a
\* tick that sends nothing returns credits, those of the lowest VN owing any.
NicSending(n) == {x \in NicVn : x[1] = n /\ nicOutBuf[x] # <<>> /\ rtrCredits[x] > 0}

NicSendFlits(n) ==
  /\ NicSending(n) # {}
  /\ nicOutBuf' = [x \in NicVn |->
       IF x \in NicSending(n) THEN Tail(nicOutBuf[x]) ELSE nicOutBuf[x]]
  /\ wire' = [u \in Unit |->
       IF u[3] = 0 /\ <<u[1], u[2]>> \in NicSending(n)
       THEN Append(wire[u], Head(nicOutBuf[<<u[1], u[2]>>])) ELSE wire[u]]
  /\ rtrCredits' = [x \in NicVn |->
       IF x \in NicSending(n) THEN rtrCredits[x] - 1 ELSE rtrCredits[x]]
  /\ outbufCredits' = [x \in NicVn |->
       IF x \in NicSending(n) THEN outbufCredits[x] + 1 ELSE outbufCredits[x]]
  /\ UNCHANGED <<inReturnCredits, nicInBuf, sent, creditWire>>

NicReturnCredit(n) ==
  /\ NicSending(n) = {}
  /\ \E vn \in VN :
       LET x == <<n, vn>> IN
       /\ inReturnCredits[x] > 0
       /\ \A w \in VN : w < vn => inReturnCredits[<<n, w>>] = 0
       /\ creditWire' = [creditWire EXCEPT ![<<n, vn, 0>>] = @ + inReturnCredits[x]]
       /\ inReturnCredits' = [inReturnCredits EXCEPT ![x] = 0]
  /\ UNCHANGED <<nicOutBuf, outbufCredits, rtrCredits, nicInBuf, sent, wire>>

NicClockTick(n) == NicSendFlits(n) \/ NicReturnCredit(n)

\* Faulty variants of the next action: only a TAIL earns the router a credit, the
\* request is handed over at the HEAD, or in front of those that arrived before.
NicReceiveFlitTailCredit(x, f) ==
  /\ nicInBuf' = IF IsTail(f) THEN [nicInBuf EXCEPT ![x] = Append(@, f.pkt)]
                              ELSE nicInBuf
  /\ inReturnCredits' = [inReturnCredits EXCEPT ![x] = IF IsTail(f) THEN @ + 1 ELSE @]
  /\ UNCHANGED <<nicOutBuf, outbufCredits, rtrCredits, sent>>

NicReceiveFlitAtHead(x, f) ==
  /\ nicInBuf' = IF IsHead(f) THEN [nicInBuf EXCEPT ![x] = Append(@, f.pkt)]
                              ELSE nicInBuf
  /\ inReturnCredits' = [inReturnCredits EXCEPT ![x] = @ + 1]
  /\ UNCHANGED <<nicOutBuf, outbufCredits, rtrCredits, sent>>

NicReceiveFlitInFront(x, f) ==
  /\ nicInBuf' = IF IsTail(f) THEN [nicInBuf EXCEPT ![x] = <<f.pkt>> \o @]
                              ELSE nicInBuf
  /\ inReturnCredits' = [inReturnCredits EXCEPT ![x] = @ + 1]
  /\ UNCHANGED <<nicOutBuf, outbufCredits, rtrCredits, sent>>

\* processIncomingEvent, for a NIC: flits are counted and dropped; the TAIL
\* hands over the request.
NicReceiveFlit(x, f) ==
  /\ nicInBuf' = IF IsTail(f) THEN [nicInBuf EXCEPT ![x] = Append(@, f.pkt)]
                              ELSE nicInBuf
  /\ inReturnCredits' = [inReturnCredits EXCEPT ![x] = @ + 1]
  /\ UNCHANGED <<nicOutBuf, outbufCredits, rtrCredits, sent>>

NicReceiveCredit(x, credits) ==
  /\ rtrCredits' = [rtrCredits EXCEPT ![x] = @ + credits]
  /\ UNCHANGED <<nicOutBuf, outbufCredits, inReturnCredits, nicInBuf, sent>>
=============================================================================
