---------------------------- MODULE PacketService ----------------------------
(***************************************************************************)
(* What the network promises the endpoints, whatever happens between two   *)
(* NICs: every packet send() accepted is handed over at most once, at the  *)
(* NIC and on the virtual network it is for, and nothing else ever is.     *)
(* With one virtual channel, the packets of one flow also come in order.   *)
(***************************************************************************)
EXTENDS Naturals, Sequences

CONSTANTS
  Nic, VN,
  Packet, Src, Dest, PktVn,   \* packets, and where they come from and go to
  InOrder                     \* whether the packets of a flow stay in order

VARIABLES
  sent,      \* sent[n]: packets accepted from the endpoint of NIC n, in order
  arrived    \* arrived[x]: packets handed over at NIC x[1] on x[2], in order

serviceVars == <<sent, arrived>>

Inbox(k) == <<Dest[k], PktVn[k]>>

Accepted(k)   == \E i \in 1 .. Len(sent[Src[k]]) : sent[Src[k]][i] = k
HandedOver(k) == \E i \in 1 .. Len(arrived[Inbox(k)]) : arrived[Inbox(k)][i] = k

SameFlow(k, l) == Src[k] = Src[l] /\ Inbox(k) = Inbox(l)

SentBefore(k, l) ==
  /\ SameFlow(k, l)
  /\ \E i, j \in 1 .. Len(sent[Src[k]]) :
       i < j /\ sent[Src[k]][i] = k /\ sent[Src[k]][j] = l

Init ==
  /\ sent = [n \in Nic |-> <<>>]
  /\ arrived = [x \in Nic \X VN |-> <<>>]

Accept(k) ==
  /\ ~Accepted(k)
  /\ sent' = [sent EXCEPT ![Src[k]] = Append(@, k)]
  /\ UNCHANGED arrived

HandOver(k) ==
  /\ Accepted(k)
  /\ ~HandedOver(k)
  /\ InOrder => \A l \in Packet : SentBefore(l, k) => HandedOver(l)
  /\ arrived' = [arrived EXCEPT ![Inbox(k)] = Append(@, k)]
  /\ UNCHANGED sent

Next == \E k \in Packet : Accept(k) \/ HandOver(k)

Spec == Init /\ [][Next]_serviceVars

-----------------------------------------------------------------------------
\* In a flow that stays in order, the packets handed over are the first ones that
\* were sent, in the order they were sent.
FlowsInOrder ==
  InOrder =>
    \A x \in Nic \X VN : \A b \in 1 .. Len(arrived[x]) :
      LET l == arrived[x][b]
      IN  /\ Accepted(l)
          /\ \A a \in 1 .. b - 1 : SameFlow(arrived[x][a], l) => SentBefore(arrived[x][a], l)
          /\ \A k \in Packet : SentBefore(k, l) => \E a \in 1 .. b - 1 : arrived[x][a] = k
=============================================================================
