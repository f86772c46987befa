------------------------------- MODULE MCStar -------------------------------
(***************************************************************************)
(* One router with three NICs, as in a 1x1 mesh with three local ports.    *)
(* Packets "a", "b" and "c" contend for one output, and "a" and "c" are of *)
(* one flow.  "d" comes from the NIC of "a" and "c" but is on the other    *)
(* virtual network, and goes to the NIC of "b", which has credits to       *)
(* return while it sends.                                                  *)
(***************************************************************************)
EXTENDS MordredNoc, TLC

CONSTANTS
  InFlits, OutFlits, NicFlits,   \* buffer sizes
  LongFlits                      \* flits of "a"

MCPort     == {"p1", "p2", "p3"}
MCNic      == {"n1", "n2", "n3"}
MCRouterOf == [p \in MCPort |-> "r"]
ToNic      == "p1" :> "n1" @@ "p2" :> "n2" @@ "p3" :> "n3"
ToPort     == "n1" :> "p1" @@ "n2" :> "p2" @@ "n3" :> "p3"
MCPeer     == ToNic @@ ToPort
MCRoute    == "r" :> ToPort

MCInCap    == [e \in End |-> IF e \in MCNic THEN NicFlits ELSE InFlits]
MCOutCap   == [e \in End |-> IF e \in MCNic THEN 3 ELSE OutFlits]

MCPacket   == {"a", "b", "c", "d"}
MCSrc      == "a" :> "n1" @@ "b" :> "n2" @@ "c" :> "n1" @@ "d" :> "n1"
MCDest     == "a" :> "n3" @@ "b" :> "n3" @@ "c" :> "n3" @@ "d" :> "n2"
MCPktVn    == "a" :> 0 @@ "b" :> 0 @@ "c" :> 0 @@ "d" :> 1
MCNumFlits == "a" :> LongFlits @@ "b" :> 2 @@ "c" :> 2 @@ "d" :> 2
=============================================================================
