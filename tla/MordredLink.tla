----------------------------- MODULE MordredLink -----------------------------
(***************************************************************************)
(* The links (SST::Link, outside src/).  A link delivers what is sent on   *)
(* it in order, some time later.  Flits of different (VN, VC) pairs meet   *)
(* no shared queue at the receiver, so each pair has a queue of its own;   *)
(* credit messages only add up, so those in flight are a number.           *)
(***************************************************************************)
EXTENDS NocParams

VARIABLES
  wire,        \* wire[u]: flits sent by unit u, not yet delivered to Far(u)
  creditWire   \* creditWire[u]: credits sent by unit u, not yet delivered

linkVars == <<wire, creditWire>>

LinkTypeOK ==
  /\ wire \in [Unit -> Seq(Flit)]
  /\ creditWire \in [Unit -> Nat]

LinkInit ==
  /\ wire = [u \in Unit |-> <<>>]
  /\ creditWire = [u \in Unit |-> 0]

\* Put flit f on the stream of unit u.
TransportFlit(u, f) == wire' = [wire EXCEPT ![u] = Append(@, f)]
=============================================================================
