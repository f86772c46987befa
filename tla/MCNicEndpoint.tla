--------------------------- MODULE MCNicEndpoint ---------------------------
(***************************************************************************)
(* NicEndpoint with three packets to send, or with two that answer two     *)
(* requests or go unasked.                                                 *)
(***************************************************************************)
EXTENDS NicEndpoint

Pkt(n)  == [vn : VN, flits : {2, 4}, after : {n}]
Sending == {<<p, q, r>> : p, q, r \in Pkt(0)}
Replies == {<<p, q>> : p \in Pkt(0) \cup Pkt(1), q \in Pkt(2)}
Asked   == {<<p, q>> : p \in [vn : {0}, flits : {2}], q \in [vn : VN, flits : {2}]}

Workloads == [packets : Sending, requests : {<<>>}, polls : {FALSE}]
             \cup [packets : Replies, requests : Asked, polls : BOOLEAN]
=============================================================================
