------------------------------- MODULE MCInit -------------------------------
(***************************************************************************)
(* InitPhases on a mesh: two endpoints that broadcast and answer.          *)
(***************************************************************************)
EXTENDS InitPhases, Topologies

NoPackets == [x \in {} |-> 0]
TwoFlits  == [e \in PortTable \cup NicTable |-> 2]
MCFlood   == FloodTable

\* Endpoint 0 broadcasts; the other sends nothing, an answer, or a broadcast of its
\* own and an answer.
MCPlan == {[e \in NicTable |-> IF e = <<0>> THEN <<Broadcast>> ELSE answers] :
             answers \in {<<>>, << <<0>> >>, <<Broadcast, <<0>>>>}}
=============================================================================
