--------------------------- MODULE MCVcDependency ---------------------------
(***************************************************************************)
(* VcDependency on each of the topologies.                                 *)
(***************************************************************************)
EXTENDS VcDependency, Topologies

NoPackets == [x \in {} |-> 0]
OneFlit   == [e \in PortTable \cup NicTable |-> 1]
=============================================================================
