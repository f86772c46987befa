------------------------------ MODULE VcPolicy ------------------------------
(***************************************************************************)
(* Which virtual channel a packet may be given at its next output          *)
(* (VcAllocRR::findDestVc), apart from which of them is free.              *)
(***************************************************************************)
EXTENDS NocParams

\* Faulty: a packet for a NIC may keep a VC above 0, which the NIC does not have.
DestVcsAnyEnd(p, vc) ==
  IF NumVcs > 1 /\ p \in WrapPort THEN {NumVcs - 1} ELSE {c \in VC : c >= vc}

\* findDestVc: the output VCs a packet on VC vc may take at port p.  A NIC has
\* only VC 0, a wrap-around link of a torus only the top VC, and elsewhere the
\* VC index never decreases.
DestVcs(p, vc) ==
  IF Peer[p] \in Nic THEN {0}
  ELSE IF NumVcs > 1 /\ p \in WrapPort THEN {NumVcs - 1}
  ELSE {c \in VC : c >= vc}
=============================================================================
