--------------------------- MODULE RtrPortControl ---------------------------
(***************************************************************************)
(* The router ports: RtrPortControlBase with the raw-link transport of     *)
(* RtrPortControl.  A port owns an input unit (perVcInState) and an output *)
(* unit (perVcOutState) for each (VN, VC), the two ends of its crossbar    *)
(* connection, and the entries needVcAlloc and needSwitchAlloc it shares   *)
(* with the allocators of its router (RtrOwnedSharedObjs).                 *)
(*                                                                         *)
(* The round-robin pointers are left out: where the code scans from a      *)
(* pointer, any candidate may be chosen.                                   *)
(***************************************************************************)
EXTENDS MordredLink

VARIABLES
  \* input units (perVcInState); outVn always equals the unit's own VN
  inVcState, outPort, outVc, retCredits, inBuf,
  \* output units (perVcOutState); outSrc stands for inPort, inVn, inVc
  outVcState, outSrc, outBufCredits, destCredits, outBuf,
  \* crossbar connection of a port: as sender, and as receiver
  sendTo, sendFrom, rcvFrom, rcvTo,
  \* units whose pending-request entry is not null
  needVcAlloc, needSwitchAlloc

inVars   == <<inVcState, outPort, outVc, retCredits, inBuf>>
outVars  == <<outVcState, outSrc, outBufCredits, destCredits, outBuf>>
xbarVars == <<sendTo, sendFrom, rcvFrom, rcvTo>>
needVars == <<needVcAlloc, needSwitchAlloc>>
portVars == <<inVars, outVars, xbarVars, needVars>>

PortTypeOK ==
  /\ inVcState \in [PortUnit -> {"IN_IDLE", "ROUTING", "WAIT_VC", "IN_ACTIVE"}]
  /\ outPort \in [PortUnit -> Port \cup {None}]
  /\ outVc \in [PortUnit -> VC \cup {None}]
  /\ retCredits \in [PortUnit -> Nat]
  /\ inBuf \in [PortUnit -> Seq(Flit)]
  /\ outVcState \in [PortUnit -> {"OUT_IDLE", "OUT_BUSY"}]
  /\ outSrc \in [PortUnit -> PortUnit \cup {None}]
  /\ outBufCredits \in [PortUnit -> Nat]
  /\ destCredits \in [PortUnit -> Nat]
  /\ outBuf \in [PortUnit -> Seq(Flit)]
  /\ sendTo \in [Port -> Port \cup {None}]
  /\ sendFrom \in [Port -> PortUnit \cup {None}]
  /\ rcvFrom \in [Port -> Port \cup {None}]
  /\ rcvTo \in [Port -> PortUnit \cup {None}]
  /\ needVcAlloc \subseteq PortUnit
  /\ needSwitchAlloc \subseteq PortUnit

\* After allocateBuffers() and the credit exchange of init().
PortInit ==
  /\ inVcState = [u \in PortUnit |-> "IN_IDLE"]
  /\ outPort = [u \in PortUnit |-> None]
  /\ outVc = [u \in PortUnit |-> None]
  /\ retCredits = [u \in PortUnit |-> 0]
  /\ inBuf = [u \in PortUnit |-> <<>>]
  /\ outVcState = [u \in PortUnit |-> "OUT_IDLE"]
  /\ outSrc = [u \in PortUnit |-> None]
  /\ outBufCredits = [u \in PortUnit |-> OutCap[u[1]]]
  /\ destCredits = [u \in PortUnit |-> LinkCredits(u)]
  /\ outBuf = [u \in PortUnit |-> <<>>]
  /\ sendTo = [p \in Port |-> None]
  /\ sendFrom = [p \in Port |-> None]
  /\ rcvFrom = [p \in Port |-> None]
  /\ rcvTo = [p \in Port |-> None]
  /\ needVcAlloc = {}
  /\ needSwitchAlloc = {}

-----------------------------------------------------------------------------
(* ClockTick: the input pipeline, one flit to the link, credits returned.  *)

InUnits(p, state) == {u \in UnitsOf(p) : inVcState[u] = state}

StartsRouting(p) == {u \in InUnits(p, "IN_IDLE") : inBuf[u] # <<>>}

\* Faulty: the stage after WAIT_VC does not wait for the VC.
GotVcEarly(p)    == InUnits(p, "WAIT_VC")

GotVc(p)         == {u \in InUnits(p, "WAIT_VC") : outVc[u] # None}

\* Each input unit of p moves at most one stage: IN_IDLE, ROUTING, WAIT_VC,
\* IN_ACTIVE.  The first stage fails hard ("Expected head flit", "Expected
\* nullptr in IN_IDLE"): see NoFatal in MordredNoc.
InputPipeline(p) ==
  LET idle    == StartsRouting(p)
      routed  == InUnits(p, "ROUTING")
      granted == GotVc(p)
  IN  /\ inVcState' = [u \in PortUnit |->
                         CASE u \in idle    -> "ROUTING"
                           [] u \in routed  -> "WAIT_VC"
                           [] u \in granted -> "IN_ACTIVE"
                           [] OTHER         -> inVcState[u]]
      /\ outPort' = [u \in PortUnit |->
                       IF u \in idle
                       THEN Route[RouterOf[p]][Dest[Head(inBuf[u]).pkt]]
                       ELSE outPort[u]]
      /\ needVcAlloc' = needVcAlloc \cup routed
      /\ needSwitchAlloc' = needSwitchAlloc \cup granted
      /\ UNCHANGED <<outVc, inBuf>>

\* Faulty: a flit is sent without a credit.
SendableBlindly(u) == outBuf[u] # <<>>

Sendable(u) == outBuf[u] # <<>> /\ destCredits[u] > 0

\* At most one flit per tick goes to the link, and one does whenever it can.
SendFlit(p) ==
  /\ \/ \E u \in UnitsOf(p) :
          /\ Sendable(u)
          /\ outBuf' = [outBuf EXCEPT ![u] = Tail(@)]
          /\ outBufCredits' = [outBufCredits EXCEPT ![u] = @ + 1]
          /\ destCredits' = [destCredits EXCEPT ![u] = @ - 1]
          /\ TransportFlit(u, Head(outBuf[u]))
     \/ /\ \A u \in UnitsOf(p) : ~Sendable(u)
        /\ UNCHANGED <<outBuf, outBufCredits, destCredits, wire>>
  /\ UNCHANGED <<outVcState, outSrc>>

\* Faulty: the credits of every VC are reset, but those of one VC per VN returned.
ReturnCreditResetAll(p) ==
  \E owing \in SUBSET {u \in UnitsOf(p) : retCredits[u] # 0} :
    /\ \A u, v \in owing : u[2] = v[2] => u = v
    /\ creditWire' = [u \in Unit |->
                        IF u \in owing THEN creditWire[u] + retCredits[u]
                                       ELSE creditWire[u]]
    /\ retCredits' = [u \in PortUnit |-> IF u[1] = p THEN 0 ELSE retCredits[u]]

\* returnCredit(): in every VN, one VC that owes credits returns all it owes.
ReturnCredit(p) ==
  \E owing \in SUBSET {u \in UnitsOf(p) : retCredits[u] # 0} :
    /\ \A u, v \in owing : u[2] = v[2] => u = v
    /\ \A u \in UnitsOf(p) : retCredits[u] # 0 => \E v \in owing : v[2] = u[2]
    /\ creditWire' = [u \in Unit |->
                        IF u \in owing THEN creditWire[u] + retCredits[u]
                                       ELSE creditWire[u]]
    /\ retCredits' = [u \in PortUnit |-> IF u \in owing THEN 0 ELSE retCredits[u]]

ClockTick(p) ==
  /\ InputPipeline(p)
  /\ SendFlit(p)
  /\ ReturnCredit(p)
  /\ UNCHANGED xbarVars

-----------------------------------------------------------------------------
(* processIncomingEvent, for a port.                                       *)

PortReceiveFlit(u, f) ==
  /\ inBuf' = [inBuf EXCEPT ![u] = Append(@, f)]
  /\ UNCHANGED <<inVcState, outPort, outVc, retCredits, outVars, xbarVars, needVars>>

PortReceiveCredit(u, credits) ==
  /\ destCredits' = [destCredits EXCEPT ![u] = @ + credits]
  /\ UNCHANGED <<inVars, outVcState, outSrc, outBufCredits, outBuf, xbarVars, needVars>>
=============================================================================
