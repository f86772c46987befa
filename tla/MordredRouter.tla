---------------------------- MODULE MordredRouter ----------------------------
(***************************************************************************)
(* What a router does between its ports in a clock tick: move one flit per *)
(* connected output through the crossbar, connect inputs to outputs        *)
(* (XbarArbRR), and give output virtual channels to packets (VcAllocRR).   *)
(* One action is one iteration of the loop it is named for; clockTick runs *)
(* every iteration in every cycle, so here they may run in any order and   *)
(* any grant the arbiters could make may be made.                          *)
(***************************************************************************)
EXTENDS RtrPortControl, VcPolicy

\* Faulty: the connection ends after the HEAD.
ReleasesAtHead(flit) == IsHead(flit)

\* The flit that ends a crossbar connection.
Releases(flit) == IsTail(flit)

\* clockTick, first loop, for receiving port p.  The connection lasts for a
\* whole packet: the TAIL releases it and both units.
CrossbarTransfer(p) ==
  LET q    == rcvFrom[p]
      in   == sendFrom[q]
      out  == rcvTo[p]
      flit == Head(inBuf[in])
  IN  /\ q # None
      /\ outBufCredits[out] > 0          \* getSendingPort
      /\ inBuf[in] # <<>>                \* getInBufFlit
      /\ inBuf' = [inBuf EXCEPT ![in] = Tail(@)]
      /\ retCredits' = [retCredits EXCEPT ![in] = @ + 1]
      /\ outBuf' = [outBuf EXCEPT ![out] = Append(@, flit)]
      /\ outBufCredits' = [outBufCredits EXCEPT ![out] = @ - 1]
      /\ IF Releases(flit)
         THEN /\ outPort' = [outPort EXCEPT ![in] = None]
              /\ outVc' = [outVc EXCEPT ![in] = None]
              /\ outSrc' = [outSrc EXCEPT ![out] = None]
              /\ inVcState' = [inVcState EXCEPT ![in] = "IN_IDLE"]
              /\ outVcState' = [outVcState EXCEPT ![out] = "OUT_IDLE"]
              /\ sendTo' = [sendTo EXCEPT ![q] = None]
              /\ sendFrom' = [sendFrom EXCEPT ![q] = None]
              /\ rcvFrom' = [rcvFrom EXCEPT ![p] = None]
              /\ rcvTo' = [rcvTo EXCEPT ![p] = None]
         ELSE UNCHANGED <<outPort, outVc, outSrc, inVcState, outVcState, xbarVars>>
      /\ UNCHANGED <<destCredits, needVars>>

\* Faulty: an input may be granted an output that is already receiving.
UnconnectedSender(q, p) == sendTo[q] = None

\* isSendAllocatedToSwitch and isRecvAllocatedFromSwitch both answer no.
Unconnected(q, p) == sendTo[q] = None /\ rcvTo[p] = None

\* XbarArbRR::arbitrate: output port outPort[in] starts receiving from input
\* unit in, if neither port is connected.
SwitchGrant(in) ==
  LET q   == in[1]
      p   == outPort[in]
      out == <<p, in[2], outVc[in]>>
  IN  /\ in \in needSwitchAlloc
      /\ Unconnected(q, p)
      /\ outSrc[out] \in UnitsOf(q)       \* else fatal "Port mismatch"
      /\ sendTo' = [sendTo EXCEPT ![q] = p]
      /\ sendFrom' = [sendFrom EXCEPT ![q] = in]
      /\ rcvFrom' = [rcvFrom EXCEPT ![p] = q]
      /\ rcvTo' = [rcvTo EXCEPT ![p] = out]
      /\ needSwitchAlloc' = needSwitchAlloc \ {in}
      /\ UNCHANGED <<inVars, outVars, needVcAlloc>>

\* Faulty: the state of the output VC is not looked at.
AnyVc(out) == out \in PortUnit

FreeVc(out) == outVcState[out] = "OUT_IDLE"

\* VcAllocRR::arbitrate, for the packet at the front of input unit in.
VcGrant(in, vc) ==
  LET out == <<outPort[in], in[2], vc>>
  IN  /\ in \in needVcAlloc
      /\ vc \in DestVcs(outPort[in], in[3])
      /\ FreeVc(out)
      /\ outVc' = [outVc EXCEPT ![in] = vc]                    \* inUnitSetDestVc
      /\ outVcState' = [outVcState EXCEPT ![out] = "OUT_BUSY"]  \* outUnitSetSrc
      /\ outSrc' = [outSrc EXCEPT ![out] = in]
      /\ needVcAlloc' = needVcAlloc \ {in}
      /\ UNCHANGED <<inVcState, outPort, retCredits, inBuf, outBufCredits,
                     destCredits, outBuf, xbarVars, needSwitchAlloc>>
=============================================================================
