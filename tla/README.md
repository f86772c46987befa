# Mordred, modelled and proved

Mordred (`src/src/`) is an on-chip network simulator built as a set of SST components: routers with
virtual-channel wormhole switching, network interfaces (NICs) on the SimpleNetwork interface, and topologies
that decide routes. Beside it the repository holds Python scripts that build networks and memory systems out of such
components. This directory holds TLA+ modules that model both, TLC configurations that check them on
small instances, and proofs, checked by TLAPS, for all instances: of the network (flow control, allocation, wormhole
switching, delivery, the service it implements), of the accounts and stamps of a NIC, of the start of a simulation and of
untimed broadcasts, and of meshes and tori of every size (shortest routes, freedom from deadlock, floods that are trees).

Paths below are relative to `src/src/` unless they begin with `tests/`, `repotest/`, `merlin_testing/` or `README.md` (the
repository's own).

## 1. The system

### Components

| Component (source) | State | Operations | What makes it correct |
|---|---|---|---|
| Router port: `RtrPortControlBase`, `RtrPortControl`, `RtrPortControlAPI.h` | per (VN, VC): input queue, stage of the packet in front (`IN_IDLE`, `ROUTING`, `WAIT_VC`, `IN_ACTIVE`), output queue and its owner (`OUT_IDLE`/`OUT_BUSY`), credits of the far end, credits to return; per port: the crossbar connection it sends and receives on | `clockTick` (input pipeline, link output, credit return), `processIncomingEvent`, `sendFlit`/`recvFlit`/`recv`, the allocate/reset calls of the allocators | no buffer is overrun, no credit is lost, the pipeline never reaches one of its `fatal` calls, each request to an allocator is pending exactly as long as it is meant |
| Router: `MordredRouter` | the two shared request maps `needVcAlloc` and `needSwitchAlloc` | `clockTick`: one flit per crossbar connection, then `XbarArb`, then `VcAlloc`, then the ports; `init`/`complete`: relay of untimed data | packets stay whole and separate; every packet arrives; a broadcast reaches everyone once |
| VC allocator: `VcAllocRR` | round-robin pointers | `allocateVcs` | an output VC has one owner; the VCs a packet may take never let packets wait for each other in a circle |
| Crossbar arbiter: `XbarArbRR` | round-robin pointers | `arbitrate` | the crossbar is a matching |
| NIC: `MordredNicBase`, `MordredNIC` | per VN: output queue, its free space, credits of the router, credits to return, requests received; one stamp of the last HEAD | `send`, `recv`, `clockTick`, link events, the send and receive notifications | accounting survives the endpoint calling back in; a sleeping endpoint is woken; latency stamps belong to their packet |
| Events: `MordredEvents.h` | flits, credits, init events, the maps above | none | |
| Topologies: `MeshTopology`, `Torus2dTopo`, `Torus3dTopo`, `FlatButterflyTopo`, `GatewayTopology` | constant, but for the gateway's set of broadcast origins, one per domain and shared by its routers | `routePacket`, `getEndpointId`, `sendBroadcast`, `isWrapAroundOutput` | routes end at the right endpoint and are shortest; floods neither miss nor repeat a router |
| Physical-channel transport: `RtrPortControlPC`, `MordredNicPC` | packets under way, flits waiting to be fed to the port | coalescing and rebuilding packets | (not modelled) |
| Init and complete phases: `init`, `complete` of ports, NICs and routers | what is known of the other side of each link; the table of neighbours; credits; untimed packets received | phases 0 to 3: identities, widths, endpoint numbers, credits; from phase 4 on and in `complete`: relay of untimed data | nobody reads a message it does not expect; every sender ends with exactly the credits of its stream |
| Test endpoint: `MordredTestEP` | what it still has to send, what it has received | `recv` until nothing is left, `send` while there is space | |
| Network build scripts: `repotest/*.py`, `repotest/*/offered_load.py`, `merlin_testing/*.py` | dictionaries of links and of next free ports, by name | `getLink`, `getNextTopoPort`, `create_link`, `createMesh`, `createSimpleTorus`, `createTorus`, `FlattenedButterfly`, `Crossbar` | every link has two ends and every port one link; the network is connected and is the one the topology class routes in |
| Memory-system scripts: `repotest/memH/test*.py` | the tiles made so far, ports taken | `buildCPU`, memories, directories, bridges and four meshes that join them | every address has one directory and one memory; the four networks are alike |
| Statistics, serialization, `mhlib.py`, experiment data | | | (not modelled) |

### How they interact

* **Links.** Ports and NICs exchange flits and credits over SST links, which deliver in order after a delay.
  A credit message carries counts for several virtual networks.
* **Shared objects.** Ports put a packet into `needVcAlloc` or `needSwitchAlloc` during their tick; the allocators
  work from these maps in a later tick and write into the records of *two* ports, those of the input and of the output.
* **Callbacks.** A NIC notifies its endpoint from inside its own sending loop and from inside its link-event handler; the
  endpoint may call `send()` and `recv()` there and then.
* **Phases.** `init` runs in phases: what is sent in one is received in the next. Untimed data passes from phase 4 on
  and, in the same way, in `complete`.
* **Names.** Scripts find links and ports again by the names of what they join; the number of a port is often the order
  in which links were made, and the routing of the topology class relies on it.

### What is hard about it

Each router, port and NIC sees only its own part and old news of the others: credits travel; requests wait in maps while
the packets they speak of move on; one grant writes two ports; a TAIL resets four records in an order that matters; a NIC
has one VC and routers have several, so packets that overtake each other have to be made one stream again; a flood
travels over loops, through several domains, with only local rules to stop it. The crossbar connects two ports for a whole
packet, so virtual channels are less separate than they look. `PROJECT.json` lists the
hazards line by line, with the properties that watch them.

## 2. The modules

### The network

`NocParams` ← `MordredLink` ← `RtrPortControl` ← (`VcPolicy`) ← `MordredRouter`, and `MordredNicBase`, all composed by `MordredNoc`.

* **`NocParams`**: constants (routers, ports, NICs, wiring `Peer`, the topology's answers `Route` and `WrapPort`,
  sizes, packets) and the named assumptions about them. A *unit* is one (VN, VC) pair at one link end, written
  `<<end, vn, vc>>`.
* **`MordredLink`** (external, SST core): flits of a stream in order (`wire`), credits in flight as a number (`creditWire`).
  Streams of different VNs are separate queues, so the models allow more orders than a link does.
* **`RtrPortControl`**: `RtrPortControlBase::clockTick` as `ClockTick`, with one alternative per stage of the input
  pipeline, link output and credit return, plus the two handlers of link events.
* **`VcPolicy`**: `DestVcs`, the output VCs `VcAllocRR` lets a packet take: VC 0 towards a NIC, the top VC on a
  wrap-around link, any VC not below its own elsewhere.
* **`MordredRouter`**: `CrossbarTransfer` (the crossbar loop, TAIL clean-up included), `SwitchGrant`, `VcGrant`.
* **`MordredNicBase`**: `Send`, `NicClockTick` (one flit of each VN that can send; credits only in a tick that sends nothing)
  and the two link-event handlers.
* **`MordredNoc`**: `Init`, `Next`, fairness and the properties of the whole.
* **`PacketService`**: what the network promises the endpoints, without a network. `Accept` takes a packet that was not sent before,
  `HandOver` gives it to its NIC, on its virtual network, once; with one virtual channel it waits for the packets
  sent before it in its flow. `MordredNoc` implements it (`ServiceImplemented`), with `sent` for the packets accepted and `nicInBuf` for those
  handed over; `FlowOrder` is its `FlowsInOrder` said of the network.

Decisions that shape these modules:

1. *Ticks are split.* A `clockTick` runs loops over ports and VCs. Each iteration that changes state is an action of its
   own, and any order of them is allowed: the code's order is one of them, and a proof for all orders does not depend on
   the order in which SST calls the clock handlers. The NIC's tick stays whole, because it decides on the
   whole of it (whether anything was sent).
2. *Round-robin is any choice.* Pointers only order the candidates. Safety then holds for every arbitration policy;
   for liveness see section 4.
3. *Only positions that exist.* A flit is `[pkt, id]`; the payload is the packet. HEAD and TAIL follow from `id`.
4. *The handshake's result is the initial state*: all buffers empty, credits equal to the far end's buffers, and only
   VC 0 granted to and from NICs (`LinkCredits`). `InitPhases` shows that it is (`CreditsGranted`).

### The topologies

`MeshTopology`, `TorusTopo`, `Torus3DTopo`, `FlatButterflyTopo` and `GatewayTopology` define `routePacket`, `getEndpointId`,
`broadcastPorts` (the ports `routeUntimedBroadcastPacket` sends to) and `isWrapAroundOutput` as operators. How ports are wired
is taken from the scripts under `tests/`; `ScriptWalks` takes it from the scripts of `repotest` instead. `Topologies` and `GatewayDomains` turn them into tables, under one interface;
`Domains` holds the layouts of the gateway tests. Three modules use them:

* **`RouteWalk`**: one packet from any router to any endpoint of any of the topologies, hop by hop, with the set of routers
  any other route of that length could have reached as a history variable.
* **`VcDependency`**: the wait-for relation between (link, VC) channels as a transition relation, with the real routing
  and the real `DestVcs`; `NextLinks` follows only turns that some destination makes. A packet waits for a channel
  (`WaitForVc`), which is the graph the comments of `VcAllocRR` speak of, or for a crossbar connection (`WaitForConnection`),
  which another packet holds until its TAIL on whatever channel it is. HEADs are all that can be stopped: behind a
  HEAD every router on the way is connected already.
* **`UntimedBroadcast`**: endpoints, routers and phases of untimed data in any of several networks, with the gateway's dedup.
  Within a phase ports are handled in any order.

### Start and end of a simulation

**`InitPhases`** has one action per port and per NIC for its call in a phase, in any order within the phase: `PortReports`,
`PortMeetsRouter`, ... and `NicReports`, `NicMeetsRouter`, ... are the cases of the two `switch` statements. Phase 4 stands for
all later ones, in which everything that has arrived is read (`Draining`), and so does `complete()`. A phase in which
nothing was sent ends `init`, and the run, which changes none of these variables, is left out between the two.
`Relay` is the loop of `MordredRouter::init`. Endpoints may send as soon as `isNetworkInitialized()` says so, which is in phase 3
already, beside the credits. `UntimedBroadcast` is the abstract specification of what happens to their messages:
`InitPhases` implements it, with the messages read off its queues.

### The NIC in detail

**`NicEndpoint`** expands what `MordredNicBase` abstracts: the order of VNs inside the loops, `headInjectCycle`, `recv()`, and what the
endpoint does from inside the two notifications: `send()` before the space of the TAIL is given back, `recv()` and `send()` before
the credit of the TAIL is recorded. An endpoint either acts on the receive notification or, as `MordredTestEP`, looks itself.

### The simulation scripts

A script is a sequence of calls of sst. `SstConfig` defines the calls and what each does to the system built so far (components,
links with the ends attached to them, the script's own dictionaries), `NetworkScripts` and `MemoryScripts` the functions that
make them, `ScriptFiles` the variants of these functions in each file. **`BuildScript`** executes a script one call per action
(`NewComponent`, `AddLink`, `AddNextLink`, `CreateLink`, `Connect`, `ConnectNext`), so that its properties are about what is there when the
script ends. **`ScriptWalks`** runs the network functions as operators and joins their wiring with the answers of
the topology classes, for `RouteWalk`.

Details that the properties depend on are kept: `merlin_mesh` counts five ports a router from the front; a link that is
found by name takes its second end; addresses are in blocks of 64 bytes, and ranges end where the code ends them (the last
stripe of an uneven division belongs to no memory). The torus functions count a local port up twice per endpoint; no script calls
them with two.

### Proofs

| Module | Proves facts about |
|---|---|
| `SeqFacts` | sequences, folds over sequences, and induction on their length |
| `MordredNoc_proofs` | flow control and allocation |
| `MordredNoc_packets` | what each action of the network does to the streams of flits; wormhole switching; where the flits of a packet are; the order of flows; the refinement of `PacketService` |
| `NicEndpoint_proofs` | `NicEndpoint` |
| `InitPhases_proofs` | `InitPhases`, and its refinement of `UntimedBroadcast` |
| `UntimedBroadcast_proofs` | `UntimedBroadcast`, for any network whose floods are trees |
| `Topologies_proofs` | the tables of meshes and tori of every size, in `RouteWalk`, `VcDependency` and `UntimedBroadcast` |
| `BuildScript_proofs` | the scripts of `NetworkScripts` that lay out meshes and tori, of every size |

`MordredNoc_packets` extends `MordredNoc_proofs`.

### Instances

Modules `MC*` instantiate these for TLC. Operators commented `Faulty:` are not part of the models: each is the plausible
wrong version of the definition that follows it, and shows that some property notices the difference.

## 3. What is checked

Sizes are numbers of distinct states.

### The network under contention

| Run | Instance | Question |
|---|---|---|
| `MCStar` (912,016) | one router, three NICs, 2 VNs × 1 VC; packets of 3, 2 and 2 flits for one output on VN 0, two of them of one flow, and one of 2 flits on VN 1 from their NIC to that of the third | flow control, ownership, wormhole switching, order of a flow |
| `MCLine` (54,036) | two routers, 1 VN × 2 VCs; two NICs of one router send a 2-flit packet each to one NIC of the other | competition for the crossbar, overtaking between routers, serialized again for the NIC's VC 0; delivery |

*Bounds.* Router buffers hold one flit, the tightest size at which the code can run: every flit waits for a credit, packets are
longer than every buffer they cross, and a packet stretches over several ports. Three packets are what it takes for two to
compete for an output while one of them is followed by another on its input; the fourth, on the other
VN, goes to the NIC of the third, which owes credits while it has something to send itself. NIC output buffers hold the largest packet, which `send()`
demands. Larger sizes repeat these situations, and the theorems of section 5 cover them for everything but liveness.

What holds: `CreditConservation`, `BuffersBounded`, `OutputSpaceExact` (flow control); `VcOwnership`, `CrossbarMatching`,
`RequestsCurrent` (allocation); `NoFatal`; `NoInterleaving`, `PacketsIntact` (wormhole switching, nothing lost or
duplicated); `FlowOrder` with a single VC; `ServiceImplemented` (every step is a step of `PacketService`, or none; its order of flows only says
something with a single VC, for which `FlowOrder` is proved); and `EventuallyDelivered`.

### Routing, virtual channels and broadcast

| Run | Instance | Question |
|---|---|---|
| `MCRoute` (19,826) | 3×3 mesh with two endpoints per router; 5×4 torus; 3×2×4 torus; butterfly with k = 3, n = 3; three 2×2 meshes joined pairwise and in a row, as in `tests/mesh2x2_*_gateway_untimed_broadcast.py`; and as the scripts wire them: 3×3 and 5×3 meshes, 3×3, 8×5 and 5×5×1 tori, butterflies with k = 4, n = 2 and k = 2, n = 4 | `ArrivesAtDest`, `ShortestRoute`, from every router to every endpoint |
| `MCUntimed` (131,001) | 3×2 mesh with two senders of broadcasts and unicasts; 4×3 and 3×2×2 tori with one broadcast; the two gateway networks with one or two | `HeardAtMostOnce`, `EveryoneHears` |
| `MCDependency` (3,120) | side by side: 4×3 mesh, the 3×3×3 torus of `tests/torus3D_3x3x3_2vc_testnic.py`, butterfly with k = 2, n = 4; 2 VCs | `AcyclicDependencies`, crossbar connections included: no set of packets can stop one another |

Sizes are chosen so that every branch of the routing functions is taken: rings of odd and of even length (where both ways
can be equally long), rings of two, routers at corners, edges and inside, domains whose base is not 0, and domains
reached through another one. The torus of `MCDependency` is free of deadlock because in a ring of three no packet takes two
hops; in larger rings the connections alone close a circle, whatever the VC policy.

### Init and complete

`MCInit` (23,648): two routers with a port to each other and one NIC each, 2 VNs × 2 VCs; one endpoint broadcasts, the other
is silent, answers, or broadcasts and answers. `TypeOK`, `NeverFatal` (no phase reads what is not there), `NeighboursKnown`,
`CreditsGranted`, `UntimedImplemented` (every step is a step of `UntimedBroadcast`) and `EveryoneHears`. Two routers have every kind
of link end; floods over longer ways are the subject of `MCUntimed`.

### The simulation scripts

`MCScripts` (5,062): 44 scripts, each function with the sizes its script calls it with. `LinksPaired` (two ends a
link), `PortsWired` (one link a port, and ports within the router), `NoDoubleLinks`, `PeersCovered` (endpoint numbers are a permutation),
`AllConnected`; for the memory systems `NetworksAgree` (every interface is on the network it is for, and a node has the same on all four), `OneHome` (no block has two
directories or two memories), `HomeBelowLastStripe` (every block below the last stripe has one), `DirectoryOneMemory`.
The four copies of each line that the memory scripts have, one for each network, are four lines of the model too, so that a slip in one can
be told. Memories hold millions of blocks, in a pattern that repeats: `Margin` blocks are looked at from each end.

### The NIC and its endpoint

`MCNicTwoVns` (133,061): every workload of three packets of 2 or 4 flits on two VNs, and every workload of two packets that are sent
unasked or answer the first or second of two requests, with an endpoint that is notified or looks itself; an output
buffer of 5 flits, a router buffer of 2 flits and an input buffer of 1. It checks `TypeOK`, `SpaceExact`, `CreditsExact`, `NeverSleepsForever`,
`CreditsComeBack` (credits owed on either VN are returned, although only a tick that sends nothing does so and the lower VN comes first; true
because the traffic is finite) and `StampExactOnOneVn`. The output buffer is one flit larger
than the largest packet: with equal sizes the notification of the last TAIL comes before its space is
given back (`MordredNicBase.cc:300`), finds too little space, and there is no later one. In this run
the endpoint stops when it has sent everything, so deadlock is not an error.

### Disagreements between the code and what is said of it

Each of these runs ends in a counterexample; `PROJECT.json` quotes the sentence that is contradicted.

| Run | What TLC shows |
|---|---|
| `MCVcTorus` | 5×5 torus, 2 VCs: packets on the *top* VC of a ring can wait for each other all the way round. Packets may take VC 1 anywhere, not only past a wrap-around link, and crossing it leaves them on VC 1. `VcAllocRR.cc:82-88` says the dependencies are acyclic. (`Torus3DTopo` does not report its wrap-around links at all: it lacks the override of `Torus2dTopo.h:76`.) |
| `MCUntimedLongTriangle` | A domain does not record the origin of its own broadcasts: in a cycle of domains whose first domain has its gateways apart, the broadcast comes home and is flooded again. |
| `MCUntimedTwice` | The dedup is keyed by source address alone and never cleared: the second broadcast of an endpoint never enters another domain. |
| `MCNicStamps` | With two VNs one stamp serves interleaved packets: a TAIL reports another packet's HEAD, or no cycle at all. |

## 4. Fairness

* **Network** (`FairSpec`): weak fairness of router steps, port steps, NIC steps and link steps, each as a whole. The code gives
  more: every clock handler runs every cycle and every loop visits every port, and SST links deliver. The weaker
  assumption suffices here because the traffic is finite, so each class of steps must exhaust what it can do. It asks one thing of round-robin:
  that no candidate is skipped forever. `VcAllocRR` advances its two pointers together (`VcAllocRR.cc:59`), so they
  visit every pair (VN, VC) only if the two counts have no common divisor; in the runs with liveness one of the
  two counts is 1. What can happen otherwise is listed as a hazard and not modelled.
* **`RouteWalk`**, **`UntimedBroadcast`**: weak fairness of `Next`: a routed packet moves on, and the init loop of SST
  runs phases until nothing is sent in one.
* **`InitPhases`**: weak fairness of `Next`: SST calls every component in every phase, and an endpoint says what it has to say.
* **`NicEndpoint`**: weak fairness of the clock, of the router returning credits and sending flits, and of an awake endpoint
  sending and receiving (its own clock handler).

## 5. What is proved

### Flow control and allocation

`MordredNoc_proofs` proves, for every set of routers, ports, NICs and packets, any wiring, routing function, buffer
sizes and VC policy input that satisfy the assumptions of `NocParams` (links are symmetric and lead NICs to ports; the
topology answers with a port of the same router; sizes are natural numbers; packets have at least a HEAD and a TAIL):

| Theorem | Property |
|---|---|
| `TypeCorrect` | `TypeOK`: no counter is ever negative |
| `OwnershipCorrect` | `VcOwnership`: an output VC has one owner and both records say so |
| `MatchingCorrect` | `CrossbarMatching` |
| `RequestsCorrect` | `RequestsCurrent`: no request is lost or stale |
| `CreditsCorrect` | `CreditConservation`, for every stream of every link |
| `OutputSpaceCorrect` | `OutputSpaceExact` |
| `BuffersNeverOverrun` | `BuffersBounded` |

None of the allocation properties is inductive alone. That a TAIL frees the right output VC needs the crossbar records to agree with
the grants; that a grant does not steal an output needs requests to be current; that requests are current needs ownership.
`AllocInv == TypeOK /\ RequestsCurrent /\ CrossbarMatching /\ VcOwnership` is inductive, and is
proved action by action (`VcGrantAllocInv`, `SwitchGrantAllocInv`, `CrossbarTransferAllocInv`, `ClockTickAllocInv`, ...).

On top of it, `CreditInv == CreditConservation /\ OutputSpaceExact` is inductive. `ConservationStep` reduces each action to what it
does at the two ends of one stream: an action that touches unit `u` changes the sum of `u` and of
`Far(u)`, and leaves all others as they are. `UnusedStream` shows that the streams with no credits (VCs above 0 towards a
NIC) stay empty, which is why the handlers of a NIC need not look at the VC. `CreditsBoundBuffers` then derives `BuffersBounded`:
terms of a sum that equals the buffer size, none negative, are at most that size.

### Packets

| Theorem of `MordredNoc_packets` | Property |
|---|---|
| `WormholesIntact` | `NoInterleaving`: on every stream whole packets follow one another |
| `NeverFatal` | `NoFatal`: none of the `fatal` checks that the modules model is reached |
| `PacketsDelivered` | `PacketsIntact`: each flit of a packet is in one place until its NIC takes it; a request is handed over once, where it belongs |
| `FlowsStayInOrder` | `FlowOrder`: with one VC, a flow arrives in the order it was sent |
| `NetworkIsService` | `ServiceImplemented`: the network implements `PacketService` |

*Four kinds of steps.* `MordredNoc_packets` first leaves the buffers behind. A stream is what is in the output buffer, on the link and in the input
buffer at the far end, in that order. Whatever an action does, the streams stay as they are, or one flit moves from the front of one to the end
of another, or a NIC takes the front of one, or a packet is put at the end of one. Everything after that reasons about these
four cases (`Kept`, `Moved`, `Dropped`, `Added`) only.

*A past that is no part of the state.* Whether the packet at an input is in one piece depends on flits that have left it already, of which the code keeps
no record but its control state. So the invariant says that there *is* a past, `\E passed \in Past : WormInv(passed)`: a sequence
of flits for each stream, such that past and present together are whole packets, the last perhaps incomplete, and such that
the control state fits (an input that is not `IN_ACTIVE` has let whole packets pass; the output VC it was granted has taken
every flit of its packet that has left it; an output VC without an owner ended with a TAIL). This is a history variable that only the proof knows.
`DeliveryInv` adds, in the same way, how many flits of each packet have been taken (`gone`), and `OrderInv` that wherever a flit was put on a stream,
the TAILs of all packets sent before it in its flow had been put there already. The refinement needs all of them: `HandOver` says
that the packet was accepted, was not handed over yet, and comes in turn. Before they were proved TLC checked these invariants on the
instances of section 3, with `passed` and `gone` as variables.

*One more assumption.* That a packet ends at the NIC it is for, and that no request of another packet gets in, needs that a topology answers a
local port only for the endpoint behind it: `LastHopAssumption`. It is a property of the five topologies: `ArrivesAtDest`, checked by `MCRoute` from *every* router to every
endpoint, would fail if one of them handed a packet to the wrong NIC, and `GridNetworks` proves it of meshes and tori (it is a
part of `WellFormed`). It is stated in `MordredNoc`, and not with the
others in `NocParams`, because `VcDependency` puts several networks side by side, where a router is never asked for a NIC of another
network but the table has to answer something.

### The NIC

| Theorem of `NicEndpoint_proofs` | Property |
|---|---|
| `TypeCorrect` | `TypeOK`: no counter is ever negative, however the endpoint calls back |
| `SpaceCorrect` | `SpaceExact` |
| `CreditsCorrect` | `CreditsExact` |
| `StampsCorrect` | `StampExactOnOneVn`: with one virtual network in use, a TAIL carries the cycle of its own HEAD |

They hold for any number of virtual networks, any sizes and any workload of packets of at least two flits (`WorkloadAssumption`; `calcNumFlits`, `MordredNicBase.cc:426`,
never says less). What the endpoint does from inside a loop is an operator on the state of the NIC as a record, so the lemmas
are about these operators: each keeps `Sound` (typed; every output buffer holds the rest of one packet and then whole packets; the
stamps belong to them). The loop over the virtual networks in a tick is a function on `0 .. NumVns`, for which the same is
shown by induction on the number of iterations. The stamps alone are not inductive: that a
TAIL finds the stamp of its own HEAD needs to know, from the shape of the queues, that nothing of another packet lies between them.

### The start

| Theorem of `InitPhases_proofs` | Property |
|---|---|
| `TypeCorrect` | `TypeOK` |
| `StartNeverFatal` | `NeverFatal`: nobody reads a message it does not expect, in whatever order components are called |
| `NeighboursMeet` | `NeighboursKnown` |
| `CreditsAllGranted` | `CreditsGranted`: every sender holds the credits of its stream, all of them and once |
| `UntimedDataImplemented` | `UntimedImplemented`: the phases implement `UntimedBroadcast` |

The invariant says what is known and under way in each phase: `Heeded` (what each queue holds, as a function of the phase and of who has been
called), `Learned` (what each component knows by then), `Counted` (the credits a sender holds, and those on the way to it, add up to
`LinkCredits` from the turn of the other end in phase 3 on), `Settled` (no untimed data is received before phase 4, and `init` ends only when
everything has arrived). Credits mix with untimed data in the queues, so the facts about what a queue is worth, and about the messages in it, are by induction on
its length. `CreditsAllGranted` is what `MordredNoc` assumes of its initial state.

For the refinement each action is matched with what `UntimedBroadcast` does: `SendUntimedData`, `Relay` and `NextPhase` with the action of that name,
where the messages are those left of a queue when the rest is dropped; reports, grants and the draining of queues with nothing at all.

Two assumptions are new. `EndpointAssumption`: there is a NIC. In a network without one nothing is sent in phase 1, `init`
ends there, and no port is ever given credits; nobody would send anything either. `RouterIdAssumption`: the value for "not connected" (`UINT32_MAX`) is no router's id, because
`MordredRouter.cc:29` refuses to build such a router, nor is it the mark of an endpoint, which is one less.

### Untimed broadcasts

`UntimedBroadcast_proofs` proves `FloodsHeardOnce`: in every network that meets `WellFormed`, and for every plan of who sends what,
`FloodsAreTrees(wired) => HeardAtMostOnce` is an invariant. `FloodTree` is the assumption on the flood tables. There is a set of
link ends a broadcast may enter; every end is entered from one port only, the first one from none, and the sender from none.
It speaks of the tables alone, and not of phases, queues, or the order in which ports are handled.

The invariant, `Placement`, needs a past as well: `relayed`, the ports at which a broadcast was relayed already. `Flooded` says that
a broadcast is at a link end at most once, not at one where it was relayed, and only at ends that it `Entered`, from its NIC or from a port
where it was relayed. That an end is entered from one port only then keeps a second copy away. `Routed` says that a message for one NIC is at one
end. `At(m, e)` counts what has arrived at an end together with what departs for it, so that `NextPhase` changes nothing.

Floods over several domains are not trees (the same broadcast reaches a domain by several gateways, and only the recorded origins stop it),
so for these `HeardAtMostOnce` stays with TLC, and for some of them it is false: `MCUntimedLongTriangle`.

### Topologies

`Topologies_proofs` is about the tables that `Topologies` makes of the code of `MeshTopology`, `Torus2dTopo` and `Torus3dTopo`, wired as
`tests/` wires them, with every size at least 1 and any number of endpoints on each router:

| Theorem | Says |
|---|---|
| `MeshShortest`, `TorusShortest`, `Torus3DShortest` | `ShortestRoute`: a packet is handed to the endpoint it is for and no other, over as few links as any route could take; rings of one or two routers included |
| `MeshAcyclic` | `AcyclicDependencies` of a mesh, crossbar connections included, with any number of VCs |
| `SmallTorusAcyclic` | the same of tori with no ring longer than three (`MCVcTorus` shows what happens in a ring of five) |
| `GridHeardOnce` | `HeardAtMostOnce` in a mesh or torus |
| `GridNetworks` | their tables meet the assumptions of `NocParams`, `MordredNoc` and `UntimedBroadcast`, so that what is proved of any network holds for them |

What the three have in common is `Regular`. It says what the tables are: ports of a router, a link from each to a port that leads back,
a route that takes a local port only at the router of the endpoint, and there the right one. Coordinates are quotients and remainders; what is
known of those is stated once (`QuotientUnique`, `ColRow`, `CellOf`, `Places`, `PlaceOf`).

*Shortest routes.* `Distance(dist)`: any link changes the distance to the goal by at most one, and the link that the routing takes
makes it less. Then `Nearest`, no router that some route of the same length reaches is nearer, is
inductive, and `ShortestRoute` follows: whoever could be at the goal already is not nearer than the packet is. What is left is a distance
for each topology. In a torus it is the sum of the shorter ways round each ring, and that `HopsUp` and `HopsDown` are
compared as the code does is where the rings of even length matter.

*Deadlock.* A rank of links that gets less with every wait (`Ranked`): in a mesh rows come before columns and a packet nears the end of
its line; in a small torus it changes dimension with every link, because no packet takes two links in a ring of three. VCs do not matter.

*Floods.* `Enters` tells at which port each router gets the broadcast of an endpoint: along one dimension first, from there along the
next. That the port is unique is the tree.

### The simulation scripts

`BuildScript_proofs` is about `BuildScript` when the script is one call of `Mesh`, `Torus` or `BareTorus`, for *every* size of the grid, number of
endpoints at a router and variant of the function (`MCScripts` runs the sizes the files use, and some smaller ones):

| Theorem | Property | Scripts |
|---|---|---|
| `GridLinksPaired` | `LinksPaired` | meshes; tori of at least two routers; bare tori without a ring of one |
| `GridPortsWired` | `PortsWired` | the same, a torus with at most one endpoint at a router |
| `GridSingleLinks` | `NoDoubleLinks` | the same as for `LinksPaired`, without a ring of two routers |
| `GridPeersCovered` | `PeersCovered` | the same as for `LinksPaired` |
| `GridConnected` | `AllConnected` | the same as for `LinksPaired`, with at least one router |

The conditions are those under which the code is right. In a torus of one router both trunks have the name of the router twice, so one link gets
four ends; in a bare torus a ring of one makes two calls that differ in nothing. A ring of two routers is two links between the same two. With
two endpoints at a router the torus functions leave out every other port and end past the last
(hazard at `torus-7oct25/OneVC/offered_load.py:209`).

*What a script is.* `Makes(s, T, R)`: `s` makes the calls of the set `T`, each once, and links nothing that is not in `R` before it has made it. There
is one lemma for each way the functions put calls together: one call, one after the other, `When`, loops (`MakesOne`, `MakesConcat`, `MakesWhen`,
`MakesAll`, by induction on the rounds). The order of calls then no longer matters.

*What sst has made.* The invariant `DrawnInv` says that while a script made of such calls runs there is a bijection, `maker`, between the ends of links
and the link calls executed: each end belongs to the link its call named, at the component its call named, at the port the call named or
at one below the next free port of that component, other than those of all other such calls. `AlwaysDrawn` proves it for every script of these kinds of calls,
not only for grids. What remains are conditions on sets of calls: `Paired` (each link call has one other with the same link), `OncePerPort`, `PortsFit`,
`SingleTrunks`, `PeersFit`, `InOnePiece`. `PairsOfEnds`, `PortsOfEnds`, `TrunksOfEnds` and `PeersOfCalls` derive four of the properties from them, the properties that
compare cardinalities by an injection (`CountImage`, `CountWithin`).

*Networks in one piece.* `AllConnected` adds neighbours to a set of components until none is new, by a function that `CHOOSE` picks. `CanRepeat` shows
that there is such a function (the smallest set that is closed, for each set to start from), and `RepeatsToEnd`, by induction on the number of components
left, that any such function ends at a set nothing can be added to. Then it is enough that no other set than none and all is closed under the links:
`InOnePiece` says so of the calls, `PieceOfCalls` derives `AllConnected`. For a fabric it follows from its trunks
alone (`Spanned`), and in a grid from going along one row and then along each column (`LineFilled`, `GridFilled`, `GridSpanned`); closing rows and columns to
rings adds trunks and takes none away.

*What a grid is.* `Fabric`: routers with trunks and endpoints, where each trunk is seen from its two ends. `Woven` is a fabric in which
the name of a trunk says where it starts and where it ends, as in all scripts of the repository; that two trunks have one name only if they are the two
ends of one is shown for these. `IsGrid` fills in the names, neighbours, endpoint numbers and parameters of a grid. `MeshLaidOut`, `TorusLaidOut` and `BareLaidOut` show that
the functions make exactly the calls of such a fabric.

### What is only model-checked

* *Liveness*: `EventuallyDelivered`, `EveryoneHears`, `ArrivesAtDest`, `NeverSleepsForever`, `CreditsComeBack`. The prover does not reason about fairness or `ENABLED`.
* `ShortestRoute` and `AcyclicDependencies` of butterflies, whose routers are numbered by the digits of powers of `k`: the tables are
  built with exponents, which the prover has no theory of. `ShortestRoute` between domains, where the next domain is found by a search in
  the layout. `AcyclicDependencies` is not true of larger tori.
* `HeardAtMostOnce` across domains.
* Of the scripts: butterflies (numbered by digits), the crossbar, the single router and the three-dimensional torus. The properties of the memory systems (`NetworksAgree`, `OneHome`,
  `HomeBelowLastStripe`, `DirectoryOneMemory`) are about chips whose parameters are fixed in the files.

Induction is possible where it can be phrased as a fact about a *set* of numbers: `SetInduction` and `SeqInduction` of `SeqFacts`
derive it from the well-foundedness of `<`. The theorems of the library that take a predicate as parameter, and everything defined with
`RECURSIVE`, are beyond the prover; the modules above use recursive functions and folds instead.

## 6. What is not modelled

* `RtrPortControlPC` and `MordredNicPC`: packets coalesced into one transfer over a physical channel. The channel,
  its credits and its notifications are in another library, so what these classes may rely on cannot be read from this repository.
* Serialization: used only when a simulation is split over ranks or checkpointed. Two omissions, `inReturnCredits` of
  a NIC (`MordredNicBase.cc:431`) and the value of a `MordredInitEvent` (`MordredEvents.h:138`), are listed as one hazard.
* Round-robin pointers, and the order of clock handlers.
* Statistics, output, parameter parsing, arithmetic of sizes (`calcNumFlits`, the cast of buffer sizes), the traffic of the test endpoint.
* Of the scripts: latencies, buffer sizes, caches and traffic patterns; `mhlib.py`, which no script uses to build anything;
  scripts that hold only parameters; recorded data.
* Endless traffic: delivery is checked for finitely many packets. A NIC that never stops sending never
  returns credits (`MordredNicBase.cc:325`); that part of the hazard no property covers.
* Of the memory systems: the arrays of the cores (72 cores on a layout for 36 threads, `testMemoryCache.py:343`).

## 7. What remains

1. Proofs: the scripts that use `create_link` and `connect`, for which `DrawnInv` needs calls that make two ends; the relation between `NicEndpoint` and the NIC of `MordredNoc`, as a refinement.
2. `RoundRobin`: the pointers of the allocators and ports, in the order of the tick; pointers in step with 2 VNs × 2 VCs.
3. The feed of one flit per tick from a physical channel, if the assumptions about the channel are written down.
