---------------------------- MODULE MemoryScripts ----------------------------
(***************************************************************************)
(* The simulation scripts of memory systems.  Two place the tiles,         *)
(* directories and memories of a chip at the nodes of a mesh of four       *)
(* networks, for requests, acknowledgements, forwarded requests and data;  *)
(* the third joins two networks by bridges through a third.                *)
(*                                                                         *)
(* Addresses are counted in blocks of 64 bytes.  What a directory or       *)
(* memory is told of them is a region: the blocks start, start + step, ... *)
(* up to last, the last block that is wholly below addr_range_end.         *)
(***************************************************************************)
EXTENDS NetworkScripts

Krtr(network, i) == <<"krtr", network, i>>

region(start, last, step) == [start |-> start, last |-> last, step |-> step]

\* Faulty: the interfaces are returned in the order they were made in.
interfacesAsMade(c) ==
  << <<c, <<"data", 0>>>>, <<c, <<"req", 0>>>>, <<c, <<"fwd", 0>>>>, <<c, <<"ack", 0>>>> >>

\* What the builders return: the four interfaces of c, which the caller tells apart by
\* their order.
interfaces(c) ==
  << <<c, <<"req", 0>>>>, <<c, <<"ack", 0>>>>, <<c, <<"fwd", 0>>>>, <<c, <<"data", 0>>>> >>

\* c, when it has been built, on port p of the routers of node i.
Attached(c, p, i) ==
  LET nic == interfaces(c)
      req == nic[1]   ack == nic[2]   fwd == nic[3]   data == nic[4]
  IN  << connect(<<"krtr_req", p, i>>, <<Krtr("req", i), p>>, req),
         connect(<<"krtr_ack", p, i>>, <<Krtr("ack", i), p>>, ack),
         connect(<<"krtr_fwd", p, i>>, <<Krtr("fwd", i), p>>, fwd),
         connect(<<"kRtr_data", p, i>>, <<Krtr("data", i), p>>, data) >>

\* The four routers of each node.
Routers(x_size, y_size) ==
  LET mesh(network, i) == Component(Krtr(network, i), [kind |-> "router", local_ports |-> 2])
      Node(x, y) == LET i == y * x_size + x
                    IN  << mesh("req", i), mesh("ack", i), mesh("fwd", i), mesh("data", i) >>
  IN  ForGrid(x_size, y_size, Node)

\* The links, in each network, from port p of node i to port q of node j.
StopLinks(p, q, i, j, dir) ==
  << connect(<<"krtr_req", dir, i>>, <<Krtr("req", i), p>>, <<Krtr("req", j), q>>),
     connect(<<"krtr_ack", dir, i>>, <<Krtr("ack", i), p>>, <<Krtr("ack", j), q>>),
     connect(<<"krtr_fwd", dir, i>>, <<Krtr("fwd", i), p>>, <<Krtr("fwd", j), q>>),
     connect(<<"krtr_data", dir, i>>, <<Krtr("data", i), p>>, <<Krtr("data", j), q>>) >>

north == <<"north", 0>>
east  == <<"east", 0>>
south == <<"south", 0>>
west  == <<"west", 0>>
local0 == <<"local", 0>>
local1 == <<"local", 1>>
ns == <<"ns", 0>>
ew == <<"ew", 0>>

\* The links from node (x, y) to the nodes south and east of it, and the calls that
\* place[i] makes for what is at the node: i is its number.
Stops(x_size, y_size, place) ==
  LET Node(x, y) ==
        LET i == y * x_size + x
        IN  When(y # y_size - 1, StopLinks(south, north, i, i + x_size, ns))
            \o When(x # x_size - 1, StopLinks(east, west, i, i + 1, ew))
            \o place[i]
  IN  ForGrid(x_size, y_size, Node)

-----------------------------------------------------------------------------
\* A core, which is called thread in one of the scripts.
core(kind, id) == Component(<<kind, id>>, [kind |-> "core"])

\* The level 2 cache and its bus.
TileL2(tile) ==
  << Component(<<"l2cache", tile>>, [kind |-> "cache"]),
     Component(<<"l2cachebus", tile>>, [kind |-> "bus"]),
     connect(<<"l2bus_link", tile>>, <<<<"l2cachebus", tile>>, <<"lowlink", 0>>>>,
             <<<<"l2cache", tile>>, <<"highlink", 0>>>>) >>

L1ToBus(c, tile, side) ==
  connect(<<"l1cache_link", c>>, <<<<"l2cachebus", tile>>, <<"highlink", side>>>>,
          <<<<"l1cache", c>>, <<"lowlink", 0>>>>)

-----------------------------------------------------------------------------
(***************************************************************************)
(* testKingsley.py: nine nodes, four memories, eight directories, 18 cores *)
(* of two threads.                                                         *)
(***************************************************************************)
KingsleyCapacity == 67108864   \* 4 GB

KingsleyDDR(id) ==
  Component(<<"ddr", id>>,
    [kind |-> "memory", region |-> region(id, KingsleyCapacity - id - 1, 4), id |-> id])

memId(nodeID) ==
  CASE nodeID \in {1, 2} -> 0
    [] nodeID \in {3, 6} -> 1
    [] nodeID \in {4, 7} -> 2
    [] nodeID \in {5, 8} -> 3

\* The first block of the directory at a node: the directories of a memory take every
\* second of its blocks.  Faulty: they take the same; they take it by turns of two.
myStartShared(nodeID) == memId(nodeID)
myStartNext(nodeID)   == 2 * memId(nodeID) + (nodeID % 2)

myStart(nodeID) == memId(nodeID) + 4 * (nodeID % 2)

KingsleyDC(id, nodeID) ==
  Component(<<"ddr_dc", id>>,
    [kind |-> "directory", memory |-> memId(nodeID),
     region |-> region(myStart(nodeID), KingsleyCapacity - 8 + memId(nodeID) + 4 * (nodeID % 2), 8)])

\* A core of two threads behind a shim.
KingsleyCore(c, tile, side) ==
  << Component(<<"l1cache", c>>, [kind |-> "cache"]),
     Component(<<"smt", c>>, [kind |-> "smt"]),
     core("thread", c),
     core("thread", c + 18),
     connect(<<"smt_cpu", c>>, <<<<"thread", c>>, <<"cache_link", 0>>>>,
             <<<<"smt", c>>, <<"thread", 0>>>>),
     connect(<<"smt_cpu", c + 18>>, <<<<"thread", c + 18>>, <<"cache_link", 0>>>>,
             <<<<"smt", c>>, <<"thread", 1>>>>),
     connect(<<"l1cache_smt", c>>, <<<<"smt", c>>, <<"cache", 0>>>>,
             <<<<"l1cache", c>>, <<"highlink", 0>>>>),
     L1ToBus(c, tile, side) >>

KingsleyTile(tile) ==
  TileL2(tile) \o KingsleyCore(2 * tile, tile, 0) \o KingsleyCore(2 * tile + 1, tile, 1)

\* Nodes 1, 3, 5 and 7 have a memory each; every node has a tile, all but node 0 a
\* directory.
KingsleyNode(i) ==
  LET side == CASE i = 1 -> north [] i = 3 -> west [] i = 5 -> east [] i = 7 -> south
      ddr  == i \div 2
  IN  When(i % 2 = 1, << KingsleyDDR(ddr) >> \o Attached(<<"ddr", ddr>>, side, i))
      \o KingsleyTile(i) \o Attached(<<"l2cache", i>>, local0, i)
      \o When(i # 0, << KingsleyDC(i - 1, i) >> \o Attached(<<"ddr_dc", i - 1>>, local1, i))

testKingsley == Routers(3, 3) \o Stops(3, 3, [i \in 0 .. 8 |-> KingsleyNode(i)])

-----------------------------------------------------------------------------
(***************************************************************************)
(* testMemoryCache.py: 36 nodes with a tile and a directory each, eight    *)
(* high-bandwidth memories that cache six others.                          *)
(***************************************************************************)
MemoryCacheCapacity == 805306368   \* 48 GB

\* Faulty: the memories are numbered from 1.
MemoryCacheDDRFromOne(id) ==
  Component(<<"ddr", id>>,
    [kind |-> "memory", region |-> region(id + 1, MemoryCacheCapacity - id - 2, 6), id |-> id])

MemoryCacheDDR(id) ==
  Component(<<"ddr", id>>,
    [kind |-> "memory", region |-> region(id, MemoryCacheCapacity - id - 1, 6), id |-> id])

MemoryCacheDC(id) ==
  Component(<<"dc", id>>,
    [kind |-> "directory", region |-> region(id, MemoryCacheCapacity - 36 + id, 36)])

MemoryCacheHBM(id) ==
  Component(<<"hbm", id>>, [kind |-> "memory cache", num_caches |-> 8, cache_num |-> id])

MemoryCacheCore(c, tile, side) ==
  << Component(<<"l1cache", c>>, [kind |-> "cache"]),
     L1ToBus(c, tile, side),
     core("core", c),
     connect(<<"core_link", c>>, <<<<"core", c>>, <<"cache_link", 0>>>>,
             <<<<"l1cache", c>>, <<"highlink", 0>>>>) >>

MemoryCacheTile(tile) ==
  TileL2(tile) \o MemoryCacheCore(2 * tile, tile, 0) \o MemoryCacheCore(2 * tile + 1, tile, 1)

\* The nodes with a memory of either kind, in the order of their numbers.
HbmNorth == <<0, 1, 4, 5>>
HbmSouth == <<30, 31, 34, 35>>
DdrNodes == <<6, 11, 12, 17, 18, 23>>

IndexIn(i, nodes) == (CHOOSE x \in DOMAIN nodes : nodes[x] = i) - 1

MemoryCacheNode(i) ==
  LET hbm == IndexIn(i, HbmNorth \o HbmSouth)
      ddr == IndexIn(i, DdrNodes)
  IN  When(i \in Range(HbmNorth), << MemoryCacheHBM(hbm) >> \o Attached(<<"hbm", hbm>>, north, i))
      \o When(i \in Range(HbmSouth), << MemoryCacheHBM(hbm) >> \o Attached(<<"hbm", hbm>>, south, i))
      \o When(i \in Range(DdrNodes), << MemoryCacheDDR(ddr) >>
                \o Attached(<<"ddr", ddr>>, IF i % 6 = 0 THEN west ELSE east, i))
      \o MemoryCacheTile(i) \o Attached(<<"l2cache", i>>, local0, i)
      \o << MemoryCacheDC(i) >> \o Attached(<<"dc", i>>, local1, i)

testMemoryCache == Routers(6, 6) \o Stops(6, 6, [i \in 0 .. 35 |-> MemoryCacheNode(i)])

-----------------------------------------------------------------------------
(***************************************************************************)
(* testBridge.py                                                           *)
(***************************************************************************)
BridgeCapacity == 4096   \* 256 KB

Network(name) == << Component(<<"rtr", name>>, [kind |-> "router", num_ports |-> 0]) >>

buildCPU(num, network) ==
  << Component(<<"cpu", num>>, [kind |-> "cpu"]),
     Component(<<"l1", num>>, [kind |-> "cache"]),
     connect(<<"cpu_cache", num>>, <<<<"cpu", num>>, <<"lowlink", 0>>>>,
             <<<<"l1", num>>, <<"highlink", 0>>>>),
     connectNext(<<"L1_net", num>>, <<<<"l1", num>>, <<"port", 0>>>>, network) >>

buildMem(num, network) ==
  LET share == BridgeCapacity \div 2
      mine  == region(num * share, (num + 1) * share - 1, 1)
  IN  << Component(<<"mem", num>>, [kind |-> "memory", region |-> mine, id |-> num]),
         Component(<<"dc", num>>, [kind |-> "directory", memory |-> num, region |-> mine]),
         connect(<<"MemDir", num>>, <<<<"dc", num>>, <<"lowlink", 0>>>>,
                 <<<<"mem", num>>, <<"highlink", 0>>>>),
         connectNext(<<"DCNet", num>>, <<<<"dc", num>>, <<"port", 0>>>>, network) >>

bridge(net0, net1) ==
  LET name == <<"Bridge", net0, net1>>
  IN  << Component(name, [kind |-> "bridge"]),
         connectNext(<<"B0", net0, net1>>, <<name, <<"network", 0>>>>, net0),
         connectNext(<<"B1", net0, net1>>, <<name, <<"network", 1>>>>, net1) >>

testBridge ==
  LET net0 == <<"rtr", "CPU_Net">>
      net1 == <<"rtr", "MEM_Net">>
      net2 == <<"rtr", "Middle_Net">>
  IN  Network("CPU_Net") \o buildCPU(0, net0) \o buildCPU(1, net0)
      \o Network("MEM_Net") \o buildMem(0, net1) \o buildMem(1, net1)
      \o Network("Middle_Net") \o bridge(net0, net2) \o bridge(net1, net2)
=============================================================================
