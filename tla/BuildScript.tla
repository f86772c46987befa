---------------------------- MODULE BuildScript ----------------------------
(***************************************************************************)
(* sst runs a simulation script, call by call.                             *)
(***************************************************************************)
EXTENDS SstConfig, FiniteSets

CONSTANTS
  Scripts,   \* Scripts[s] is the sequence of calls of script s
  Capacity,  \* Capacity[s] is the memory of its system in blocks, 0 if it has none
  Margin     \* blocks looked at from either end of the memory

VARIABLES
  script,  \* the script
  pc,      \* calls executed so far
  net      \* the configuration graph

vars == <<script, pc, net>>

Calls == Scripts[script]
Done  == pc = Len(Calls)
Call(c) == ~Done /\ Calls[pc + 1].call = c

Init == script \in DOMAIN Scripts /\ pc = 0 /\ net = Empty

Execute == net' = Executed(net, Calls[pc + 1]) /\ pc' = pc + 1 /\ UNCHANGED script

NewComponent == Call("Component") /\ Execute
AddLink      == Call("addLink") /\ Execute
AddNextLink  == Call("addNextLink") /\ Execute
CreateLink   == Call("create_link") /\ Execute
Connect      == Call("connect") /\ Execute
ConnectNext  == Call("connectNext") /\ Execute

Next == NewComponent \/ AddLink \/ AddNextLink \/ CreateLink \/ Connect \/ ConnectNext

Spec == Init /\ [][Next]_vars

-----------------------------------------------------------------------------
Components     == DOMAIN net.params
OfKind(kind)   == {c \in Components : net.params[c].kind = kind}
Links          == DOMAIN net.links
LinkEnds       == UNION {{<<l, i>> : i \in 1 .. Len(net.links[l])} : l \in Links}
EndAt(x)       == net.links[x[1]][x[2]]
Joins(l)       == {net.links[l][i][1] : i \in 1 .. Len(net.links[l])}
Has(c, param)  == param \in DOMAIN net.params[c]

\* A link has two ends: the scripts find the link by its name when they come to the
\* second component, so no two links share a name, and none is left with one end.
LinksPaired ==
  /\ \A l \in Links : Len(net.links[l]) <= 2
  /\ Done => \A l \in Links : Len(net.links[l]) = 2

\* A port takes one link, and the ports of a router are those it was told it has.
PortsWired ==
  /\ Cardinality({EndAt(x) : x \in LinkEnds}) = Cardinality(LinkEnds)
  /\ \A x \in LinkEnds :
       LET c == EndAt(x)[1] number == EndAt(x)[2][2]
       IN  /\ c \in Components
           /\ Has(c, "num_ports") => number < net.params[c].num_ports
           /\ Has(c, "local_ports") => number < net.params[c].local_ports

\* No two routers are joined twice ("this version really likes to have double links
\* in its initial construction").
NoDoubleLinks ==
  LET routers == OfKind("router")
      trunks  == {l \in Links : Len(net.links[l]) = 2 /\ Joins(l) \subseteq routers}
  IN  Cardinality({Joins(l) : l \in trunks}) = Cardinality(trunks)

\* The endpoints are numbered from 0 without gaps where they are numbered at all, and
\* every endpoint can address them all.
PeersCovered ==
  LET eps      == {c \in OfKind("endpoint") : Has(c, "num_peers")}
      numbered == {c \in eps : Has(c, "id")}
  IN  /\ \A c \in eps : Cardinality(eps) <= net.params[c].num_peers
      /\ Cardinality({net.params[c].id : c \in numbered}) = Cardinality(numbered)
      /\ \A c \in numbered : net.params[c].id < net.params[c].num_peers
      /\ Done => \A c \in numbered : net.params[c].id < Cardinality(numbered)

\* The network is in one piece: every component can reach every other.
AllConnected ==
  Done => LET grow[S \in SUBSET Components] ==
                LET more == S \cup UNION {Joins(l) : l \in {x \in Links : Joins(x) \cap S # {}}}
                IN  IF more = S THEN S ELSE grow[more]
          IN  grow[{CHOOSE c \in Components : TRUE}] = Components

-----------------------------------------------------------------------------
Stop(end) == <<end[1][3], end[2]>>   \* node and port of an end at router <<"krtr", network, node>>

\* The four networks of a chip are apart: what is meant for one of them (an interface
\* has its name) is joined to it and to no other.  And they are the same network: what
\* has an interface to one has one to each, on the same port of the same node, and the
\* nodes are joined by the same ports.
NetworksAgree ==
  LET routers == {c \in OfKind("router") : Has(c, "local_ports")}
      ends(l) == {net.links[l][i] : i \in 1 .. Len(net.links[l])}
      at(l)   == {e \in ends(l) : e[1] \in routers}
      others(l) == ends(l) \ at(l)
      meant(l)  == {e[1][2] : e \in at(l)} \cup {e[2][1] : e \in others(l)}
      stops     == {l \in Links : at(l) # {}}
      uses(network) == {<<{Stop(e) : e \in at(l)}, {e[1] : e \in others(l)}>> :
                          l \in {x \in stops : meant(x) = {network}}}
      networks == {c[2] : c \in routers}
  IN  Done => /\ \A l \in stops : Cardinality(meant(l)) = 1
              /\ \A m, n \in networks : uses(m) = uses(n)

-----------------------------------------------------------------------------
Regions(kind) == {c \in OfKind(kind) : Has(c, "region")}
HasBlock(c, b) == LET r == net.params[c].region
                  IN  r.start <= b /\ b <= r.last /\ (b - r.start) % r.step = 0
Homes(regions, b) == {c \in regions : HasBlock(c, b)}
Blocks == {b \in (0 .. Margin) \cup (Capacity[script] - Margin .. Capacity[script]) :
             0 <= b /\ b < Capacity[script]}

\* A block has at most one directory and one memory, and at most one of the memories
\* that cache the others.
OneHome ==
  LET directories == Regions("directory")
      memories    == Regions("memory")
      caches      == OfKind("memory cache")
  IN  /\ \A b \in Blocks : /\ Cardinality(Homes(directories, b)) <= 1
                            /\ Cardinality(Homes(memories, b)) <= 1
      /\ Cardinality({net.params[c].cache_num : c \in caches}) = Cardinality(caches)

\* It has exactly one of each as long as it is not in the last stripe, in which the
\* ranges of some directories and memories end early; and there are as many caches as
\* they are told.
HomeBelowLastStripe ==
  Done =>
    LET directories == Regions("directory")
        memories    == Regions("memory")
        caches      == OfKind("memory cache")
        stripe(S)   == {net.params[c].region.step : c \in S}
    IN  /\ \A b \in Blocks :
             (\A step \in stripe(directories \cup memories) : b < Capacity[script] - step)
             => Homes(directories, b) # {} /\ Homes(memories, b) # {}
        /\ \A c \in caches : net.params[c].num_caches = Cardinality(caches)

\* The blocks of a directory are all in the memory the directory is made for ("map
\* every 4th to the same DDR").
DirectoryOneMemory ==
  LET directories == {c \in Regions("directory") : Has(c, "memory")}
      memories    == Regions("memory")
  IN  \A b \in Blocks : \A c \in Homes(directories, b), d \in Homes(memories, b) :
        net.params[d].id = net.params[c].memory
=============================================================================
