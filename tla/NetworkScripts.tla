--------------------------- MODULE NetworkScripts ---------------------------
(***************************************************************************)
(* The functions from which the simulation scripts build a network: a      *)
(* mesh, a torus, a flattened butterfly, all routers joined pairwise, or   *)
(* one router.  The scripts copy them from each other; what the copies do  *)
(* differently is a parameter v:                                           *)
(*   ids      do the endpoints get a parameter "id"                        *)
(*   peers    the endpoints the traffic generators know of beyond those    *)
(*            there are                                                    *)
(*   nicPort  the port of the network interfaces                           *)
(* Routers are named <<"rtr", x, y>>, <<"rtr", x, y, z>> or <<"rtr", i>>.  *)
(***************************************************************************)
EXTENDS SstConfig, SequencesExt

Plain    == [ids |-> FALSE, peers |-> 0, nicPort |-> "port"]
Numbered == [Plain EXCEPT !.ids = TRUE]

-----------------------------------------------------------------------------
\* for i in range(count)
For(count, Body(_)) == FlattenSeq([i \in 1 .. count |-> Body(i - 1)])

\* for y in range(y_size): for x in range(x_size)
ForGrid(x_size, y_size, Body(_, _)) ==
  LET Row(y) == LET Column(x) == Body(x, y) IN For(x_size, Column)
  IN  For(y_size, Row)

When(cond, calls) == IF cond THEN calls ELSE << >>

port(i) == <<"port", i>>

Router(name, id, num_ports, num_local_ports) ==
  Component(name, [kind |-> "router", id |-> id, num_ports |-> num_ports,
                   num_local_ports |-> num_local_ports])

\* An endpoint that knows of num_peers endpoints, on port p of a router.
Endpoint(name, id, num_peers, rtr, p, v) ==
  LET peers == num_peers + v.peers
  IN  << Component(name, IF v.ids THEN [kind |-> "endpoint", num_peers |-> peers, id |-> id]
                         ELSE [kind |-> "endpoint", num_peers |-> peers]),
         addLink(rtr, <<rtr, name>>, p),
         addLink(name, <<rtr, name>>, <<v.nicPort, 0>>) >>

-----------------------------------------------------------------------------
Rtr(x, y) == <<"rtr", x, y>>

\* Faulty: the local ports of a router are not counted among its endpoints.
ep_numOnePerRouter(x, y, k, y_size, local_ports) == x * y_size + y * local_ports + k

ep_num(x, y, k, y_size, local_ports) == x * y_size * local_ports + y * local_ports + k

\* The endpoints of router (x, y); the first is on port 4, the next step ports on.
GridEndpoints(x, y, x_size, y_size, local_ports, step, v) ==
  LET Local(k) == Endpoint(<<"ep", x, y, k>>, ep_num(x, y, k, y_size, local_ports),
                           x_size * y_size * local_ports, Rtr(x, y), port(4 + step * k), v)
  IN  For(local_ports, Local)

MeshNode(x, y, x_size, y_size, local_ports, v) ==
  << Router(Rtr(x, y), y * x_size + x, 4 + local_ports, local_ports) >>
  \o When(y # y_size - 1, << addLink(Rtr(x, y), <<Rtr(x, y), Rtr(x, y + 1)>>, port(0)) >>)
  \o When(x # x_size - 1, << addLink(Rtr(x, y), <<Rtr(x, y), Rtr(x + 1, y)>>, port(1)) >>)
  \o When(y # 0,          << addLink(Rtr(x, y), <<Rtr(x, y - 1), Rtr(x, y)>>, port(2)) >>)
  \o When(x # 0,          << addLink(Rtr(x, y), <<Rtr(x - 1, y), Rtr(x, y)>>, port(3)) >>)
  \o GridEndpoints(x, y, x_size, y_size, local_ports, 1, v)

Mesh(x_size, y_size, local_ports, v) ==
  LET Node(x, y) == MeshNode(x, y, x_size, y_size, local_ports, v)
  IN  ForGrid(x_size, y_size, Node)

\* The links of a torus at (x, y), a row or column shared with the next router.
North(x, y, y_size) == <<Rtr(x, y), Rtr(x, (y + 1) % y_size)>>
East(x, y, x_size)  == <<Rtr(x, y), Rtr((x + 1) % x_size, y)>>
South(x, y, y_size) == North(x, (y - 1) % y_size, y_size)
West(x, y, x_size)  == East((x - 1) % x_size, y, x_size)

\* The torus of the later scripts.  The loop over the local ports adds its index to
\* a port number that it counts up itself.
TorusNode(x, y, x_size, y_size, local_ports, v) ==
  << Router(Rtr(x, y), y * x_size + x, 4 + local_ports, local_ports),
     addLink(Rtr(x, y), North(x, y, y_size), port(0)),
     addLink(Rtr(x, y), East(x, y, x_size),  port(1)),
     addLink(Rtr(x, y), South(x, y, y_size), port(2)),
     addLink(Rtr(x, y), West(x, y, x_size),  port(3)) >>
  \o GridEndpoints(x, y, x_size, y_size, local_ports, 2, v)

Torus(x_size, y_size, local_ports, v) ==
  LET Node(x, y) == TorusNode(x, y, x_size, y_size, local_ports, v)
  IN  ForGrid(x_size, y_size, Node)

\* The torus of the earlier scripts: bare routers, with the ports in the order
\* north, south, east, west.
BareTorusNode(x, y, x_size, y_size, portName) ==
  << Component(Rtr(x, y), [kind |-> "router"]),
     addNextLink(Rtr(x, y), North(x, y, y_size), portName),
     addNextLink(Rtr(x, y), South(x, y, y_size), portName),
     addNextLink(Rtr(x, y), East(x, y, x_size),  portName),
     addNextLink(Rtr(x, y), West(x, y, x_size),  portName) >>

BareTorus(x_size, y_size, portName) ==
  LET Node(x, y) == BareTorusNode(x, y, x_size, y_size, portName)
  IN  ForGrid(x_size, y_size, Node)

\* The three-dimensional torus: with z_size = 1 a router is its own neighbour.
Rtr3(x, y, z) == <<"rtr", x, y, z>>

Torus3DNode(x, y, z, x_size, y_size, z_size, local_ports, v) ==
  LET Up(p, i, size)   == <<p, [p EXCEPT ![i] = (@ + 1) % size]>>
      Down(p, i, size) == LET q == [p EXCEPT ![i] = (@ - 1) % size] IN Up(q, i, size)
      r  == Rtr3(x, y, z)
      id == (z * y_size + y) * x_size + x
      Local(k) == Endpoint(<<"ep", x, y, z, k>>, id * local_ports + k,
                           x_size * y_size * z_size * local_ports, r, port(k + 6), v)
  IN  << Router(r, id, 6 + local_ports, local_ports),
         addLink(r, Up(r, 3, y_size), port(0)),
         addLink(r, Up(r, 2, x_size), port(1)),
         addLink(r, Down(r, 3, y_size), port(2)),
         addLink(r, Down(r, 2, x_size), port(3)),
         addLink(r, Up(r, 4, z_size), port(4)),
         addLink(r, Down(r, 4, z_size), port(5)) >>
      \o For(local_ports, Local)

Torus3D(x_size, y_size, z_size, local_ports, v) ==
  LET Layer(z) ==
        LET Node(x, y) == Torus3DNode(x, y, z, x_size, y_size, z_size, local_ports, v)
        IN  ForGrid(x_size, y_size, Node)
  IN  For(z_size, Layer)

-----------------------------------------------------------------------------
RtrI(i) == <<"rtr", i>>

\* Faulty: the two routers of a link are taken in either order.
PairAsGiven(i, j) == <<RtrI(i), RtrI(j)>>

\* FlattenedButterfly.create_link: the lower router first.
Pair(i, j) == IF i > j THEN <<RtrI(j), RtrI(i)>> ELSE <<RtrI(i), RtrI(j)>>

\* The links of routers whose numbers differ in digit d alone.
LinksOfDigit(d, num_routers, k) ==
  LET ToDigit(m) ==
        LET From(i) == LET ff == (i \div k ^ d) % k
                           j  == i + (m - ff) * k ^ d
                       IN  When(j # i, << createLink(Pair(i, j)[1], Pair(i, j)[2], "port") >>)
        IN  For(num_routers, From)
  IN  For(k - 1, ToDigit)

\* Faulty: digit n - 2 is left out, as the range of the paper has it.
create_topo_linksOfPaper(k, n) ==
  LET Digit(d) == LinksOfDigit(d, k ^ (n - 1), k) IN For(n - 2, Digit)

create_topo_links(k, n) ==
  LET Digit(d) == LinksOfDigit(d, k ^ (n - 1), k) IN For(n - 1, Digit)

gen_routers(k, n) ==
  LET Node(i) == << Router(RtrI(i), i, n * (k - 1) + 1, k) >> IN For(k ^ (n - 1), Node)

gen_endpoints(k, n, v) ==
  LET radix == n * (k - 1) + 1
      Node(i) ==
        LET Local(j) == Endpoint(<<"ep", i, j>>, i * k + j, k ^ n, RtrI(i), port(radix - k + j), v)
        IN  For(k, Local)
  IN  For(k ^ (n - 1), Node)

Butterfly(k, n, v) == gen_routers(k, n) \o create_topo_links(k, n) \o gen_endpoints(k, n, v)

-----------------------------------------------------------------------------
\* Every two routers joined by a link.
Xbar(num_routers, local_ports) ==
  LET Node(i) == << Component(RtrI(i), [kind |-> "router"]) >>
      From(i) ==
        LET To(j) == When(i < j, << createLink(RtrI(i), RtrI(j), "rtr_port") >>)
        IN  For(num_routers, To)
      Locals(i) ==
        LET Local(j) == << Component(<<"ep", i, j>>, [kind |-> "endpoint"]),
                           addLink(RtrI(i), <<RtrI(i), <<"ep", i, j>>>>, <<"local_port", j>>),
                           addLink(<<"ep", i, j>>, <<RtrI(i), <<"ep", i, j>>>>, <<"port", 0>>) >>
        IN  For(local_ports, Local)
  IN  For(num_routers, Node) \o For(num_routers, From) \o For(num_routers, Locals)

\* One router with an endpoint on each of its ports.
SingleRouter(x_size, y_size) ==
  LET Node(x, y) ==
        << Component(<<"ep", x, y>>, [kind |-> "endpoint", num_peers |-> 9]),
           addLink(<<"ep", x, y>>, <<Rtr(x, y), <<"ep", x, y>>>>, <<"rtr_port", 0>>),
           addLink(<<"router">>, <<Rtr(x, y), <<"ep", x, y>>>>, port(x * y_size + y)) >>
  IN  << Router(<<"router">>, 0, 9, 0) >> \o ForGrid(x_size, y_size, Node)
=============================================================================
