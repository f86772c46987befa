----------------------------- MODULE SstConfig -----------------------------
(***************************************************************************)
(* A simulation script is a sequence of calls that build the configuration *)
(* graph of sst: components with parameters, and links, each of which ends *)
(* at ports of components.  Executed is what a call does to the graph.     *)
(* The scripts keep two dictionaries of their own, of the links made so    *)
(* far, by name, and of the next free port of every router; here they are  *)
(* part of the graph.                                                      *)
(***************************************************************************)
EXTENDS Integers, Sequences

\* The calls.  A port is <<name, number>>, an end of a link <<component, port>>.
Component(name, params) == [call |-> "Component", name |-> name, params |-> params]

\* name.addLink(getLink(...), port)
addLink(name, link, port) == [call |-> "addLink", name |-> name, link |-> link, port |-> port]

\* name.addLink(getLink(...), portName + str(getNextTopoPort(name)))
addNextLink(name, link, portName) ==
  [call |-> "addNextLink", name |-> name, link |-> link, portName |-> portName]

\* create_link(i, j), both ends on the next free ports
createLink(i, j, portName) == [call |-> "create_link", i |-> i, j |-> j, portName |-> portName]

\* sst.Link(link).connect(end1, end2)
connect(link, end1, end2) == [call |-> "connect", link |-> link, ends |-> <<end1, end2>>]

\* The same, the second end on network.getNextPort()
connectNext(link, end1, network) ==
  [call |-> "connectNext", link |-> link, end |-> end1, network |-> network]

-----------------------------------------------------------------------------
Put(dict, key, value) == [x \in DOMAIN dict \cup {key} |-> IF x = key THEN value ELSE dict[x]]

Find(dict, key, default) == IF key \in DOMAIN dict THEN dict[key] ELSE default

getLink(net, name)         == Find(net.links, name, << >>)
getNextTopoPort(net, name) == Find(net.rtr_port_nums, name, 0)

Empty == [params |-> << >>, links |-> << >>, rtr_port_nums |-> << >>]

\* Faulty: a link is not looked up before it is made, or its second end replaces
\* the first.
AttachToNew(net, name, ends) == [net EXCEPT !.links = Put(@, name, ends)]

Attach(net, name, ends) == [net EXCEPT !.links = Put(@, name, getLink(net, name) \o ends)]

TakePorts(net, names) ==
  [net EXCEPT !.rtr_port_nums = [x \in names \cup DOMAIN @ |->
     getNextTopoPort(net, x) + (IF x \in names THEN 1 ELSE 0)]]

NextEnd(net, name, portName) == <<name, <<portName, getNextTopoPort(net, name)>>>>

create_link(net, i, j, portName) ==
  IF <<i, j>> \in DOMAIN net.links THEN net
  ELSE TakePorts(Attach(net, <<i, j>>, <<NextEnd(net, i, portName), NextEnd(net, j, portName)>>),
                 {i, j})

\* Faulty: the number of ports is set before the new port is counted.
getNextPortStale(net, network) ==
  TakePorts([net EXCEPT !.params[network].num_ports = getNextTopoPort(net, network)], {network})

getNextPort(net, network) ==
  TakePorts([net EXCEPT !.params[network].num_ports = getNextTopoPort(net, network) + 1], {network})

Executed(net, c) ==
  CASE c.call = "Component"   -> [net EXCEPT !.params = Put(@, c.name, c.params)]
    [] c.call = "addLink"     -> Attach(net, c.link, <<<<c.name, c.port>>>>)
    [] c.call = "addNextLink" ->
         TakePorts(Attach(net, c.link, <<NextEnd(net, c.name, c.portName)>>), {c.name})
    [] c.call = "create_link" -> create_link(net, c.i, c.j, c.portName)
    [] c.call = "connect"     -> Attach(net, c.link, c.ends)
    [] c.call = "connectNext" ->
         getNextPort(Attach(net, c.link, <<c.end, NextEnd(net, c.network, "port")>>), c.network)

\* The graph after more calls, and after all of a script.  One after the other TLC
\* nests the calls too deep, so they are taken twenty at a time; the CHOOSE, of one
\* graph, has it finish each lot before the next.
Run(net, calls) ==
  LET after[i \in 0 .. Len(calls)] == IF i = 0 THEN net ELSE Executed(after[i - 1], calls[i])
  IN  after[Len(calls)]

Built(calls) ==
  LET Lot(i)   == SubSeq(calls, 20 * i - 19, IF 20 * i < Len(calls) THEN 20 * i ELSE Len(calls))
      lots     == (Len(calls) + 19) \div 20
      after[i \in 0 .. lots] ==
        IF i = 0 THEN Empty
        ELSE CHOOSE net \in {Run(before, Lot(i)) : before \in {after[i - 1]}} : TRUE
  IN  after[lots]
=============================================================================
