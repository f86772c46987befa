-------------------------- MODULE FlatButterflyTopo --------------------------
(***************************************************************************)
(* The k-ary n-fly flattened butterfly.  An endpoint is a number of n      *)
(* digits in base k; the upper n - 1 digits are its router, the lowest its *)
(* local port.  Routers whose numbers differ in one digit are linked.      *)
(***************************************************************************)
EXTENDS Integers, FiniteSets

CONSTANTS k, n   \* k >= 2, n >= 2

numRtrPorts == (n - 1) * (k - 1)
RouterId    == 0 .. k ^ (n - 1) - 1
DestId      == 0 .. k ^ n - 1

\* convertBase(num)[i]: the i-th digit, 0 the least significant.
digit(num, i) == (num \div k ^ i) % k

\* How tests/flatbutterfly_k2n4_testnic.py wires the ports: k - 1 ports for each
\* digit of the router, lowest digit first; they lead to the routers with the
\* other values of that digit, in order.
RouterPorts(r) == 0 .. numRtrPorts - 1
LocalPorts     == numRtrPorts .. numRtrPorts + k - 1
Neighbor(r, i) ==
  LET d     == i \div (k - 1)
      own   == digit(r, d)
      nth   == i % (k - 1)
      value == IF nth < own THEN nth ELSE nth + 1
  IN  r + (value - own) * k ^ d
Opposite(r, i) == CHOOSE j \in RouterPorts(r) : Neighbor(Neighbor(r, i), j) = r

getEndpointId(r, portnum) ==
  IF portnum < numRtrPorts THEN -1 ELSE r * k + (portnum - numRtrPorts)

\* Faulty: the digit of the local port counts, too.
calcDistAllDigits(r, dest) == Cardinality({i \in 0 .. n - 1 : digit(dest, i) # digit(r * k, i)})

\* calcDist: upper digits in which router r differs from the endpoint's router.
calcDist(r, dest) == Cardinality({i \in 1 .. n - 1 : digit(dest, i) # digit(r * k, i)})

\* The search over the ports does not stop at the first port with the least
\* distance, so the last one wins.
routePacket(r, dest) ==
  IF calcDist(r, dest) = 0 THEN numRtrPorts + digit(dest, 0)
  ELSE LET dist(i) == calcDist(Neighbor(r, i), dest)
       IN  CHOOSE i \in RouterPorts(r) :
             \A j \in RouterPorts(r) : dist(i) <= dist(j) /\ (j > i => dist(i) < dist(j))

isWrapAroundOutput(r, portnum) == FALSE
=============================================================================
