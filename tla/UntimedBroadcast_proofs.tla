----------------------- MODULE UntimedBroadcast_proofs -----------------------
(***************************************************************************)
(* Proofs about untimed data, for any network whose floods are trees: the  *)
(* flood of a broadcast then visits every link end at most once, whatever  *)
(* the phases and the order in which ports are handled, and nobody hears a *)
(* message twice or one that is not for it.                                *)
(***************************************************************************)
EXTENDS UntimedBroadcast, SeqFacts, FiniteSetTheorems

\* What a broadcast of NIC n enters is a tree of ports, with NICs as leaves: every
\* end is entered from one port only, the first port from none, and n from none.
FloodTree(net, n, reach) ==
  /\ net.Peer[n] \in reach /\ n \notin reach
  /\ \A p \in reach \cap net.Port : \A q \in net.Flood[p] :
       /\ net.Peer[q] \in reach /\ net.Peer[q] # net.Peer[n]
       /\ \A o \in reach \cap net.Port : q \in net.Flood[o] => o = p

FloodsAreTrees(net) == \A n \in net.Nic : \E reach : FloodTree(net, n, reach)

\* The link ends a broadcast of n may enter.
Reach(n) == CHOOSE reach : FloodTree(wired, n, reach)

-----------------------------------------------------------------------------
(* How often a message occurs in a queue.                                  *)

Occurs(s, m) == Cardinality({j \in 1 .. Len(s) : s[j] = m})

LEMMA OccursType ==
  ASSUME NEW S, NEW s \in Seq(S), NEW m
  PROVE  /\ IsFiniteSet({j \in 1 .. Len(s) : s[j] = m})
         /\ Occurs(s, m) \in Nat
         /\ (\A j \in 1 .. Len(s) : s[j] # m) => Occurs(s, m) = 0
         /\ Occurs(s, m) = 0 => \A j \in 1 .. Len(s) : s[j] # m
<1> DEFINE T == {j \in 1 .. Len(s) : s[j] = m}
<1>1. Len(s) \in Nat /\ IsFiniteSet(1 .. Len(s))
  BY LenProperties, FS_Interval
<1>2. T \in SUBSET (1 .. Len(s))
  OBVIOUS
<1>3. IsFiniteSet(T)
  BY <1>1, <1>2, FS_Subset
<1>4. Cardinality(T) \in Nat /\ (Cardinality(T) = 0 <=> T = {})
  BY <1>3, FS_CardinalityType, FS_EmptySet
<1>5. (\A j \in 1 .. Len(s) : s[j] # m) <=> T = {}
  OBVIOUS
<1>6. QED
  BY <1>3, <1>4, <1>5 DEF Occurs

LEMMA OccursEmpty == \A m : Occurs(<<>>, m) = 0
<1> TAKE m
<1>1. <<>> \in Seq({}) /\ \A j \in 1 .. Len(<<>>) : <<>>[j] # m
  OBVIOUS
<1>2. QED
  BY <1>1, OccursType

LEMMA OccursAppend ==
  ASSUME NEW S, NEW s \in Seq(S), NEW e \in S, NEW m
  PROVE  Occurs(Append(s, e), m) = Occurs(s, m) + IF e = m THEN 1 ELSE 0
<1> DEFINE w == Append(s, e)
           n == Len(s)
           T == {j \in 1 .. n : s[j] = m}
           U == {j \in 1 .. Len(w) : w[j] = m}
<1>1. n \in Nat /\ Len(w) = n + 1 /\ (\A j \in 1 .. n : w[j] = s[j]) /\ w[n + 1] = e
  BY LenProperties, AppendProperties
<1>2. IsFiniteSet(T) /\ Cardinality(T) \in Nat
  BY OccursType DEF Occurs
<1>3. n + 1 \notin T
  BY <1>1
<1> HIDE DEF w, n
<1>4. CASE e = m
  <2>1. U = T \cup {n + 1}
    BY <1>1, <1>4
  <2>2. Cardinality(U) = Cardinality(T) + 1
    BY <2>1, <1>2, <1>3, FS_AddElement
  <2>3. QED
    BY <2>2, <1>4 DEF Occurs, w, n
<1>5. CASE e # m
  <2>1. U = T
    BY <1>1, <1>5
  <2> HIDE DEF T, U
  <2>2. Cardinality(U) = Cardinality(T) + 0
    BY <2>1, <1>2
  <2>3. QED
    BY <2>2, <1>5 DEF Occurs, w, n, T, U
<1>6. QED
  BY <1>4, <1>5

LEMMA OccursConcat ==
  ASSUME NEW S, NEW s \in Seq(S), NEW t \in Seq(S), NEW m
  PROVE  Occurs(s \o t, m) = Occurs(s, m) + Occurs(t, m)
<1> DEFINE C(q) == Occurs(q, m)
           One(e) == IF e = m THEN 1 ELSE 0
           T == {r \in Seq(S) : C(s \o r) = C(s) + C(r)}
<1>1. \A r \in Seq(S) : C(r) \in Nat
  BY OccursType
<1>2. <<>> \in T
  <2>1. C(<<>>) = 0 /\ s \o <<>> = s /\ <<>> \in Seq(S)
    BY ConcatEmptySeq, OccursEmpty, EmptySeq
  <2> HIDE DEF C
  <2>2. QED
    BY <1>1, <2>1
<1>3. ASSUME NEW r \in Seq(S), NEW e \in S, r \in T PROVE Append(r, e) \in T
  <2> DEFINE w == s \o r
  <2>1. s \o Append(r, e) = Append(w, e) /\ w \in Seq(S) /\ Append(r, e) \in Seq(S)
    BY AddToLast, ConcatProperties, AppendProperties
  <2>2. C(Append(w, e)) = C(w) + One(e)
    <3> HIDE DEF w
    <3>1. QED
      BY <2>1, OccursAppend
  <2>3. C(Append(r, e)) = C(r) + One(e)
    BY OccursAppend
  <2>4. C(s \o r) = C(s) + C(r)
    BY <1>3
  <2>5. One(e) \in Nat
    OBVIOUS
  <2> HIDE DEF C, One
  <2>6. C(s \o Append(r, e)) = C(s) + C(Append(r, e))
    <3>1. C(s \o Append(r, e)) = (C(s) + C(r)) + One(e)
      BY <2>1, <2>2, <2>4
    <3>2. C(s) \in Nat /\ C(r) \in Nat
      BY <1>1
    <3>3. QED
      BY <2>3, <2>5, <3>1, <3>2
  <2>7. QED
    BY <2>1, <2>6
<1>4. t \in T
  <2> HIDE DEF T
  <2>1. QED
    BY <1>2, <1>3, SeqInduction
<1>5. QED
  BY <1>4

LEMMA OccursTail ==
  ASSUME NEW S, NEW s \in Seq(S), s # <<>>, NEW m
  PROVE  Occurs(s, m) = Occurs(Tail(s), m) + IF Head(s) = m THEN 1 ELSE 0
<1>1. Head(s) \in S /\ Tail(s) \in Seq(S) /\ <<>> \in Seq(S)
  BY HeadTailProperties
<1> DEFINE h == Head(s)
           r == Tail(s)
           o == Append(<<>>, h)
<1>2. o \in Seq(S) /\ o \o r = <<>> \o s /\ <<>> \o s = s
  BY <1>1, MoveFront, AppendProperties, ConcatEmptySeq
<1>3. Occurs(o, m) = Occurs(<<>>, m) + IF h = m THEN 1 ELSE 0
  <2>1. h \in S /\ <<>> \in Seq(S)
    BY <1>1
  <2> HIDE DEF h
  <2>2. \A q \in Seq(S), x \in S : Occurs(Append(q, x), m) = Occurs(q, m) + IF x = m THEN 1 ELSE 0
    BY OccursAppend
  <2> DEFINE e == <<>>
  <2> HIDE DEF e
  <2>3. Occurs(Append(e, h), m) = Occurs(e, m) + IF h = m THEN 1 ELSE 0
    BY <2>1, <2>2 DEF e
  <2>4. QED
    BY <2>3 DEF e
<1>4. Occurs(<<>>, m) = 0 /\ Occurs(r, m) \in Nat
  BY <1>1, OccursEmpty, OccursType
<1>5. Occurs(o \o r, m) = Occurs(o, m) + Occurs(r, m)
  <2>1. o \in Seq(S) /\ r \in Seq(S)
    BY <1>1, <1>2
  <2> HIDE DEF o, r
  <2>2. QED
    BY <2>1, OccursConcat
<1> HIDE DEF h, r, o
<1>6. Occurs(s, m) = Occurs(r, m) + IF h = m THEN 1 ELSE 0
  BY <1>2, <1>3, <1>4, <1>5
<1>7. QED
  BY <1>6 DEF h, r

LEMMA OccursOnce ==
  ASSUME NEW S, NEW s \in Seq(S), NEW m, Occurs(s, m) <= 1,
         NEW j \in 1 .. Len(s), s[j] = m, NEW l \in 1 .. Len(s), s[l] = m
  PROVE  j = l
<1> DEFINE T == {i \in 1 .. Len(s) : s[i] = m}
<1>1. IsFiniteSet(T) /\ Cardinality(T) \in Nat /\ Cardinality(T) <= 1 /\ j \in T /\ l \in T
  BY OccursType DEF Occurs
<1> HIDE DEF T
<1>2. Cardinality(T) # 0
  BY <1>1, FS_EmptySet
<1>3. Cardinality(T) = 1
  BY <1>1, <1>2
<1>4. PICK x : T = {x}
  BY <1>1, <1>3, FS_Singleton
<1>5. QED
  BY <1>1, <1>4

-----------------------------------------------------------------------------
(* The type invariant.                                                     *)

SentMessage == UNION {{Message(n, i) : i \in 1 .. numSent[n]} : n \in wired.Nic}

TypeOK ==
  /\ network \in DOMAIN Network
  /\ plan \in Plan[network]
  /\ numSent \in [wired.Nic -> Nat]
  /\ \A n \in wired.Nic : numSent[n] <= Len(plan[n])
  /\ arriving \in [wired.Port -> Seq(SentMessage)]
  /\ departing \in [wired.Port \cup wired.Nic -> Seq(SentMessage)]
  /\ initEvents \in [wired.Nic -> Seq(SentMessage)]
  /\ sSeenBroadcastOrigins \in
       [{wired.DomainOf[wired.RouterOf[p]] : p \in wired.Port} -> SUBSET wired.Nic]

-----------------------------------------------------------------------------
(* Where a message is.                                                     *)

End == wired.Port \cup wired.Nic

\* What is under way to e, or was received by it, and not relayed yet.
Queue(e) == IF e \in wired.Port THEN arriving[e] ELSE initEvents[e]

\* The copies of message m at e.
At(m, e) == Occurs(Queue(e), m) + Occurs(departing[e], m)

\* The tables of the network.
LEMMA Tables ==
  ASSUME TypeOK
  PROVE  /\ wired.Port \cap wired.Nic = {} /\ Broadcast \notin wired.Nic
         /\ wired.Peer \in [End -> End]
         /\ \A e \in End : wired.Peer[wired.Peer[e]] = e
         /\ \A n \in wired.Nic : wired.Peer[n] \in wired.Port
         /\ \A p \in wired.Port, n \in wired.Nic :
              /\ wired.Route[wired.RouterOf[p]][n] \in wired.Port
              /\ LET e == wired.Peer[wired.Route[wired.RouterOf[p]][n]]
                 IN  e \in wired.Nic => e = n
         /\ wired.Flood \in [wired.Port -> SUBSET wired.Port]
         /\ wired.GatewayPort \subseteq wired.Port
         /\ plan \in [wired.Nic -> Seq(wired.Nic \cup {Broadcast})]
<1> DEFINE Rtr == {wired.RouterOf[p] : p \in wired.Port}
<1>1. network \in DOMAIN Network /\ plan \in Plan[network]
  BY DEF TypeOK
<1>2. /\ wired.Port \cap wired.Nic = {} /\ Broadcast \notin wired.Nic
      /\ wired.Peer \in [End -> End]
      /\ \A e \in End : wired.Peer[wired.Peer[e]] = e
      /\ \A n \in wired.Nic : wired.Peer[n] \in wired.Port
      /\ wired.Flood \in [wired.Port -> SUBSET wired.Port]
      /\ wired.GatewayPort \subseteq wired.Port
      /\ \A x \in Plan[network] : x \in [wired.Nic -> Seq(wired.Nic \cup {Broadcast})]
  BY <1>1, TablesAssumption DEF WellFormed, End, wired
<1>3. /\ wired.Route \in [Rtr -> [wired.Nic -> wired.Port]]
      /\ \A r \in Rtr, n \in wired.Nic :
           wired.Peer[wired.Route[r][n]] \in wired.Nic => wired.Peer[wired.Route[r][n]] = n
  BY <1>1, TablesAssumption DEF WellFormed, wired
<1>4. \A p \in wired.Port : wired.RouterOf[p] \in Rtr
  OBVIOUS
<1> HIDE DEF Rtr
<1>5. ASSUME NEW p \in wired.Port, NEW n \in wired.Nic
      PROVE  /\ wired.Route[wired.RouterOf[p]][n] \in wired.Port
             /\ LET e == wired.Peer[wired.Route[wired.RouterOf[p]][n]]
                IN  e \in wired.Nic => e = n
  <2>1. wired.RouterOf[p] \in Rtr
    BY <1>4
  <2>2. wired.Route[wired.RouterOf[p]] \in [wired.Nic -> wired.Port]
    BY <1>3, <2>1
  <2>3. QED
    BY <1>3, <2>1, <2>2
<1>6. plan \in [wired.Nic -> Seq(wired.Nic \cup {Broadcast})]
  BY <1>1, <1>2
<1>7. QED
  BY <1>2, <1>5, <1>6

\* Messages that were sent.
LEMMA Sent ==
  ASSUME TypeOK, NEW m \in SentMessage
  PROVE  /\ m.src \in wired.Nic /\ m.num \in 1 .. numSent[m.src]
         /\ m.num \in 1 .. Len(plan[m.src]) /\ m = Message(m.src, m.num)
         /\ m.dest \in wired.Nic \cup {Broadcast}
<1>1. PICK n \in wired.Nic : \E i \in 1 .. numSent[n] : m = Message(n, i)
  BY DEF SentMessage
<1>2. PICK i \in 1 .. numSent[n] : m = Message(n, i)
  BY <1>1
<1>3. m.src = n /\ m.num = i /\ m.dest = plan[n][i]
  BY <1>2 DEF Message
<1>4. numSent[n] \in Nat /\ numSent[n] <= Len(plan[n]) /\ plan[n] \in Seq(wired.Nic \cup {Broadcast})
  BY Tables DEF TypeOK
<1>5. Len(plan[n]) \in Nat /\ i \in 1 .. Len(plan[n])
  BY <1>4, LenProperties
<1>6. plan[n][i] \in wired.Nic \cup {Broadcast}
  BY <1>4, <1>5, ElementOfSeq
<1>7. QED
  BY <1>2, <1>3, <1>5, <1>6

LEMMA Queues ==
  ASSUME TypeOK, NEW e \in End
  PROVE  Queue(e) \in Seq(SentMessage) /\ departing[e] \in Seq(SentMessage)
BY DEF TypeOK, End, Queue

LEMMA AtType ==
  ASSUME TypeOK, NEW e \in End, NEW m
  PROVE  /\ Occurs(Queue(e), m) \in Nat /\ Occurs(departing[e], m) \in Nat
         /\ At(m, e) \in Nat
         /\ m \notin SentMessage => At(m, e) = 0
<1> DEFINE q == Queue(e)
           d == departing[e]
<1>1. q \in Seq(SentMessage) /\ d \in Seq(SentMessage)
  BY Queues
<1>2. /\ \A j \in 1 .. Len(q) : q[j] \in SentMessage
      /\ \A j \in 1 .. Len(d) : d[j] \in SentMessage
  BY <1>1, ElementOfSeq
<1> HIDE DEF q, d
<1>3. Occurs(q, m) \in Nat /\ Occurs(d, m) \in Nat
  BY <1>1, OccursType
<1>4. m \notin SentMessage => Occurs(q, m) = 0 /\ Occurs(d, m) = 0
  <2>1. m \notin SentMessage =>
          (\A j \in 1 .. Len(q) : q[j] # m) /\ (\A j \in 1 .. Len(d) : d[j] # m)
    BY <1>2
  <2>2. QED
    BY <1>1, <2>1, OccursType
<1>5. QED
  BY <1>3, <1>4 DEF At, q, d

-----------------------------------------------------------------------------
(* What each action does.                                                  *)

\* Nothing changes what is sent where.
LEMMA Constant == ASSUME Next PROVE UNCHANGED <<network, plan>>
BY DEF Next, SendUntimedData, Relay, NextPhase

\* Nothing that was sent is taken back.
LEMMA SentKept ==
  ASSUME TypeOK, UNCHANGED <<network, plan>>,
         \A n \in wired.Nic : numSent'[n] \in Nat /\ numSent[n] <= numSent'[n]
  PROVE  SentMessage \subseteq SentMessage'
<1>1. wired' = wired
  BY DEF wired
<1>2. ASSUME NEW m \in SentMessage PROVE m \in SentMessage'
  <2>1. m.src \in wired.Nic /\ m.num \in 1 .. numSent[m.src] /\ m = Message(m.src, m.num)
    BY Sent
  <2>2. numSent[m.src] \in Nat
    BY <2>1 DEF TypeOK
  <2>3. m.num \in 1 .. numSent'[m.src] /\ m.src \in wired'.Nic
    BY <1>1, <2>1, <2>2
  <2>4. m = Message(m.src, m.num)'
    BY <2>1 DEF Message
  <2>5. QED
    BY <2>3, <2>4 DEF SentMessage
<1>3. QED
  BY <1>2

LEMMA SendTypes ==
  ASSUME TypeOK, NEW n \in wired.Nic, SendUntimedData(n)
  PROVE  /\ TypeOK'
         /\ LET k == Message(n, numSent[n] + 1)
            IN  /\ k \notin SentMessage /\ k.src = n /\ k.num = numSent[n] + 1
                /\ SentMessage' = SentMessage \cup {k}
                /\ \A m : \A e \in End :
                     At(m, e)' = At(m, e) + IF e = wired.Peer[n] /\ m = k THEN 1 ELSE 0
<1> DEFINE k == Message(n, numSent[n] + 1)
<1>1. /\ UNCHANGED <<network, plan, arriving, initEvents, sSeenBroadcastOrigins>>
      /\ wired' = wired /\ End' = End
      /\ \A e : Queue(e)' = Queue(e)
  BY DEF SendUntimedData, wired, End, Queue
<1>2. /\ numSent \in [wired.Nic -> Nat] /\ Len(plan[n]) \in Nat
      /\ numSent[n] < Len(plan[n])
      /\ numSent' = [numSent EXCEPT ![n] = @ + 1]
      /\ departing' = [departing EXCEPT ![wired.Peer[n]] = Append(@, k)]
  <2>1. plan[n] \in Seq(wired.Nic \cup {Broadcast})
    BY Tables
  <2>2. QED
    BY <2>1, LenProperties DEF TypeOK, SendUntimedData
<1>3. k.src = n /\ k.num = numSent[n] + 1 /\ k = Message(n, numSent[n] + 1)
  BY DEF Message
<1>4. k \notin SentMessage
  <2>1. ~(k.num \in 1 .. numSent[k.src])
    BY <1>2, <1>3
  <2> HIDE DEF k
  <2>2. QED
    BY <2>1, Sent
<1>5. \A i, l : Message(i, l)' = Message(i, l)
  BY <1>1 DEF Message
<1>6. /\ numSent' \in [wired.Nic -> Nat]
      /\ \A i \in wired.Nic : numSent'[i] = IF i = n THEN numSent[i] + 1 ELSE numSent[i]
      /\ \A i \in wired.Nic : numSent'[i] <= Len(plan[i])
  <2>1. \A i \in wired.Nic : numSent[i] <= Len(plan[i])
    BY DEF TypeOK
  <2>2. QED
    BY <1>2, <2>1
<1>7. SentMessage \subseteq SentMessage'
  BY <1>1, <1>2, <1>6, SentKept
<1>8. SentMessage' = SentMessage \cup {k}
  <2>1. k \in SentMessage'
    <3>1. numSent[n] + 1 \in 1 .. numSent'[n] /\ n \in wired'.Nic
      BY <1>1, <1>2, <1>6
    <3>2. \A i : i = numSent[n] + 1 => k = Message(n, i)'
      BY <1>5
    <3> HIDE DEF k
    <3>3. QED
      BY <3>1, <3>2 DEF SentMessage
  <2>2. ASSUME NEW m \in SentMessage', m # k PROVE m \in SentMessage
    <3>1. PICK i \in wired.Nic : \E l \in 1 .. numSent'[i] : m = Message(i, l)
      BY <1>1, <1>5 DEF SentMessage
    <3>2. PICK l \in 1 .. numSent'[i] : m = Message(i, l)
      BY <3>1
    <3>3. l \in 1 .. numSent[i]
      <4>1. numSent[i] \in Nat /\ numSent'[i] = IF i = n THEN numSent[i] + 1 ELSE numSent[i]
        BY <1>2, <1>6
      <4>2. ~(i = n /\ l = numSent[n] + 1)
        BY <2>2, <3>2
      <4>3. QED
        BY <4>1, <4>2
    <3>4. QED
      BY <3>2, <3>3 DEF SentMessage
  <2>3. QED
    BY <1>7, <2>1, <2>2
<1>9. Seq(SentMessage) \subseteq Seq(SentMessage')
  <2>1. ASSUME NEW S, NEW T, S \subseteq T, NEW s \in Seq(S) PROVE s \in Seq(T)
    <3>1. /\ Len(s) \in Nat /\ \A j \in 1 .. Len(s) : s[j] \in T
          /\ s = [j \in 1 .. Len(s) |-> s[j]]
      BY <2>1, LenProperties, ElementOfSeq, SeqDef
    <3>2. QED
      BY <3>1, IsASeq
  <2>2. QED
    BY <1>7, <2>1
<1>10. wired.Peer[n] \in End /\ wired.Peer[n] \in wired.Port
  BY Tables DEF End
<1>11. departing' \in [End -> Seq(SentMessage')]
  <2>1. departing \in [End -> Seq(SentMessage')]
    BY <1>9 DEF TypeOK, End
  <2>2. Append(departing[wired.Peer[n]], k) \in Seq(SentMessage')
    BY <1>8, <1>10, <2>1, AppendProperties
  <2>3. QED
    BY <1>2, <2>1, <2>2
<1>12. TypeOK'
  <2>1. /\ arriving' \in [wired'.Port -> Seq(SentMessage')]
        /\ initEvents' \in [wired'.Nic -> Seq(SentMessage')]
    BY <1>1, <1>9 DEF TypeOK
  <2>2. network' \in DOMAIN Network /\ plan' \in Plan[network']
        /\ sSeenBroadcastOrigins' \in
             [{wired'.DomainOf[wired'.RouterOf[p]] : p \in wired'.Port} -> SUBSET wired'.Nic]
    BY <1>1, ZenonT(30) DEF TypeOK
  <2>3. numSent' \in [wired'.Nic -> Nat] /\ \A i \in wired'.Nic : numSent'[i] <= Len(plan'[i])
    BY <1>1, <1>6
  <2>4. departing' \in [wired'.Port \cup wired'.Nic -> Seq(SentMessage')]
    BY <1>1, <1>11 DEF End
  <2>5. QED
    BY <2>1, <2>2, <2>3, <2>4 DEF TypeOK
<1>13. ASSUME NEW m, NEW e \in End
       PROVE  At(m, e)' = At(m, e) + IF e = wired.Peer[n] /\ m = k THEN 1 ELSE 0
  <2>1. Queue(e)' = Queue(e) /\ departing[e] \in Seq(SentMessage') /\ k \in SentMessage'
        /\ Occurs(Queue(e), m) \in Nat /\ Occurs(departing[e], m) \in Nat
    BY <1>1, <1>8, <1>9, Queues, AtType
  <2>2. departing'[e] = IF e = wired.Peer[n] THEN Append(departing[e], k) ELSE departing[e]
    BY <1>2 DEF TypeOK, End
  <2> HIDE DEF k
  <2>3. Occurs(Append(departing[e], k), m) = Occurs(departing[e], m) + IF k = m THEN 1 ELSE 0
    BY <2>1, OccursAppend
  <2>4. At(m, e)' = Occurs(Queue(e), m) + Occurs(departing'[e], m)
    BY <2>1 DEF At
  <2>5. CASE e = wired.Peer[n]
    BY <2>1, <2>2, <2>3, <2>4, <2>5 DEF At
  <2>6. CASE e # wired.Peer[n]
    BY <2>1, <2>2, <2>4, <2>6 DEF At
  <2>7. QED
    BY <2>5, <2>6
<1> HIDE DEF k
<1>14. QED
  BY <1>3, <1>4, <1>8, <1>12, <1>13 DEF k

LEMMA PhaseTypes ==
  ASSUME TypeOK, NextPhase
  PROVE  /\ TypeOK' /\ SentMessage' = SentMessage
         /\ \A m : \A e \in End : At(m, e)' = At(m, e)
<1>1. /\ UNCHANGED <<network, plan, numSent, sSeenBroadcastOrigins>>
      /\ wired' = wired /\ End' = End
      /\ \A i, l : Message(i, l)' = Message(i, l)
  BY DEF NextPhase, wired, End, Message
<1>2. SentMessage' = SentMessage
  BY <1>1 DEF SentMessage
<1>3. departing \in [End -> Seq(SentMessage)] /\ initEvents \in [wired.Nic -> Seq(SentMessage)]
  BY DEF TypeOK, End
<1>4. /\ \A p \in wired.Port : arriving[p] = <<>>
      /\ arriving' = [p \in wired.Port |-> departing[p]]
      /\ departing' = [e \in End |-> <<>>]
      /\ initEvents' = [n \in wired.Nic |-> initEvents[n] \o departing[n]]
  BY DEF NextPhase, End
<1>5. /\ arriving' \in [wired.Port -> Seq(SentMessage)]
      /\ departing' \in [End -> Seq(SentMessage)]
      /\ initEvents' \in [wired.Nic -> Seq(SentMessage)]
  <2>1. \A p \in wired.Port : departing[p] \in Seq(SentMessage)
    BY <1>3 DEF End
  <2>2. <<>> \in Seq(SentMessage)
    OBVIOUS
  <2>3. \A n \in wired.Nic : initEvents[n] \o departing[n] \in Seq(SentMessage)
    BY <1>3, ConcatProperties DEF End
  <2>4. QED
    BY <1>4, <2>1, <2>2, <2>3
<1>6. TypeOK'
  <2>1. /\ arriving' \in [wired'.Port -> Seq(SentMessage')]
        /\ departing' \in [wired'.Port \cup wired'.Nic -> Seq(SentMessage')]
        /\ initEvents' \in [wired'.Nic -> Seq(SentMessage')]
    BY <1>1, <1>2, <1>5 DEF End
  <2>2. /\ network' \in DOMAIN Network /\ plan' \in Plan[network']
        /\ numSent' \in [wired'.Nic -> Nat]
        /\ \A i \in wired'.Nic : numSent'[i] <= Len(plan'[i])
        /\ sSeenBroadcastOrigins' \in
             [{wired'.DomainOf[wired'.RouterOf[p]] : p \in wired'.Port} -> SUBSET wired'.Nic]
    BY <1>1, ZenonT(30) DEF TypeOK
  <2>3. QED
    BY <2>1, <2>2 DEF TypeOK
<1>7. ASSUME NEW m, NEW e \in End PROVE At(m, e)' = At(m, e)
  <2>1. /\ Occurs(<<>>, m) = 0
        /\ Occurs(Queue(e), m) \in Nat /\ Occurs(departing[e], m) \in Nat
    BY OccursEmpty, AtType
  <2>2. departing'[e] = <<>> /\ At(m, e)' = Occurs(Queue(e)', m) + Occurs(departing'[e], m)
    BY <1>4 DEF At
  <2>3. CASE e \in wired.Port
    <3>1. Queue(e) = <<>> /\ Queue(e)' = departing[e]
      BY <1>1, <1>4, <2>3 DEF Queue
    <3>2. QED
      BY <2>1, <2>2, <3>1 DEF At
  <2>4. CASE e \notin wired.Port
    <3>1. e \in wired.Nic
      BY <2>4 DEF End
    <3>2. Queue(e) = initEvents[e] /\ Queue(e)' = initEvents[e] \o departing[e]
      BY <1>1, <1>4, <2>4, <3>1 DEF Queue
    <3>3. Occurs(Queue(e)', m) = Occurs(Queue(e), m) + Occurs(departing[e], m)
      BY <1>3, <3>1, <3>2, OccursConcat DEF End
    <3>4. QED
      BY <2>1, <2>2, <3>3 DEF At
  <2>5. QED
    BY <2>3, <2>4
<1>8. QED
  BY <1>2, <1>6, <1>7

\* Where a message that is received at port p goes.
Ahead(p, m) == {wired.Peer[q] : q \in OutPorts(p, m)}

LEMMA AheadType ==
  ASSUME TypeOK, NEW p \in wired.Port, NEW m \in SentMessage
  PROVE  /\ OutPorts(p, m) \subseteq wired.Port
         /\ Ahead(p, m) \subseteq End
         /\ m.dest = Broadcast => OutPorts(p, m) \subseteq wired.Flood[p]
         /\ m.dest # Broadcast =>
              /\ m.dest \in wired.Nic
              /\ Ahead(p, m) = {wired.Peer[wired.Route[wired.RouterOf[p]][m.dest]]}
              /\ \A e \in Ahead(p, m) : e \in wired.Nic => e = m.dest
<1>1. m.dest \in wired.Nic \cup {Broadcast}
  BY Sent
<1>2. CASE m.dest = Broadcast
  <2>1. OutPorts(p, m) \subseteq wired.Flood[p]
    BY <1>2 DEF OutPorts
  <2>2. wired.Flood[p] \subseteq wired.Port
    BY Tables
  <2>3. QED
    BY <1>2, <2>1, <2>2, Tables DEF Ahead, End
<1>3. CASE m.dest # Broadcast
  <2> DEFINE q == wired.Route[wired.RouterOf[p]][m.dest]
  <2>1. m.dest \in wired.Nic /\ OutPorts(p, m) = {q}
    BY <1>1, <1>3 DEF OutPorts
  <2>2. q \in wired.Port /\ (wired.Peer[q] \in wired.Nic => wired.Peer[q] = m.dest)
    BY <2>1, Tables
  <2>3. wired.Peer[q] \in End
    BY <2>2, Tables DEF End
  <2> HIDE DEF q
  <2>4. Ahead(p, m) = {wired.Peer[q]}
    BY <2>1 DEF Ahead
  <2>5. QED
    BY <1>3, <2>1, <2>2, <2>3, <2>4 DEF q
<1>4. QED
  BY <1>2, <1>3

LEMMA RelayTypes ==
  ASSUME TypeOK, NEW p \in wired.Port, Relay(p)
  PROVE  /\ TypeOK' /\ SentMessage' = SentMessage
         /\ LET h == Head(arriving[p])
            IN  /\ h \in SentMessage /\ At(h, p) > 0
                /\ \A m : \A e \in End :
                     /\ At(m, e) \in Nat /\ At(m, e)' \in Nat
                     /\ At(m, e)' + (IF m = h /\ e = p THEN 1 ELSE 0)
                          = At(m, e) + IF m = h /\ e \in Ahead(p, h) THEN 1 ELSE 0
<1> DEFINE h == Head(arriving[p])
<1>1. /\ UNCHANGED <<network, plan, numSent, initEvents>>
      /\ wired' = wired /\ End' = End
      /\ \A i, l : Message(i, l)' = Message(i, l)
  BY DEF Relay, wired, End, Message
<1>2. SentMessage' = SentMessage
  BY <1>1 DEF SentMessage
<1>3. /\ departing \in [End -> Seq(SentMessage)] /\ arriving \in [wired.Port -> Seq(SentMessage)]
      /\ initEvents \in [wired.Nic -> Seq(SentMessage)]
  BY DEF TypeOK, End
<1>4. /\ arriving[p] # <<>>
      /\ arriving' = [arriving EXCEPT ![p] = Tail(@)]
      /\ departing' = [e \in End |->
                         IF e \in Ahead(p, h) THEN Append(departing[e], h) ELSE departing[e]]
  BY DEF Relay, End, Ahead
<1>5. h \in SentMessage /\ Tail(arriving[p]) \in Seq(SentMessage)
  BY <1>3, <1>4, HeadTailProperties
<1>6. sSeenBroadcastOrigins' \in
        [{wired.DomainOf[wired.RouterOf[q]] : q \in wired.Port} -> SUBSET wired.Nic]
  <2> DEFINE d == wired.DomainOf[wired.RouterOf[p]]
             D == {wired.DomainOf[wired.RouterOf[q]] : q \in wired.Port}
             seen == sSeenBroadcastOrigins
  <2>1. seen \in [D -> SUBSET wired.Nic] /\ d \in D
    BY DEF TypeOK
  <2>2. origin(h) \in wired.Nic
    BY <1>5, Sent DEF origin
  <2>3. \/ seen' = [seen EXCEPT ![d] = @ \cup {origin(h)}]
        \/ seen' = seen
    BY DEF Relay
  <2> HIDE DEF d, D, h
  <2>4. seen' \in [D -> SUBSET wired.Nic]
    BY <2>1, <2>2, <2>3
  <2>5. QED
    BY <2>4 DEF D
<1> HIDE DEF h
<1>7. /\ arriving' \in [wired.Port -> Seq(SentMessage)]
      /\ departing' \in [End -> Seq(SentMessage)]
  <2>1. \A e \in End : Append(departing[e], h) \in Seq(SentMessage)
    BY <1>3, <1>5, AppendProperties
  <2>2. QED
    BY <1>3, <1>4, <1>5, <2>1
<1>8. TypeOK'
  <2>1. /\ arriving' \in [wired'.Port -> Seq(SentMessage')]
        /\ departing' \in [wired'.Port \cup wired'.Nic -> Seq(SentMessage')]
        /\ initEvents' \in [wired'.Nic -> Seq(SentMessage')]
    BY <1>1, <1>2, <1>3, <1>7 DEF End
  <2>2. /\ network' \in DOMAIN Network /\ plan' \in Plan[network']
        /\ numSent' \in [wired'.Nic -> Nat]
        /\ \A i \in wired'.Nic : numSent'[i] <= Len(plan'[i])
    BY <1>1 DEF TypeOK
  <2>3. sSeenBroadcastOrigins' \in
          [{wired'.DomainOf[wired'.RouterOf[q]] : q \in wired'.Port} -> SUBSET wired'.Nic]
    BY <1>1, <1>6
  <2>4. QED
    BY <2>1, <2>2, <2>3 DEF TypeOK
<1>9. p \in End /\ Queue(p) = arriving[p]
  BY DEF End, Queue
<1>10. At(h, p) > 0
  <2>1. Occurs(arriving[p], h) = Occurs(Tail(arriving[p]), h) + 1
    BY <1>3, <1>4, OccursTail DEF h
  <2>2. Occurs(Tail(arriving[p]), h) \in Nat
    BY <1>5, OccursType
  <2>3. Occurs(departing[p], h) \in Nat
    BY <1>9, AtType
  <2>4. QED
    BY <1>9, <2>1, <2>2, <2>3 DEF At
<1>11. ASSUME NEW m, NEW e \in End
       PROVE  /\ At(m, e) \in Nat /\ At(m, e)' \in Nat
              /\ At(m, e)' + (IF m = h /\ e = p THEN 1 ELSE 0)
                   = At(m, e) + IF m = h /\ e \in Ahead(p, h) THEN 1 ELSE 0
  <2>1. Occurs(Queue(e), m) \in Nat /\ Occurs(departing[e], m) \in Nat
    BY AtType
  <2>2. At(m, e)' = Occurs(Queue(e)', m) + Occurs(departing'[e], m)
    BY DEF At
  <2>3. Occurs(departing'[e], m)
          = Occurs(departing[e], m) + IF m = h /\ e \in Ahead(p, h) THEN 1 ELSE 0
    <3>1. Occurs(Append(departing[e], h), m) = Occurs(departing[e], m) + IF h = m THEN 1 ELSE 0
      BY <1>3, <1>5, OccursAppend
    <3>2. CASE e \in Ahead(p, h)
      <4>1. departing'[e] = Append(departing[e], h)
        BY <1>4, <3>2
      <4>2. QED
        BY <3>1, <3>2, <4>1
    <3>3. CASE e \notin Ahead(p, h)
      <4>1. departing'[e] = departing[e]
        BY <1>4, <3>3
      <4>2. QED
        BY <2>1, <3>3, <4>1
    <3>4. QED
      BY <3>2, <3>3
  <2>4. Occurs(Queue(e), m) = Occurs(Queue(e)', m) + IF m = h /\ e = p THEN 1 ELSE 0
    <3>1. CASE e = p
      <4>1. Queue(e)' = Tail(arriving[p]) /\ Queue(e) = arriving[p]
        BY <1>1, <1>3, <1>4, <3>1 DEF Queue
      <4>2. Occurs(arriving[p], m) = Occurs(Tail(arriving[p]), m) + IF h = m THEN 1 ELSE 0
        BY <1>3, <1>4, OccursTail DEF h
      <4>3. QED
        BY <3>1, <4>1, <4>2
    <3>2. CASE e # p
      <4>1. Queue(e)' = Queue(e)
        BY <1>1, <1>3, <1>4, <3>2 DEF Queue
      <4>2. QED
        BY <2>1, <3>2, <4>1
    <3>3. QED
      BY <3>1, <3>2
  <2>5. Occurs(Queue(e)', m) \in Nat
    <3>1. Queue(e)' \in Seq(SentMessage')
      BY <1>1, <1>8 DEF TypeOK, Queue, End
    <3>2. QED
      BY <3>1, OccursType
  <2>6. QED
    BY <2>1, <2>2, <2>3, <2>4, <2>5 DEF At
<1>12. QED
  BY <1>2, <1>5, <1>8, <1>10, <1>11 DEF h

-----------------------------------------------------------------------------
\* TYPE CORRECTNESS: whatever the networks and the plans, the routers never ask the
\* tables for what is not in them, and every queue holds messages that were sent.
THEOREM TypeCorrect == Spec => []TypeOK
<1>1. Init => TypeOK
  <2> SUFFICES ASSUME Init PROVE TypeOK
    OBVIOUS
  <2>1. <<>> \in Seq(SentMessage)
    OBVIOUS
  <2>2. \A n \in wired.Nic : Len(plan[n]) \in Nat
    <3>1. plan \in [wired.Nic -> Seq(wired.Nic \cup {Broadcast})]
      BY TablesAssumption DEF Init, wired
    <3>2. QED
      BY <3>1, LenProperties
  <2>3. QED
    BY <2>1, <2>2 DEF Init, TypeOK
<1>2. TypeOK /\ [Next]_vars => TypeOK'
  <2> SUFFICES ASSUME TypeOK, [Next]_vars PROVE TypeOK'
    OBVIOUS
  <2>1. ASSUME NEW n \in wired.Nic, SendUntimedData(n) PROVE TypeOK'
    BY <2>1, SendTypes
  <2>2. ASSUME NEW p \in wired.Port, Relay(p) PROVE TypeOK'
    BY <2>2, RelayTypes
  <2>3. CASE NextPhase
    BY <2>3, PhaseTypes
  <2>4. CASE UNCHANGED vars
    <3>1. UNCHANGED <<network, plan, numSent, arriving, departing, initEvents, sSeenBroadcastOrigins>>
      BY <2>4 DEF vars
    <3>2. wired' = wired /\ \A i, l : Message(i, l)' = Message(i, l)
      BY <3>1 DEF wired, Message
    <3>3. SentMessage' = SentMessage
      BY <3>1, <3>2 DEF SentMessage
    <3>4. QED
      BY <3>1, <3>2, <3>3, ZenonT(30) DEF TypeOK
  <2>5. QED
    BY <2>1, <2>2, <2>3, <2>4 DEF Next
<1>3. QED
  BY <1>1, <1>2, PTL DEF Spec

-----------------------------------------------------------------------------
(* The flood of a tree.  relayed is the history of a broadcast: the ports  *)
(* it was relayed at.                                                      *)

\* Broadcast m may come to e: from its NIC, or from a port it was relayed at.
Entered(relayed, m, e) ==
  \/ e = wired.Peer[m.src]
  \/ \E p \in Reach(m.src) \cap wired.Port :
       <<m, p>> \in relayed /\ \E q \in wired.Flood[p] : wired.Peer[q] = e

\* A broadcast is at no end twice, and at none it was relayed at or did not enter.
Flooded(relayed, m) ==
  \A e \in End :
    /\ At(m, e) <= 1
    /\ At(m, e) = 1 => <<m, e>> \notin relayed
    /\ At(m, e) = 1 \/ <<m, e>> \in relayed => e \in Reach(m.src) /\ Entered(relayed, m, e)

\* Any other message is at one end at most, and at no NIC it is not for.
Routed(m) ==
  \A e \in End :
    /\ At(m, e) <= 1
    /\ At(m, e) = 1 /\ e \in wired.Nic => e = m.dest
    /\ \A f \in End : At(m, e) = 1 /\ At(m, f) = 1 => e = f

Placed(relayed, m) == IF m.dest = Broadcast THEN Flooded(relayed, m) ELSE Routed(m)

AllPlaced(relayed) ==
  relayed \subseteq SentMessage \X wired.Port /\ \A m \in SentMessage : Placed(relayed, m)

Placement == FloodsAreTrees(wired) => \E relayed : AllPlaced(relayed)

LEMMA Trees ==
  ASSUME FloodsAreTrees(wired), NEW n \in wired.Nic
  PROVE  FloodTree(wired, n, Reach(n))
BY DEF FloodsAreTrees, Reach

\* What only the tables define is the same in the next state.
LEMMA SameTables ==
  ASSUME UNCHANGED network
  PROVE  /\ wired' = wired /\ End' = End
         /\ \A n : Reach(n)' = Reach(n)
         /\ \A relayed, m, e : Entered(relayed, m, e)' = Entered(relayed, m, e)
BY DEF wired, End, Reach, Entered

\* What is placed, and where it is, are as before.
LEMMA PlacedKept ==
  ASSUME NEW relayed, NEW m, UNCHANGED network,
         \A e \in End : At(m, e)' = At(m, e), Placed(relayed, m)
  PROVE  Placed(relayed, m)'
<1>1. /\ wired' = wired /\ End' = End
      /\ \A n : Reach(n)' = Reach(n)
      /\ \A e : Entered(relayed, m, e)' = Entered(relayed, m, e)
  BY SameTables
<1>2. Flooded(relayed, m) => Flooded(relayed, m)'
  BY <1>1 DEF Flooded
<1>3. Routed(m) => Routed(m)'
  BY <1>1 DEF Routed
<1>4. QED
  BY <1>2, <1>3 DEF Placed

LEMMA SendPlaced ==
  ASSUME TypeOK, FloodsAreTrees(wired), NEW n \in wired.Nic, SendUntimedData(n),
         NEW relayed, AllPlaced(relayed)
  PROVE  AllPlaced(relayed)'
<1>0. PICK k : k = Message(n, numSent[n] + 1)
  OBVIOUS
<1>1. /\ k \notin SentMessage /\ k.src = n
      /\ SentMessage' = SentMessage \cup {k}
      /\ \A m : \A e \in End : At(m, e)' = At(m, e) + IF e = wired.Peer[n] /\ m = k THEN 1 ELSE 0
  BY <1>0, SendTypes
<1>2. UNCHANGED network
  BY DEF SendUntimedData
<1>3. /\ wired' = wired /\ End' = End
      /\ \A i : Reach(i)' = Reach(i)
      /\ \A m, e : Entered(relayed, m, e)' = Entered(relayed, m, e)
  BY <1>2, SameTables
<1>4. relayed \subseteq SentMessage \X wired.Port
  BY DEF AllPlaced
<1>5. ASSUME NEW m \in SentMessage PROVE Placed(relayed, m)'
  <2>1. ASSUME NEW e \in End PROVE At(m, e)' = At(m, e)
    <3>1. At(m, e)' = At(m, e) + 0 /\ At(m, e) \in Nat
      BY <1>1, AtType
    <3>2. QED
      BY <3>1
  <2>2. Placed(relayed, m)
    BY DEF AllPlaced
  <2>3. QED
    BY <1>2, <2>1, <2>2, PlacedKept
<1>6. \A e \in End : At(k, e)' = IF e = wired.Peer[n] THEN 1 ELSE 0
  <2>1. \A e \in End : At(k, e) = 0
    BY <1>1, AtType
  <2>2. QED
    BY <1>1, <2>1
<1>7. wired.Peer[n] \in wired.Port /\ wired.Port \cap wired.Nic = {}
  BY Tables
<1>8. Placed(relayed, k)'
  <2>1. Flooded(relayed, k)'
    <3>1. wired.Peer[n] \in Reach(n)
      BY Trees DEF FloodTree
    <3>2. Entered(relayed, k, wired.Peer[n])
      BY <1>1 DEF Entered
    <3>3. \A e : <<k, e>> \notin relayed
      BY <1>1, <1>4
    <3>4. QED
      BY <1>1, <1>3, <1>6, <3>1, <3>2, <3>3 DEF Flooded
  <2>2. Routed(k)'
    BY <1>3, <1>6, <1>7 DEF Routed
  <2>3. QED
    BY <2>1, <2>2 DEF Placed
<1>9. relayed \subseteq SentMessage' \X wired'.Port
  BY <1>1, <1>3, <1>4
<1>10. QED
  BY <1>1, <1>5, <1>8, <1>9 DEF AllPlaced

\* No end that a tree leads to from p, where the broadcast has come but was not
\* relayed, has seen it.
LEMMA NotYetThere ==
  ASSUME TypeOK, FloodsAreTrees(wired), NEW m \in SentMessage, NEW relayed, Flooded(relayed, m),
         NEW p \in wired.Port, p \in Reach(m.src), <<m, p>> \notin relayed,
         NEW q \in wired.Flood[p]
  PROVE  LET e == wired.Peer[q]
         IN  /\ e \in End /\ e \in Reach(m.src)
             /\ ~Entered(relayed, m, e)
             /\ At(m, e) = 0 /\ <<m, e>> \notin relayed
<1> DEFINE e == wired.Peer[q]
<1>1. m.src \in wired.Nic
  BY Sent
<1>2. FloodTree(wired, m.src, Reach(m.src))
  BY <1>1, Trees
<1>3. q \in wired.Port /\ q \in End /\ e \in End /\ wired.Peer[e] = q
  BY Tables DEF End
<1>4. p \in Reach(m.src) \cap wired.Port
  OBVIOUS
<1>5. /\ e \in Reach(m.src) /\ e # wired.Peer[m.src]
      /\ \A o \in Reach(m.src) \cap wired.Port : q \in wired.Flood[o] => o = p
  BY <1>2, <1>4 DEF FloodTree
<1>6. ~Entered(relayed, m, e)
  <2> SUFFICES ASSUME Entered(relayed, m, e) PROVE FALSE
    OBVIOUS
  <2>1. PICK o \in Reach(m.src) \cap wired.Port :
          <<m, o>> \in relayed /\ \E r \in wired.Flood[o] : wired.Peer[r] = e
    BY <1>5 DEF Entered
  <2>2. PICK r \in wired.Flood[o] : wired.Peer[r] = e
    BY <2>1
  <2>3. r \in End
    BY Tables DEF End
  <2>4. r = q
    BY <1>3, <2>2, <2>3, Tables
  <2>5. o = p
    BY <1>5, <2>2, <2>4
  <2>6. QED
    BY <2>1, <2>5
<1>7. At(m, e) \in Nat /\ At(m, e) <= 1
  BY <1>3, AtType DEF Flooded
<1>8. At(m, e) # 1 /\ <<m, e>> \notin relayed
  BY <1>3, <1>6 DEF Flooded
<1>9. QED
  BY <1>3, <1>5, <1>6, <1>7, <1>8

LEMMA RelayFloods ==
  ASSUME TypeOK, FloodsAreTrees(wired), NEW p \in wired.Port, Relay(p),
         NEW relayed, AllPlaced(relayed), NEW h, h = Head(arriving[p]), h.dest = Broadcast
  PROVE  AllPlaced(relayed \cup {<<h, p>>})'
<1> DEFINE after == relayed \cup {<<h, p>>}
<1>1. /\ SentMessage' = SentMessage
      /\ h \in SentMessage /\ At(h, p) > 0
      /\ \A m : \A e \in End :
           /\ At(m, e) \in Nat /\ At(m, e)' \in Nat
           /\ At(m, e)' + (IF m = h /\ e = p THEN 1 ELSE 0)
                = At(m, e) + IF m = h /\ e \in Ahead(p, h) THEN 1 ELSE 0
  BY RelayTypes
<1>2. UNCHANGED network
  BY DEF Relay
<1>3. /\ wired' = wired /\ End' = End
      /\ \A i : Reach(i)' = Reach(i)
      /\ \A r, m, e : Entered(r, m, e)' = Entered(r, m, e)
  BY <1>2, SameTables
<1>4. relayed \subseteq SentMessage \X wired.Port
  BY DEF AllPlaced
<1>5. p \in End
  BY DEF End
<1>6. \A m : m # h => \A e : <<m, e>> \in after <=> <<m, e>> \in relayed
  OBVIOUS
<1>7. \A e : <<h, e>> \in after <=> <<h, e>> \in relayed \/ e = p
  OBVIOUS
<1>8. ASSUME NEW m \in SentMessage, m # h PROVE Placed(after, m)'
  <2>1. ASSUME NEW e \in End PROVE At(m, e)' = At(m, e)
    <3>1. At(m, e)' + 0 = At(m, e) + 0 /\ At(m, e) \in Nat /\ At(m, e)' \in Nat
      BY <1>1, <1>8
    <3>2. QED
      BY <3>1
  <2>2. Placed(relayed, m)
    BY DEF AllPlaced
  <2>3. \A e : Entered(after, m, e) <=> Entered(relayed, m, e)
    BY <1>6, <1>8 DEF Entered
  <2> HIDE DEF after
  <2>4. Placed(after, m)
    BY <1>6, <1>8, <2>2, <2>3 DEF Placed, Flooded
  <2>5. QED
    BY <1>2, <2>1, <2>4, PlacedKept
<1>9. Flooded(relayed, h)
  BY <1>1 DEF AllPlaced, Placed
<1>10. At(h, p) = 1 /\ <<h, p>> \notin relayed /\ p \in Reach(h.src) /\ Entered(relayed, h, p)
  BY <1>1, <1>5, <1>9 DEF Flooded
<1>11. ASSUME NEW e \in Ahead(p, h)
       PROVE  /\ e \in End /\ e \in Reach(h.src) /\ ~Entered(relayed, h, e)
              /\ At(h, e) = 0 /\ <<h, e>> \notin relayed
              /\ \E q \in wired.Flood[p] : wired.Peer[q] = e
  <2>1. PICK q \in OutPorts(p, h) : e = wired.Peer[q]
    BY DEF Ahead
  <2>2. q \in wired.Flood[p]
    BY <1>1, <2>1, AheadType
  <2>3. /\ e \in End /\ e \in Reach(h.src) /\ ~Entered(relayed, h, e)
        /\ At(h, e) = 0 /\ <<h, e>> \notin relayed
    <3>1. h \in SentMessage
      BY <1>1
    <3>2. /\ wired.Peer[q] \in End /\ wired.Peer[q] \in Reach(h.src)
          /\ ~Entered(relayed, h, wired.Peer[q])
          /\ At(h, wired.Peer[q]) = 0 /\ <<h, wired.Peer[q]>> \notin relayed
      BY <1>9, <1>10, <2>2, <3>1, NotYetThere
    <3>3. QED
      BY <2>1, <3>2
  <2>4. QED
    BY <2>1, <2>2, <2>3
<1>12. p \notin Ahead(p, h)
  BY <1>10, <1>11
<1> HIDE DEF after
<1>13. ASSUME NEW e PROVE Entered(relayed, h, e) => Entered(after, h, e)
  BY <1>7 DEF Entered
<1>14. ASSUME NEW e \in Ahead(p, h) PROVE Entered(after, h, e)
  <2>1. p \in Reach(h.src) \cap wired.Port /\ <<h, p>> \in after
    BY <1>7, <1>10
  <2>2. QED
    BY <1>11, <2>1 DEF Entered
<1>15. ASSUME NEW e \in End
       PROVE  /\ At(h, e)' <= 1
              /\ At(h, e)' = 1 => <<h, e>> \notin after
              /\ At(h, e)' = 1 \/ <<h, e>> \in after => e \in Reach(h.src) /\ Entered(after, h, e)
  <2>1. CASE e = p
    <3>1. At(h, e)' + 1 = At(h, e) + 0 /\ At(h, e)' \in Nat
      BY <1>1, <1>12, <2>1
    <3>2. At(h, e)' = 0
      BY <1>10, <2>1, <3>1
    <3>3. QED
      BY <1>10, <1>13, <2>1, <3>2
  <2>2. CASE e \in Ahead(p, h)
    <3>1. At(h, e)' + 0 = At(h, e) + 1 /\ At(h, e)' \in Nat
      BY <1>1, <1>12, <2>2
    <3>2. At(h, e)' = 1
      <4>1. At(h, e) = 0
        BY <1>11, <2>2
      <4>2. QED
        BY <3>1, <4>1
    <3>3. <<h, e>> \notin after
      BY <1>7, <1>11, <1>12, <2>2
    <3>4. QED
      BY <1>11, <1>14, <2>2, <3>2, <3>3
  <2>3. CASE e # p /\ e \notin Ahead(p, h)
    <3>1. At(h, e)' + 0 = At(h, e) + 0 /\ At(h, e)' \in Nat /\ At(h, e) \in Nat
      BY <1>1, <2>3
    <3>2. At(h, e)' = At(h, e)
      BY <3>1
    <3>3. QED
      BY <1>7, <1>9, <1>13, <2>3, <3>2 DEF Flooded
  <2>4. QED
    BY <2>1, <2>2, <2>3
<1>16. Placed(after, h)'
  BY <1>3, <1>15 DEF Flooded, Placed
<1>17. after \subseteq SentMessage' \X wired'.Port
  BY <1>1, <1>3, <1>4 DEF after
<1>18. AllPlaced(after)'
  BY <1>1, <1>8, <1>16, <1>17 DEF AllPlaced
<1>19. QED
  BY <1>18 DEF after

LEMMA RelayRoutes ==
  ASSUME TypeOK, NEW p \in wired.Port, Relay(p),
         NEW relayed, AllPlaced(relayed), NEW h, h = Head(arriving[p]), h.dest # Broadcast
  PROVE  AllPlaced(relayed)'
<1>1. /\ SentMessage' = SentMessage
      /\ h \in SentMessage /\ At(h, p) > 0
      /\ \A m : \A e \in End :
           /\ At(m, e) \in Nat /\ At(m, e)' \in Nat
           /\ At(m, e)' + (IF m = h /\ e = p THEN 1 ELSE 0)
                = At(m, e) + IF m = h /\ e \in Ahead(p, h) THEN 1 ELSE 0
  BY RelayTypes
<1>2. UNCHANGED network
  BY DEF Relay
<1>3. wired' = wired /\ End' = End
  BY <1>2, SameTables
<1>4. relayed \subseteq SentMessage' \X wired'.Port
  BY <1>1, <1>3 DEF AllPlaced
<1>5. p \in End
  BY DEF End
<1>6. ASSUME NEW m \in SentMessage, m # h PROVE Placed(relayed, m)'
  <2>1. ASSUME NEW e \in End PROVE At(m, e)' = At(m, e)
    <3>1. At(m, e)' + 0 = At(m, e) + 0 /\ At(m, e) \in Nat /\ At(m, e)' \in Nat
      BY <1>1, <1>6
    <3>2. QED
      BY <3>1
  <2>2. Placed(relayed, m)
    BY DEF AllPlaced
  <2>3. QED
    BY <1>2, <2>1, <2>2, PlacedKept
<1>7. Routed(h)
  BY <1>1 DEF AllPlaced, Placed
<1>8. At(h, p) = 1 /\ \A e \in End : e # p => At(h, e) = 0
  <2>1. At(h, p) = 1
    BY <1>1, <1>5, <1>7 DEF Routed
  <2>2. ASSUME NEW e \in End, e # p PROVE At(h, e) = 0
    <3>1. At(h, e) \in Nat /\ At(h, e) <= 1 /\ At(h, e) # 1
      BY <1>1, <1>5, <1>7, <2>1, <2>2 DEF Routed
    <3>2. QED
      BY <3>1
  <2>3. QED
    BY <2>1, <2>2
<1>9. PICK o \in End : Ahead(p, h) = {o} /\ (o \in wired.Nic => o = h.dest)
  <2> DEFINE o == wired.Peer[wired.Route[wired.RouterOf[p]][h.dest]]
  <2>1. Ahead(p, h) = {o} /\ Ahead(p, h) \subseteq End
    BY <1>1, AheadType
  <2>2. \A e \in Ahead(p, h) : e \in wired.Nic => e = h.dest
    BY <1>1, AheadType
  <2> HIDE DEF o
  <2>3. QED
    BY <2>1, <2>2
<1>10. ASSUME NEW e \in End PROVE At(h, e)' = IF e = o THEN 1 ELSE 0
  <2>1. /\ At(h, e) = IF e = p THEN 1 ELSE 0
        /\ At(h, e)' \in Nat
        /\ At(h, e)' + (IF e = p THEN 1 ELSE 0) = At(h, e) + IF e = o THEN 1 ELSE 0
    BY <1>1, <1>8, <1>9
  <2>2. QED
    BY <2>1
<1>11. Placed(relayed, h)'
  BY <1>3, <1>9, <1>10 DEF Placed, Routed
<1>12. QED
  BY <1>1, <1>4, <1>6, <1>11 DEF AllPlaced

-----------------------------------------------------------------------------
LEMMA InitPlaced == ASSUME Init PROVE AllPlaced({})
<1>1. SentMessage = {}
  BY DEF Init, SentMessage
<1>2. QED
  BY <1>1 DEF AllPlaced

LEMMA StepPlaced ==
  ASSUME TypeOK, Placement, Next
  PROVE  Placement'
<1>1. UNCHANGED network /\ wired' = wired
  BY Constant DEF wired
<1>2. SUFFICES ASSUME FloodsAreTrees(wired) PROVE \E relayed : AllPlaced(relayed)'
  BY <1>1 DEF Placement, FloodsAreTrees, FloodTree
<1>3. PICK relayed : AllPlaced(relayed)
  BY <1>2 DEF Placement
<1>4. ASSUME NEW n \in wired.Nic, SendUntimedData(n) PROVE AllPlaced(relayed)'
  BY <1>2, <1>3, <1>4, SendPlaced
<1>5. ASSUME NEW p \in wired.Port, Relay(p) PROVE \E r : AllPlaced(r)'
  <2>1. PICK h : h = Head(arriving[p])
    OBVIOUS
  <2>2. CASE h.dest = Broadcast
    BY <1>2, <1>3, <1>5, <2>1, <2>2, RelayFloods
  <2>3. CASE h.dest # Broadcast
    BY <1>3, <1>5, <2>1, <2>3, RelayRoutes
  <2>4. QED
    BY <2>2, <2>3
<1>6. CASE NextPhase
  <2>1. SentMessage' = SentMessage /\ \A m : \A e \in End : At(m, e)' = At(m, e)
    BY <1>6, PhaseTypes
  <2>2. relayed \subseteq SentMessage' \X wired'.Port
    BY <1>1, <1>3, <2>1 DEF AllPlaced
  <2>3. ASSUME NEW m \in SentMessage PROVE Placed(relayed, m)'
    BY <1>1, <1>3, <2>1, PlacedKept DEF AllPlaced
  <2>4. QED
    BY <2>1, <2>2, <2>3 DEF AllPlaced
<1>7. QED
  BY <1>4, <1>5, <1>6 DEF Next

\* What is placed once is heard once.
LEMMA PlacedHeard ==
  ASSUME TypeOK, Placement, FloodsAreTrees(wired)
  PROVE  HeardAtMostOnce
<1>1. PICK relayed : AllPlaced(relayed)
  BY DEF Placement
<1>2. SUFFICES ASSUME NEW n \in wired.Nic, NEW e \in wired.Nic, NEW i \in MessageNums(n),
                      NEW j \in Copies(e, Message(n, i)), NEW l \in Copies(e, Message(n, i))
               PROVE  e \in Recipients(n, i) /\ j = l
  BY DEF HeardAtMostOnce
<1> DEFINE m == Message(n, i)
           s == initEvents[e]
<1>3. m.src = n /\ m.dest = plan[n][i]
  BY DEF Message
<1>4. /\ s \in Seq(SentMessage) /\ e \in End /\ Queue(e) = s
      /\ j \in 1 .. Len(s) /\ s[j] = m /\ l \in 1 .. Len(s) /\ s[l] = m
  BY Tables DEF TypeOK, End, Copies, Queue
<1> HIDE DEF m, s
<1>5. m \in SentMessage
  BY <1>4, ElementOfSeq
<1>6. Occurs(s, m) \in Nat /\ Occurs(s, m) # 0
  BY <1>4, OccursType
<1>7. At(m, e) \in Nat /\ Occurs(s, m) <= At(m, e)
  <2>1. At(m, e) \in Nat /\ Occurs(Queue(e), m) \in Nat /\ Occurs(departing[e], m) \in Nat
    BY <1>4, AtType
  <2>2. At(m, e) = Occurs(s, m) + Occurs(departing[e], m)
    BY <1>4 DEF At
  <2>3. QED
    BY <1>4, <2>1, <2>2
<1>8. Placed(relayed, m) /\ At(m, e) <= 1
  BY <1>1, <1>4, <1>5 DEF AllPlaced, Placed, Flooded, Routed
<1>9. Occurs(s, m) <= 1 /\ At(m, e) = 1
  BY <1>6, <1>7, <1>8
<1>10. j = l
  BY <1>4, <1>9, OccursOnce
<1>11. CASE m.dest = Broadcast
  <2>1. e \in Reach(n)
    BY <1>3, <1>4, <1>8, <1>9, <1>11 DEF Placed, Flooded
  <2>2. n \notin Reach(n)
    BY Trees DEF FloodTree
  <2>3. QED
    BY <1>3, <1>10, <1>11, <2>1, <2>2 DEF Recipients
<1>12. CASE m.dest # Broadcast
  <2>1. e = m.dest
    BY <1>4, <1>8, <1>9, <1>12 DEF Placed, Routed
  <2>2. QED
    BY <1>3, <1>10, <1>12, <2>1 DEF Recipients
<1>13. QED
  BY <1>11, <1>12

\* HEARD AT MOST ONCE (property HeardAtMostOnce), whatever the size of the network, the
\* plans and the order in which ports are handled, as long as the flood of every
\* broadcast is a tree: nobody gets a message twice or one that is not for it.
THEOREM FloodsHeardOnce == Spec => [](FloodsAreTrees(wired) => HeardAtMostOnce)
<1>1. Init => Placement
  BY InitPlaced DEF Placement
<1>2. TypeOK /\ Placement /\ [Next]_vars => Placement'
  <2> SUFFICES ASSUME TypeOK, Placement, [Next]_vars PROVE Placement'
    OBVIOUS
  <2>1. CASE Next
    BY <2>1, StepPlaced
  <2>2. CASE UNCHANGED vars
    <3>1. /\ UNCHANGED <<network, plan, numSent, arriving, departing, initEvents>>
          /\ wired' = wired /\ End' = End
      BY <2>2 DEF vars, wired, End
    <3>2. SentMessage' = SentMessage /\ \A m, e : At(m, e)' = At(m, e)
      BY <3>1 DEF SentMessage, Message, At, Queue
    <3>3. FloodsAreTrees(wired)' <=> FloodsAreTrees(wired)
      BY <3>1 DEF FloodsAreTrees, FloodTree
    <3>4. ASSUME NEW relayed, AllPlaced(relayed) PROVE AllPlaced(relayed)'
      <4>1. ASSUME NEW m \in SentMessage PROVE Placed(relayed, m)'
        BY <3>1, <3>2, <3>4, PlacedKept DEF AllPlaced
      <4>2. QED
        BY <3>1, <3>2, <3>4, <4>1 DEF AllPlaced
    <3>5. QED
      BY <3>3, <3>4 DEF Placement
  <2>3. QED
    BY <2>1, <2>2
<1>3. TypeOK /\ Placement => (FloodsAreTrees(wired) => HeardAtMostOnce)
  BY PlacedHeard
<1>4. QED
  BY <1>1, <1>2, <1>3, TypeCorrect, PTL DEF Spec
=============================================================================
