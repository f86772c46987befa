-------------------------- MODULE InitPhases_proofs --------------------------
(***************************************************************************)
(* Proofs about how a network starts: nobody reads a message it does not   *)
(* expect, the ends of every link know each other, every sender is granted *)
(* the credits of its stream, and the untimed data is relayed as           *)
(* UntimedBroadcast says.                                                  *)
(***************************************************************************)
EXTENDS InitPhases, SeqFacts

Greeting ==
  [type : {"REPORT_ROUTER", "REPORT_ENDPOINT", "FLIT_WIDTH"}, value : {None}]
  \cup [type : {"ROUTER_ID"}, value : Router] \cup [type : {"PORT_NUM"}, value : Port]
  \cup [type : {"NUM_VNS"}, value : {NumVns}] \cup [type : {"NUM_VCS"}, value : {NumVcs}]
  \cup [type : {"ENDPOINT_ID"}, value : Nic]
Message == Greeting \cup CreditGrant \cup UntimedData

-----------------------------------------------------------------------------
(* The inductive invariant.                                                *)

\* What e says to the other end of its link in each of the first three phases.
SaidIn(ph, e) ==
  IF ph = 0
  THEN IF e \in Port
       THEN <<Tell("REPORT_ROUTER", None), Tell("ROUTER_ID", RouterOf[e]), Tell("PORT_NUM", e)>>
       ELSE <<Tell("REPORT_ENDPOINT", None)>>
  ELSE IF Peer[e] \notin Nic THEN <<>>
  ELSE IF ph = 1
  THEN <<Tell("NUM_VNS", NumVns), Tell("NUM_VCS", NumVcs), Tell("FLIT_WIDTH", None)>>
  ELSE <<Tell("ENDPOINT_ID", Peer[e])>>

\* Had(ph, e): e has had its turn in phase ph.
Had(ph, e) == phase > ph \/ (phase = ph /\ e \in called)

Typed ==
  /\ stage \in {"init", "complete"} /\ phase \in 0 .. 4 /\ called \in SUBSET End
  /\ arrived \in [End -> Seq(Message)] /\ departing \in [End -> Seq(Message)]
  /\ connectionType \in [Port -> {"UNKNOWN", "ROUTER", "ENDPOINT"}]
  /\ connectedRtrId \in [Port -> Router \cup {None, "ENDPOINT"}]
  /\ connectedPortId \in [Port -> Port \cup {None}]
  /\ perPortConnectedRtr \in [Port -> Router \cup {None, "ENDPOINT"}]
  /\ destCredits \in [PortUnit -> Nat]
  /\ portEvents \in [Port -> Seq(UntimedData)]
  /\ rtrId \in [Nic -> Router \cup {None}] /\ rtrPort \in [Nic -> Port \cup {None}]
  /\ numVns \in [Nic -> Nat] /\ netID \in [Nic -> Nic \cup {None}]
  /\ rtrCredits \in [NicVn -> Nat]
  /\ nicEvents \in [Nic -> Seq(UntimedData)]
  /\ plan \in Plan /\ numSent \in [Nic -> Nat]

\* In the first phases exactly what the other end has said is on its way.
Heeded ==
  \A e \in End :
    /\ phase < 4 => arrived[e] = IF phase = 0 \/ e \in called THEN <<>>
                                 ELSE SaidIn(phase - 1, Peer[e])
    /\ phase < 3 => departing[e] = IF Peer[e] \in called THEN SaidIn(phase, Peer[e]) ELSE <<>>
    /\ phase = 3 /\ Peer[e] \in called => departing[e] # <<>>

PortLearned(p) ==
  IF Had(1, p)
  THEN IF Peer[p] \in Port
       THEN /\ connectionType[p] = "ROUTER"
            /\ connectedRtrId[p] = RouterOf[Peer[p]] /\ connectedPortId[p] = Peer[p]
       ELSE connectionType[p] = "ENDPOINT" /\ connectedRtrId[p] = "ENDPOINT"
  ELSE connectionType[p] = "UNKNOWN" /\ connectedRtrId[p] = None

NicLearned(n) ==
  /\ Had(1, n) => rtrId[n] = RouterOf[Peer[n]] /\ rtrPort[n] = Peer[n]
  /\ Had(2, n) => numVns[n] = NumVns
  /\ netID[n] = IF Had(3, n) THEN n ELSE None

\* What was said has been understood.
Learned ==
  /\ \A p \in Port : /\ PortLearned(p)
                     /\ perPortConnectedRtr[p] = IF Had(2, p) THEN connectedRtrId[p] ELSE None
  /\ \A n \in Nic : NicLearned(n)

\* The credits of a stream are held, or on their way, from the other end's turn on.
Counted ==
  /\ \A u \in PortUnit :
       destCredits[u] + CreditsIn(arrived[u[1]], u[2], {u[3]})
                      + CreditsIn(departing[u[1]], u[2], {u[3]})
         = IF Had(3, Peer[u[1]]) THEN LinkCredits(u) ELSE 0
  /\ \A x \in NicVn :
       rtrCredits[x] + CreditsIn(arrived[x[1]], x[2], VC) + CreditsIn(departing[x[1]], x[2], VC)
         = IF Had(3, Peer[x[1]]) THEN LinkCredits(<<x[1], x[2], 0>>) ELSE 0

\* Untimed data comes last, and nothing is left unread.
Settled ==
  /\ phase < 4 => (\A p \in Port : portEvents[p] = <<>>) /\ (\A n \in Nic : nicEvents[n] = <<>>)
  /\ phase = 4 => \A e \in called : arrived[e] = <<>>
  /\ stage = "complete" => phase = 4 /\ CreditsGranted

InitInv == Typed /\ Heeded /\ Learned /\ Counted /\ Settled

-----------------------------------------------------------------------------
(* Queues of messages.                                                     *)

LEMMA MessageFacts ==
  ASSUME NEW m \in Message
  PROVE  /\ m.type = "PACKET" => m \in UntimedData
         /\ m.type = "CREDIT" => m \in CreditGrant
         /\ m \in MessagesOf(m.type)
<1>1. CASE m \in CreditGrant
  BY <1>1 DEF CreditGrant, MessagesOf
<1>2. CASE m \in UntimedData
  BY <1>2 DEF UntimedData, MessagesOf
<1>3. CASE m \in Greeting
  <2>1. m.type # "PACKET" /\ m.type # "CREDIT"
    BY <1>3 DEF Greeting
  <2>2. m \in MessagesOf(m.type)
    BY <1>3 DEF Greeting, MessagesOf
  <2>3. QED
    BY <2>1, <2>2
<1>4. QED
  BY <1>1, <1>2, <1>3 DEF Message

LEMMA WorthType ==
  ASSUME NEW m \in Message, NEW vn, NEW vcs
  PROVE  Worth(m, vn, vcs) \in Nat
BY MessageFacts DEF Worth, CreditGrant

CreditStep(vn, vcs) == [xm \in Nat \X Message |-> xm[1] + Worth(xm[2], vn, vcs)]

LEMMA CreditsReached ==
  ASSUME NEW queue \in Seq(Message), NEW vn, NEW vcs
  PROVE  /\ Reaches(queue, CreditStep(vn, vcs), 0, CreditsIn(queue, vn, vcs))
         /\ CreditsIn(queue, vn, vcs) \in Nat
<1> DEFINE N == Len(queue)
           step == CreditStep(vn, vcs)
           W(i) == Worth(queue[i], vn, vcs)
           sum == CHOOSE f : f = [i \in 0 .. N |->
                    IF i = 0 THEN 0 ELSE f[i - 1] + Worth(queue[i], vn, vcs)]
<1>1. N \in Nat /\ \A i \in 1 .. N : queue[i] \in Message
  BY LenProperties, ElementOfSeq
<1>2. CreditsIn(queue, vn, vcs) = sum[N]
  BY Zenon DEF CreditsIn
<1>3. \A i \in 1 .. N : W(i) \in Nat
  BY <1>1, WorthType
<1>4. step \in [Nat \X Message -> Nat]
  BY WorthType DEF CreditStep
<1>5. \A x \in Nat, i \in 1 .. N : step[<<x, queue[i]>>] = x + W(i)
  BY <1>1 DEF CreditStep
<1> HIDE DEF step, W
<1>6. sum = [i \in 0 .. N |-> IF i = 0 THEN 0 ELSE sum[i - 1] + W(i)]
  <2>1. PICK f \in [0 .. N -> Nat] : Rounds(f, queue, step, 0)
    BY <1>4, RoundsExist
  <2>2. ASSUME NEW i \in 0 .. N
        PROVE  f[i] = IF i = 0 THEN 0 ELSE f[i - 1] + W(i)
    <3>1. CASE i = 0
      BY <2>1, <3>1 DEF Rounds
    <3>2. CASE i # 0
      <4>1. i \in 1 .. N /\ i - 1 \in 0 .. N
        BY <1>1, <3>2
      <4>2. f[i - 1] \in Nat
        BY <4>1
      <4>3. QED
        BY <1>5, <2>1, <3>2, <4>1, <4>2 DEF Rounds
    <3>3. QED
      BY <3>1, <3>2
  <2>3. f = [i \in 0 .. N |-> IF i = 0 THEN 0 ELSE f[i - 1] + W(i)]
    BY <2>2
  <2>4. QED
    BY <2>3 DEF W
<1> HIDE DEF sum
<1>7. sum[0] = 0 /\ \A i \in 1 .. N : sum[i] = sum[i - 1] + W(i)
  <2>1. 0 \in 0 .. N /\ \A i \in 1 .. N : i \in 0 .. N /\ i # 0
    BY <1>1
  <2>2. QED
    BY <1>6, <2>1
<1>8. \A n \in 0 .. N : sum[n] \in Nat
  <2> DEFINE T == {n \in Nat : n <= N => sum[n] \in Nat}
  <2>1. 0 \in T
    BY <1>7
  <2>2. ASSUME NEW n \in Nat, n \in T PROVE n + 1 \in T
    <3> SUFFICES ASSUME n + 1 <= N PROVE sum[n + 1] \in Nat
      OBVIOUS
    <3>1. n + 1 \in 1 .. N /\ n + 1 - 1 = n /\ sum[n] \in Nat
      BY <1>1, <2>2
    <3>2. QED
      BY <1>3, <1>7, <3>1
  <2> HIDE DEF T
  <2>3. Nat \subseteq T
    BY <2>1, <2>2, SetInduction
  <2>4. QED
    BY <1>1, <2>3 DEF T
<1>9. Rounds(sum, queue, step, 0)
  <2>1. ASSUME NEW i \in 1 .. N PROVE sum[i] = step[<<sum[i - 1], queue[i]>>]
    <3>1. i - 1 \in 0 .. N
      BY <1>1
    <3>2. sum[i - 1] \in Nat
      BY <1>8, <3>1
    <3>3. QED
      BY <1>5, <1>7, <3>2
  <2>2. QED
    BY <1>7, <2>1 DEF Rounds
<1>10. QED
  BY <1>1, <1>2, <1>8, <1>9 DEF Reaches, step

LEMMA CreditsEmpty ==
  ASSUME NEW vn, NEW vcs
  PROVE  CreditsIn(<<>>, vn, vcs) = 0
<1>1. <<>> \in Seq(Message)
  BY EmptySeq
<1>2. QED
  BY <1>1, CreditsReached, ReachesEmpty

LEMMA CreditsAppend ==
  ASSUME NEW queue \in Seq(Message), NEW m \in Message, NEW vn, NEW vcs
  PROVE  CreditsIn(Append(queue, m), vn, vcs) = CreditsIn(queue, vn, vcs) + Worth(m, vn, vcs)
<1> DEFINE step == CreditStep(vn, vcs)
           x == CreditsIn(queue, vn, vcs)
           y == CreditsIn(Append(queue, m), vn, vcs)
<1>1. Append(queue, m) \in Seq(Message)
  BY AppendProperties
<1>2. Reaches(queue, step, 0, x) /\ x \in Nat /\ Reaches(Append(queue, m), step, 0, y)
  BY <1>1, CreditsReached
<1> HIDE DEF x, y
<1>3. step[<<x, m>>] = x + Worth(m, vn, vcs)
  BY <1>2 DEF CreditStep
<1> HIDE DEF step
<1>4. y = step[<<x, m>>]
  BY <1>2, ReachesAppend
<1>5. QED
  BY <1>3, <1>4 DEF x, y

LEMMA CreditsConcat ==
  ASSUME NEW q \in Seq(Message), NEW r \in Seq(Message), NEW vn, NEW vcs
  PROVE  /\ CreditsIn(q \o r, vn, vcs) = CreditsIn(q, vn, vcs) + CreditsIn(r, vn, vcs)
         /\ CreditsIn(q, vn, vcs) \in Nat /\ CreditsIn(r, vn, vcs) \in Nat
<1> DEFINE C(s) == CreditsIn(s, vn, vcs)
           T == {s \in Seq(Message) : C(q \o s) = C(q) + C(s)}
<1>1. \A s \in Seq(Message) : C(s) \in Nat
  BY CreditsReached
<1>2. <<>> \in T
  <2>1. C(<<>>) = 0 /\ q \o <<>> = q /\ <<>> \in Seq(Message)
    BY CreditsEmpty, ConcatEmptySeq, EmptySeq
  <2> HIDE DEF C
  <2>2. QED
    BY <1>1, <2>1
<1>3. ASSUME NEW s \in Seq(Message), NEW m \in Message, s \in T PROVE Append(s, m) \in T
  <2> DEFINE w == q \o s
  <2>1. /\ q \o Append(s, m) = Append(w, m) /\ w \in Seq(Message)
        /\ Append(s, m) \in Seq(Message)
    BY AddToLast, ConcatProperties, AppendProperties
  <2>2. C(Append(w, m)) = C(w) + Worth(m, vn, vcs)
    <3> HIDE DEF w
    <3>1. QED
      BY <2>1, CreditsAppend
  <2>3. C(Append(s, m)) = C(s) + Worth(m, vn, vcs)
    BY CreditsAppend
  <2>4. C(q \o s) = C(q) + C(s)
    BY <1>3
  <2>5. Worth(m, vn, vcs) \in Nat
    BY WorthType
  <2> HIDE DEF C
  <2>6. C(q \o Append(s, m)) = C(q) + C(Append(s, m))
    <3>1. C(q \o Append(s, m)) = (C(q) + C(s)) + Worth(m, vn, vcs)
      BY <2>1, <2>2, <2>4
    <3>2. C(q) \in Nat /\ C(s) \in Nat
      BY <1>1
    <3>3. QED
      BY <2>3, <2>5, <3>1, <3>2
  <2>7. QED
    BY <2>1, <2>6
<1>4. r \in T
  <2> HIDE DEF T
  <2>1. QED
    BY <1>2, <1>3, SeqInduction
<1>5. QED
  BY <1>1, <1>4

\* Messages that grant nothing, and a queue with one that does.
LEMMA CreditsOfNone ==
  ASSUME NEW vn, NEW vcs, NEW q \in Seq(Message),
         \A i \in 1 .. Len(q) : Worth(q[i], vn, vcs) = 0
  PROVE  CreditsIn(q, vn, vcs) = 0
<1> DEFINE T == {s \in Seq(Message) : (\A i \in 1 .. Len(s) : Worth(s[i], vn, vcs) = 0) =>
                                        CreditsIn(s, vn, vcs) = 0}
<1>1. <<>> \in T
  BY EmptySeq, CreditsEmpty
<1>2. ASSUME NEW s \in Seq(Message), NEW m \in Message, s \in T PROVE Append(s, m) \in T
  <2>1. /\ Append(s, m) \in Seq(Message) /\ Len(Append(s, m)) = Len(s) + 1 /\ Len(s) \in Nat
        /\ (\A i \in 1 .. Len(s) : Append(s, m)[i] = s[i]) /\ Append(s, m)[Len(s) + 1] = m
    BY AppendProperties, LenProperties
  <2> SUFFICES ASSUME \A i \in 1 .. Len(Append(s, m)) : Worth(Append(s, m)[i], vn, vcs) = 0
               PROVE  CreditsIn(Append(s, m), vn, vcs) = 0
    BY <2>1
  <2>2. Worth(m, vn, vcs) = 0
    <3>1. Len(s) + 1 \in 1 .. Len(Append(s, m))
      BY <2>1
    <3>2. QED
      BY <2>1, <3>1
  <2>3. \A i \in 1 .. Len(s) : Worth(s[i], vn, vcs) = 0
    <3>1. \A i \in 1 .. Len(s) : i \in 1 .. Len(Append(s, m))
      BY <2>1
    <3>2. QED
      BY <2>1, <3>1
  <2>4. CreditsIn(s, vn, vcs) = 0
    BY <1>2, <2>3
  <2>5. QED
    BY <2>2, <2>4, CreditsAppend
<1>3. q \in T
  <2> HIDE DEF T
  <2>1. QED
    BY <1>1, <1>2, SeqInduction
<1>4. QED
  BY <1>3

LEMMA CreditsOfOne ==
  ASSUME NEW vn, NEW vcs, NEW q \in Seq(Message), NEW j \in 1 .. Len(q),
         \A i \in 1 .. Len(q) : i # j => Worth(q[i], vn, vcs) = 0
  PROVE  CreditsIn(q, vn, vcs) = Worth(q[j], vn, vcs)
<1> DEFINE W(s, i) == Worth(s[i], vn, vcs)
           T == {s \in Seq(Message) : \A k \in 1 .. Len(s) :
                   (\A i \in 1 .. Len(s) : i # k => W(s, i) = 0) => CreditsIn(s, vn, vcs) = W(s, k)}
<1>1. <<>> \in T
  BY EmptySeq
<1>2. ASSUME NEW s \in Seq(Message), NEW m \in Message, s \in T PROVE Append(s, m) \in T
  <2> DEFINE w == Append(s, m)
             n == Len(s)
  <2>1. /\ w \in Seq(Message) /\ Len(w) = n + 1 /\ n \in Nat
        /\ (\A i \in 1 .. n : w[i] = s[i]) /\ w[n + 1] = m
    BY AppendProperties, LenProperties
  <2>2. CreditsIn(w, vn, vcs) = CreditsIn(s, vn, vcs) + Worth(m, vn, vcs)
    BY CreditsAppend
  <2>3. Worth(m, vn, vcs) \in Nat /\ CreditsIn(s, vn, vcs) \in Nat
        /\ \A i \in 1 .. n : W(s, i) \in Nat
    BY WorthType, CreditsReached, ElementOfSeq
  <2>4. \A i \in 1 .. n : W(w, i) = W(s, i)
    BY <2>1
  <2>5. W(w, n + 1) = Worth(m, vn, vcs)
    BY <2>1
  <2> HIDE DEF w, W
  <2> SUFFICES ASSUME NEW k \in 1 .. n + 1, \A i \in 1 .. n + 1 : i # k => W(w, i) = 0
               PROVE  CreditsIn(w, vn, vcs) = W(w, k)
    BY <2>1 DEF w
  <2>6. CASE k = n + 1
    <3>1. \A i \in 1 .. n : W(s, i) = 0
      BY <2>1, <2>4, <2>6
    <3>2. CreditsIn(s, vn, vcs) = 0
      BY <3>1, CreditsOfNone DEF W
    <3>3. QED
      BY <2>2, <2>3, <2>5, <2>6, <3>2
  <2>7. CASE k # n + 1
    <3>1. k \in 1 .. n /\ \A i \in 1 .. n : i # k => W(s, i) = 0
      BY <2>1, <2>4, <2>7
    <3>2. CreditsIn(s, vn, vcs) = W(s, k)
      BY <1>2, <3>1
    <3>3. W(w, n + 1) = 0
      BY <2>1, <2>7
    <3>4. QED
      BY <2>2, <2>3, <2>4, <2>5, <3>1, <3>2, <3>3
  <2>8. QED
    BY <2>6, <2>7
<1>3. q \in T
  <2> HIDE DEF T
  <2>1. QED
    BY <1>1, <1>2, SeqInduction
<1>4. QED
  BY <1>3

-----------------------------------------------------------------------------
(* The packets in a queue.                                                 *)

PacketStep == [xm \in Seq(UntimedData) \X Message |->
                 IF xm[2].type = "PACKET" THEN Append(xm[1], xm[2]) ELSE xm[1]]

LEMMA PacketStepType == PacketStep \in [Seq(UntimedData) \X Message -> Seq(UntimedData)]
<1>1. ASSUME NEW x \in Seq(UntimedData), NEW m \in Message
      PROVE  (IF m.type = "PACKET" THEN Append(x, m) ELSE x) \in Seq(UntimedData)
  BY MessageFacts, AppendProperties
<1>2. QED
  BY <1>1 DEF PacketStep

LEMMA PacketsReached ==
  ASSUME NEW queue \in Seq(Message)
  PROVE  /\ Reaches(queue, PacketStep, <<>>, Packets(queue))
         /\ Packets(queue) \in Seq(UntimedData)
<1> DEFINE N == Len(queue)
           S == Seq(UntimedData)
           Next_(i, x) == IF queue[i].type = "PACKET" THEN Append(x, queue[i]) ELSE x
           found == CHOOSE f : f = [i \in 0 .. N |->
                      IF i = 0 THEN <<>>
                      ELSE IF queue[i].type = "PACKET" THEN Append(f[i - 1], queue[i])
                      ELSE f[i - 1]]
<1>1. N \in Nat /\ \A i \in 1 .. N : queue[i] \in Message
  BY LenProperties, ElementOfSeq
<1>2. Packets(queue) = found[N]
  BY Zenon DEF Packets
<1>3. <<>> \in S
  BY EmptySeq
<1>4. \A x \in S, i \in 1 .. N : PacketStep[<<x, queue[i]>>] = Next_(i, x)
  BY <1>1 DEF PacketStep
<1>5. \A x \in S, i \in 1 .. N : Next_(i, x) \in S
  BY <1>1, MessageFacts, AppendProperties
<1> HIDE DEF S
<1>6. found = [i \in 0 .. N |-> IF i = 0 THEN <<>> ELSE Next_(i, found[i - 1])]
  <2> HIDE DEF Next_
  <2>1. PICK f \in [0 .. N -> S] : Rounds(f, queue, PacketStep, <<>>)
    BY <1>3, PacketStepType, RoundsExist DEF S
  <2>2. ASSUME NEW i \in 0 .. N
        PROVE  f[i] = IF i = 0 THEN <<>> ELSE Next_(i, f[i - 1])
    <3>1. CASE i = 0
      BY <2>1, <3>1 DEF Rounds
    <3>2. CASE i # 0
      <4>1. i \in 1 .. N /\ i - 1 \in 0 .. N
        BY <1>1, <3>2
      <4>2. f[i - 1] \in S
        BY <4>1
      <4>3. QED
        BY <1>4, <2>1, <3>2, <4>1, <4>2 DEF Rounds
    <3>3. QED
      BY <3>1, <3>2
  <2>3. f = [i \in 0 .. N |-> IF i = 0 THEN <<>> ELSE Next_(i, f[i - 1])]
    BY <2>2
  <2>4. QED
    BY <2>3 DEF Next_
<1> HIDE DEF found, Next_
<1>7. found[0] = <<>> /\ \A i \in 1 .. N : found[i] = Next_(i, found[i - 1])
  <2>1. 0 \in 0 .. N /\ \A i \in 1 .. N : i \in 0 .. N /\ i # 0
    BY <1>1
  <2>2. QED
    BY <1>6, <2>1
<1>8. \A n \in 0 .. N : found[n] \in S
  <2> DEFINE T == {n \in Nat : n <= N => found[n] \in S}
  <2>1. 0 \in T
    BY <1>3, <1>7
  <2>2. ASSUME NEW n \in Nat, n \in T PROVE n + 1 \in T
    <3> SUFFICES ASSUME n + 1 <= N PROVE found[n + 1] \in S
      OBVIOUS
    <3>1. n + 1 \in 1 .. N /\ n + 1 - 1 = n /\ found[n] \in S
      BY <1>1, <2>2
    <3>2. QED
      BY <1>5, <1>7, <3>1
  <2> HIDE DEF T
  <2>3. Nat \subseteq T
    BY <2>1, <2>2, SetInduction
  <2>4. QED
    BY <1>1, <2>3 DEF T
<1>9. Rounds(found, queue, PacketStep, <<>>)
  <2>1. ASSUME NEW i \in 1 .. N PROVE found[i] = PacketStep[<<found[i - 1], queue[i]>>]
    <3>1. i - 1 \in 0 .. N
      BY <1>1
    <3>2. found[i - 1] \in S
      BY <1>8, <3>1
    <3>3. QED
      BY <1>4, <1>7, <3>2
  <2>2. QED
    BY <1>7, <2>1 DEF Rounds
<1>10. QED
  BY <1>1, <1>2, <1>8, <1>9 DEF Reaches, S

LEMMA PacketsEmpty == Packets(<<>>) = <<>>
<1>1. <<>> \in Seq(Message)
  BY EmptySeq
<1>2. QED
  BY <1>1, PacketsReached, ReachesEmpty

LEMMA PacketsAppend ==
  ASSUME NEW queue \in Seq(Message), NEW m \in Message
  PROVE  Packets(Append(queue, m)) = IF m.type = "PACKET" THEN Append(Packets(queue), m)
                                     ELSE Packets(queue)
<1> DEFINE x == Packets(queue)
           y == Packets(Append(queue, m))
<1>1. Append(queue, m) \in Seq(Message)
  BY AppendProperties
<1>2. /\ Reaches(queue, PacketStep, <<>>, x) /\ x \in Seq(UntimedData)
      /\ Reaches(Append(queue, m), PacketStep, <<>>, y)
  BY <1>1, PacketsReached
<1> HIDE DEF x, y
<1>3. PacketStep[<<x, m>>] = IF m.type = "PACKET" THEN Append(x, m) ELSE x
  BY <1>2 DEF PacketStep
<1>4. y = PacketStep[<<x, m>>]
  BY <1>2, ReachesAppend
<1>5. QED
  BY <1>3, <1>4 DEF x, y

LEMMA PacketsConcat ==
  ASSUME NEW q \in Seq(Message), NEW r \in Seq(Message)
  PROVE  Packets(q \o r) = Packets(q) \o Packets(r)
<1> DEFINE T == {s \in Seq(Message) : Packets(q \o s) = Packets(q) \o Packets(s)}
<1>1. Packets(q) \in Seq(UntimedData)
  BY PacketsReached
<1>2. <<>> \in T
  <2>1. Packets(<<>>) = <<>> /\ q \o <<>> = q /\ Packets(q) \o <<>> = Packets(q)
    BY <1>1, PacketsEmpty, ConcatEmptySeq
  <2>2. QED
    BY <2>1, EmptySeq
<1>3. ASSUME NEW s \in Seq(Message), NEW m \in Message, s \in T PROVE Append(s, m) \in T
  <2> DEFINE w == q \o s
             a == Packets(q)
             b == Packets(s)
  <2>1. /\ q \o Append(s, m) = Append(w, m) /\ w \in Seq(Message)
        /\ Append(s, m) \in Seq(Message)
    BY AddToLast, ConcatProperties, AppendProperties
  <2>2. Packets(w) = a \o b
    BY <1>3
  <2>3. a \in Seq(UntimedData) /\ b \in Seq(UntimedData)
    BY PacketsReached
  <2>4. Packets(Append(s, m)) = IF m.type = "PACKET" THEN Append(b, m) ELSE b
    BY PacketsAppend
  <2> HIDE DEF w, a, b
  <2>5. Packets(Append(w, m)) = IF m.type = "PACKET" THEN Append(a \o b, m) ELSE a \o b
    BY <2>1, <2>2, PacketsAppend
  <2>6. m.type = "PACKET" => a \o Append(b, m) = Append(a \o b, m)
    BY <2>3, MessageFacts, AddToLast
  <2>7. Packets(q \o Append(s, m)) = a \o Packets(Append(s, m))
    BY <2>1, <2>4, <2>5, <2>6
  <2>8. QED
    BY <2>1, <2>7 DEF a
<1>4. r \in T
  <2> HIDE DEF T
  <2>1. QED
    BY <1>2, <1>3, SeqInduction
<1>5. QED
  BY <1>4

\* All of a queue of packets, and none of a queue without any.
LEMMA PacketsOfPackets ==
  ASSUME NEW q \in Seq(UntimedData)
  PROVE  q \in Seq(Message) /\ Packets(q) = q
<1> DEFINE T == {s \in Seq(UntimedData) : s \in Seq(Message) /\ Packets(s) = s}
<1>1. <<>> \in T
  BY EmptySeq, PacketsEmpty
<1>2. ASSUME NEW s \in Seq(UntimedData), NEW m \in UntimedData, s \in T PROVE Append(s, m) \in T
  <2>1. m \in Message /\ m.type = "PACKET"
    BY DEF Message, UntimedData
  <2>2. s \in Seq(Message) /\ Packets(s) = s
    BY <1>2
  <2>3. Append(s, m) \in Seq(Message) /\ Append(s, m) \in Seq(UntimedData)
    BY <2>1, <2>2, AppendProperties
  <2>4. Packets(Append(s, m)) = Append(s, m)
    BY <2>1, <2>2, PacketsAppend
  <2>5. QED
    BY <2>3, <2>4
<1>3. q \in T
  <2> HIDE DEF T
  <2>1. QED
    BY <1>1, <1>2, SeqInduction
<1>4. QED
  BY <1>3

LEMMA PacketsOfNone ==
  ASSUME NEW q \in Seq(Message), \A i \in 1 .. Len(q) : q[i].type # "PACKET"
  PROVE  Packets(q) = <<>>
<1> DEFINE T == {s \in Seq(Message) : (\A i \in 1 .. Len(s) : s[i].type # "PACKET") =>
                                        Packets(s) = <<>>}
<1>1. <<>> \in T
  BY EmptySeq, PacketsEmpty
<1>2. ASSUME NEW s \in Seq(Message), NEW m \in Message, s \in T PROVE Append(s, m) \in T
  <2>1. /\ Append(s, m) \in Seq(Message) /\ Len(Append(s, m)) = Len(s) + 1 /\ Len(s) \in Nat
        /\ (\A i \in 1 .. Len(s) : Append(s, m)[i] = s[i]) /\ Append(s, m)[Len(s) + 1] = m
    BY AppendProperties, LenProperties
  <2> SUFFICES ASSUME \A i \in 1 .. Len(Append(s, m)) : Append(s, m)[i].type # "PACKET"
               PROVE  Packets(Append(s, m)) = <<>>
    BY <2>1
  <2>2. m.type # "PACKET"
    <3>1. Len(s) + 1 \in 1 .. Len(Append(s, m))
      BY <2>1
    <3>2. QED
      BY <2>1, <3>1
  <2>3. \A i \in 1 .. Len(s) : s[i].type # "PACKET"
    <3>1. \A i \in 1 .. Len(s) : i \in 1 .. Len(Append(s, m))
      BY <2>1
    <3>2. QED
      BY <2>1, <3>1
  <2>4. Packets(s) = <<>>
    BY <1>2, <2>3
  <2>5. QED
    BY <2>2, <2>4, PacketsAppend
<1>3. q \in T
  <2> HIDE DEF T
  <2>1. QED
    BY <1>1, <1>2, SeqInduction
<1>4. QED
  BY <1>3

-----------------------------------------------------------------------------
(* What is said in each phase.                                             *)

\* A port grants each stream that the other side may send on once.
LEMMA GrantsFacts ==
  ASSUME NEW k \in 1 .. NumVcs, NEW c \in Nat
  PROVE  /\ Grants(k, c) \in Seq(Message) /\ Grants(k, c) # <<>>
         /\ \A i \in 1 .. Len(Grants(k, c)) : Grants(k, c)[i].type = "CREDIT"
         /\ \A vn \in VN, vcs \in SUBSET VC, vc \in 0 .. k - 1 :
              vcs \cap (0 .. k - 1) = {vc} => CreditsIn(Grants(k, c), vn, vcs) = c
         /\ \A vn \in VN, vcs \in SUBSET VC :
              vcs \cap (0 .. k - 1) = {} => CreditsIn(Grants(k, c), vn, vcs) = 0
<1> DEFINE g == Grants(k, c)
           N == NumVns * k
<1>1. NumVns \in Nat \ {0} /\ NumVcs \in Nat \ {0} /\ k \in Nat \ {0}
  BY SizeAssumption
<1>2. N \in Nat \ {0}
  BY <1>1
<1>3. g = [i \in 1 .. N |-> Credit((i - 1) \div k, (i - 1) % k, c)]
  BY DEF Grants
<1>4. \A i \in 1 .. N : (i - 1) \div k \in 0 .. NumVns - 1 /\ (i - 1) % k \in 0 .. k - 1
  <2> TAKE i \in 1 .. N
  <2> DEFINE a == i - 1
  <2>1. a \in 0 .. (NumVns * k) - 1
    BY <1>2
  <2> HIDE DEF a
  <2>2. a \div k \in 0 .. NumVns - 1 /\ a % k \in 0 .. k - 1
    BY <1>1, <2>1
  <2>3. QED
    BY <2>2 DEF a
<1> HIDE DEF g, N
<1>5. \A i \in 1 .. N : /\ g[i] \in CreditGrant
                        /\ g[i].type = "CREDIT" /\ g[i].credits = c
                        /\ g[i].vn = (i - 1) \div k /\ g[i].vc = (i - 1) % k
  <2> TAKE i \in 1 .. N
  <2> DEFINE d == (i - 1) \div k
             r == (i - 1) % k
  <2>1. d \in VN /\ r \in VC
    BY <1>1, <1>4 DEF VN, VC
  <2>2. g[i] = Credit(d, r, c)
    BY <1>3
  <2> HIDE DEF d, r
  <2>3. g[i] \in CreditGrant
    BY <2>1, <2>2 DEF Credit, CreditGrant
  <2>4. QED
    BY <2>2, <2>3 DEF Credit, d, r
<1>6. g \in Seq(Message) /\ Len(g) = N
  BY <1>2, <1>3, <1>5 DEF Message
<1>7. g # <<>>
  BY <1>2, <1>6
<1>8. ASSUME NEW vn \in VN, NEW vcs \in SUBSET VC, NEW vc \in 0 .. k - 1,
             vcs \cap (0 .. k - 1) = {vc}
      PROVE  CreditsIn(g, vn, vcs) = c
  <2> DEFINE j == (k * vn) + vc + 1
  <2>1. vn \in 0 .. NumVns - 1 /\ vc \in Nat /\ vn \in Nat
    BY DEF VN
  <2>2. k * vn <= k * (NumVns - 1)
    BY <1>1, <2>1
  <2>3. k * (NumVns - 1) = N - k
    BY <1>1 DEF N
  <2>4. k * vn \in Nat
    BY <1>1, <2>1
  <2>5. j \in 1 .. N /\ j - 1 = (k * vn) + vc
    BY <1>1, <1>2, <2>1, <2>2, <2>3, <2>4
  <2> HIDE DEF j
  <2>6. \A i \in 1 .. N : (i - 1) \div k = vn /\ (i - 1) % k = vc <=> i = j
    <3> TAKE i \in 1 .. N
    <3>1. i - 1 \in Nat /\ (i - 1 = j - 1 <=> i = j)
      BY <1>2, <2>5
    <3>2. (i - 1) \div k = vn /\ (i - 1) % k = vc <=> i - 1 = (k * vn) + vc
      BY <1>1, <2>1, <3>1, QuotientUnique
    <3>3. QED
      BY <2>5, <3>1, <3>2
  <2>7. \A i \in 1 .. N : (i - 1) % k \in vcs <=> (i - 1) % k = vc
    BY <1>4, <1>8
  <2>8. Worth(g[j], vn, vcs) = c
    BY <1>5, <2>5, <2>6, <2>7 DEF Worth
  <2>9. \A i \in 1 .. N : i # j => Worth(g[i], vn, vcs) = 0
    BY <1>5, <2>6, <2>7 DEF Worth
  <2>10. QED
    BY <1>6, <2>5, <2>8, <2>9, CreditsOfOne
<1>9. ASSUME NEW vn \in VN, NEW vcs \in SUBSET VC, vcs \cap (0 .. k - 1) = {}
      PROVE  CreditsIn(g, vn, vcs) = 0
  <2>1. \A i \in 1 .. N : Worth(g[i], vn, vcs) = 0
    BY <1>4, <1>5, <1>9 DEF Worth
  <2>2. QED
    BY <1>6, <2>1, CreditsOfNone
<1>10. QED
  BY <1>5, <1>6, <1>7, <1>8, <1>9 DEF g

\* A NIC grants one stream on each virtual network.
LEMMA NicGrantsFacts ==
  ASSUME NEW c \in Nat
  PROVE  LET g == [vn \in 1 .. NumVns |-> Credit(vn - 1, 0, c)]
         IN  /\ g \in Seq(Message) /\ g # <<>>
             /\ \A i \in 1 .. Len(g) : g[i].type = "CREDIT"
             /\ \A vn \in VN, vc \in VC :
                  CreditsIn(g, vn, {vc}) = IF vc = 0 THEN c ELSE 0
<1> DEFINE g == [vn \in 1 .. NumVns |-> Credit(vn - 1, 0, c)]
<1>1. NumVns \in Nat \ {0} /\ NumVcs \in Nat \ {0}
  BY SizeAssumption
<1>2. \A i \in 1 .. NumVns : g[i] = Credit(i - 1, 0, c) /\ g[i] \in CreditGrant
  BY <1>1 DEF Credit, CreditGrant, VN, VC
<1>3. g \in Seq(Message) /\ Len(g) = NumVns
  BY <1>1, <1>2 DEF Message
<1> HIDE DEF g
<1>4. ASSUME NEW vn \in VN, NEW vc \in VC
      PROVE  CreditsIn(g, vn, {vc}) = IF vc = 0 THEN c ELSE 0
  <2>1. ASSUME NEW i \in 1 .. NumVns
        PROVE  Worth(g[i], vn, {vc}) = IF i = vn + 1 /\ vc = 0 THEN c ELSE 0
    <3> DEFINE j == i - 1
    <3>0. g[i] = Credit(j, 0, c)
      BY <1>2
    <3> HIDE DEF j
    <3>1. /\ g[i].type = "CREDIT" /\ g[i].vn = j /\ g[i].vc = 0 /\ g[i].credits = c
      BY <3>0 DEF Credit
    <3>2. j = vn <=> i = vn + 1
      BY <1>1 DEF VN, j
    <3>3. QED
      BY <3>1, <3>2 DEF Worth
  <2>2. vn + 1 \in 1 .. NumVns
    BY <1>1 DEF VN
  <2>3. CreditsIn(g, vn, {vc}) = Worth(g[vn + 1], vn, {vc})
    BY <1>3, <2>1, <2>2, CreditsOfOne
  <2>4. QED
    BY <2>1, <2>2, <2>3
<1>6. g # <<>> /\ \A i \in 1 .. Len(g) : g[i].type = "CREDIT"
  BY <1>1, <1>2, <1>3 DEF Credit
<1>7. QED
  BY <1>3, <1>4, <1>6 DEF g

\* Nothing is granted in the first three phases, and no packet sent.
LEMMA GreetingFacts ==
  ASSUME NEW e \in End, NEW ph \in 0 .. 2
  PROVE  /\ SaidIn(ph, e) \in Seq(Message)
         /\ \A i \in 1 .. Len(SaidIn(ph, e)) : SaidIn(ph, e)[i] \in Greeting
         /\ \A vn, vcs : CreditsIn(SaidIn(ph, e), vn, vcs) = 0
<1> DEFINE s == SaidIn(ph, e)
<1>1. s \in Seq(Greeting)
  <2>1. /\ Tell("REPORT_ROUTER", None) \in Greeting /\ Tell("REPORT_ENDPOINT", None) \in Greeting
        /\ Tell("FLIT_WIDTH", None) \in Greeting
    BY DEF Tell, Greeting
  <2>2. Tell("NUM_VNS", NumVns) \in Greeting /\ Tell("NUM_VCS", NumVcs) \in Greeting
    BY DEF Tell, Greeting
  <2>3. \A p \in Port : /\ Tell("ROUTER_ID", RouterOf[p]) \in Greeting
                        /\ Tell("PORT_NUM", p) \in Greeting
    BY TopologyAssumption DEF Tell, Greeting
  <2>4. \A n \in Nic : Tell("ENDPOINT_ID", n) \in Greeting
    BY DEF Tell, Greeting
  <2>5. CASE ph = 0 /\ e \in Port
    <3>1. \A x, y, z \in Greeting : <<x, y, z>> \in Seq(Greeting)
      OBVIOUS
    <3>2. QED
      BY <2>1, <2>3, <2>5, <3>1 DEF SaidIn
  <2>6. CASE ph = 0 /\ e \notin Port
    <3>1. \A x \in Greeting : <<x>> \in Seq(Greeting)
      OBVIOUS
    <3>2. QED
      BY <2>1, <2>6, <3>1 DEF SaidIn
  <2>7. CASE ph # 0 /\ Peer[e] \notin Nic
    BY <2>7, EmptySeq DEF SaidIn
  <2>8. CASE ph = 1 /\ Peer[e] \in Nic
    <3>1. \A x, y, z \in Greeting : <<x, y, z>> \in Seq(Greeting)
      OBVIOUS
    <3>2. QED
      BY <2>1, <2>2, <2>8, <3>1 DEF SaidIn
  <2>9. CASE ph = 2 /\ Peer[e] \in Nic
    <3>1. \A x \in Greeting : <<x>> \in Seq(Greeting)
      OBVIOUS
    <3>2. QED
      BY <2>4, <2>9, <3>1 DEF SaidIn
  <2>10. QED
    BY <2>5, <2>6, <2>7, <2>8, <2>9
<1> HIDE DEF s
<1>2. \A i \in 1 .. Len(s) : s[i] \in Greeting /\ s[i] \in Message
  BY <1>1, ElementOfSeq DEF Message
<1>3. s \in Seq(Message)
  BY <1>1, <1>2, SeqDef
<1>4. ASSUME NEW vn, NEW vcs PROVE CreditsIn(s, vn, vcs) = 0
  <2>1. \A i \in 1 .. Len(s) : Worth(s[i], vn, vcs) = 0
    BY <1>2 DEF Greeting, Worth
  <2>2. QED
    BY <1>3, <2>1, CreditsOfNone
<1>5. QED
  BY <1>2, <1>3, <1>4 DEF s

-----------------------------------------------------------------------------
(* What a call changes on the links.                                       *)

LEMMA EndFacts ==
  /\ \A e \in End : /\ Peer[e] \in End /\ Peer[Peer[e]] = e
                    /\ \A d \in End : d = Peer[e] <=> Peer[d] = e
                    /\ e \in Nic <=> e \notin Port
  /\ \A n \in Nic : n \in End /\ Peer[n] \in Port
  /\ \A p \in Port : p \in End
  /\ \A p \in Port, n \in Nic : p # n
BY LinkAssumption DEF End

LEMMA SendFacts ==
  ASSUME departing \in [End -> Seq(Message)], NEW e \in End, NEW ms \in Seq(Message), Send(e, ms)
  PROVE  /\ departing' \in [End -> Seq(Message)]
         /\ \A d \in End : departing'[d] = IF Peer[d] = e THEN departing[d] \o ms ELSE departing[d]
<1>1. \A d \in End : departing'[d] = IF Peer[d] = e THEN departing[d] \o ms ELSE departing[d]
  BY EndFacts DEF Send
<1>2. \A d \in End : departing[d] \in Seq(Message) /\ departing[d] \o ms \in Seq(Message)
  BY ConcatProperties
<1>3. departing' = [d \in End |-> departing'[d]]
  BY DEF Send
<1>4. \A d \in End : departing'[d] \in Seq(Message)
  BY <1>1, <1>2
<1>5. QED
  BY <1>1, <1>3, <1>4

LEMMA TakesAll ==
  ASSUME arrived \in [End -> Seq(Message)], NEW e \in End, NEW commands,
         Len(commands) = Len(arrived[e]), Takes(e, commands)
  PROVE  /\ arrived' \in [End -> Seq(Message)]
         /\ \A d \in End : arrived'[d] = IF d = e THEN <<>> ELSE arrived[d]
<1> DEFINE n == Len(arrived[e])
<1>1. n \in Nat
  BY LenProperties
<1>2. SubSeq(arrived[e], n + 1, n) = <<>>
  BY <1>1
<1>3. arrived' = [arrived EXCEPT ![e] = <<>>]
  BY <1>2 DEF Takes
<1>4. <<>> \in Seq(Message)
  BY EmptySeq
<1>5. QED
  BY <1>3, <1>4

\* In its turn in one of the first phases e has read all that has arrived and sent ms.
Turn(e, ms) ==
  /\ e \in End /\ e \notin called /\ phase < 4
  /\ stage' = stage /\ phase' = phase /\ called' = called \cup {e}
  /\ arrived' \in [End -> Seq(Message)]
  /\ \A d \in End : arrived'[d] = IF d = e THEN <<>> ELSE arrived[d]
  /\ departing' \in [End -> Seq(Message)]
  /\ \A d \in End : departing'[d] = IF Peer[d] = e THEN departing[d] \o ms ELSE departing[d]
  /\ destCredits' = destCredits /\ rtrCredits' = rtrCredits
  /\ portEvents' = portEvents /\ nicEvents' = nicEvents
  /\ plan' = plan /\ numSent' = numSent

\* What e has to say in this phase.
Due(e, ms) ==
  /\ ms \in Seq(Message)
  /\ phase < 3 => ms = SaidIn(phase, e)
  /\ phase = 3 =>
       /\ ms # <<>>
       /\ \A u \in PortUnit : u[1] = Peer[e] => CreditsIn(ms, u[2], {u[3]}) = LinkCredits(u)
       /\ \A x \in NicVn : x[1] = Peer[e] =>
            CreditsIn(ms, x[2], VC) = LinkCredits(<<x[1], x[2], 0>>)

LEMMA TurnHeeded ==
  ASSUME InitInv, NEW e, NEW ms, Turn(e, ms), Due(e, ms)
  PROVE  Heeded'
<1> SUFFICES ASSUME NEW d \in End
             PROVE  /\ phase < 4 => arrived'[d] = IF phase = 0 \/ d \in called' THEN <<>>
                                                  ELSE SaidIn(phase - 1, Peer[d])
                    /\ phase < 3 => departing'[d] = IF Peer[d] \in called' THEN SaidIn(phase, Peer[d])
                                                    ELSE <<>>
                    /\ phase = 3 /\ Peer[d] \in called' => departing'[d] # <<>>
  BY DEF Heeded, Turn, SaidIn
<1>1. /\ phase < 4 => arrived[d] = IF phase = 0 \/ d \in called THEN <<>>
                                   ELSE SaidIn(phase - 1, Peer[d])
      /\ phase < 3 => departing[d] = IF Peer[d] \in called THEN SaidIn(phase, Peer[d]) ELSE <<>>
      /\ phase = 3 /\ Peer[d] \in called => departing[d] # <<>>
  BY DEF InitInv, Heeded
<1>2. phase < 4 => arrived'[d] = IF phase = 0 \/ d \in called' THEN <<>>
                                 ELSE SaidIn(phase - 1, Peer[d])
  BY <1>1 DEF Turn
<1>3. ASSUME phase < 3
      PROVE  departing'[d] = IF Peer[d] \in called' THEN SaidIn(phase, Peer[d]) ELSE <<>>
  <2>1. CASE Peer[d] = e
    <3>1. departing[d] = <<>> /\ departing'[d] = departing[d] \o ms /\ ms \in Seq(Message)
      BY <1>1, <1>3, <2>1 DEF Turn, Due
    <3>2. departing'[d] = ms
      BY <3>1, ConcatEmptySeq
    <3>3. QED
      BY <1>3, <2>1, <3>2 DEF Turn, Due
  <2>2. CASE Peer[d] # e
    BY <1>1, <1>3, <2>2 DEF Turn
  <2>3. QED
    BY <2>1, <2>2
<1>4. ASSUME phase = 3, Peer[d] \in called'
      PROVE  departing'[d] # <<>>
  <2>1. CASE Peer[d] = e
    <3>1. /\ departing[d] \in Seq(Message) /\ departing'[d] = departing[d] \o ms
          /\ ms \in Seq(Message) /\ ms # <<>>
      BY <1>4, <2>1 DEF Turn, Due, InitInv, Typed
    <3>2. Len(departing[d] \o ms) = Len(departing[d]) + Len(ms) /\ Len(departing[d]) \in Nat
          /\ Len(ms) \in Nat \ {0}
      BY <3>1, ConcatProperties, LenProperties, EmptySeq
    <3>3. QED
      BY <3>1, <3>2, EmptySeq
  <2>2. CASE Peer[d] # e
    BY <1>1, <1>4, <2>2 DEF Turn
  <2>3. QED
    BY <2>1, <2>2
<1>5. QED
  BY <1>2, <1>3, <1>4

\* The credits in the queues of an end after a turn.
LEMMA TurnCredits ==
  ASSUME InitInv, NEW e, NEW ms, Turn(e, ms), Due(e, ms), NEW d \in End, NEW vn, NEW vcs
  PROVE  /\ CreditsIn(arrived'[d], vn, vcs) = CreditsIn(arrived[d], vn, vcs)
         /\ CreditsIn(departing'[d], vn, vcs)
              = CreditsIn(departing[d], vn, vcs)
                + (IF Peer[d] = e THEN CreditsIn(ms, vn, vcs) ELSE 0)
         /\ CreditsIn(departing[d], vn, vcs) \in Nat /\ CreditsIn(arrived[d], vn, vcs) \in Nat
         /\ phase < 3 => CreditsIn(ms, vn, vcs) = 0
<1>1. arrived[d] \in Seq(Message) /\ departing[d] \in Seq(Message) /\ ms \in Seq(Message)
      /\ phase \in 0 .. 4 /\ e \in End /\ phase < 4
  BY DEF InitInv, Typed, Due, Turn
<1>2. CreditsIn(arrived'[d], vn, vcs) = CreditsIn(arrived[d], vn, vcs)
  <2>1. CASE d # e
    BY <2>1 DEF Turn
  <2>2. CASE d = e
    <3>1. arrived'[d] = <<>>
      BY <2>2 DEF Turn
    <3>2. arrived[d] = <<>> \/ (phase - 1 \in 0 .. 2 /\ arrived[d] = SaidIn(phase - 1, Peer[d]))
      BY <1>1 DEF InitInv, Heeded
    <3>3. CreditsIn(arrived[d], vn, vcs) = 0
      BY <3>2, GreetingFacts, EndFacts, CreditsEmpty
    <3>4. QED
      BY <3>1, <3>3, CreditsEmpty
  <2>3. QED
    BY <2>1, <2>2
<1>3. /\ CreditsIn(departing[d], vn, vcs) \in Nat /\ CreditsIn(arrived[d], vn, vcs) \in Nat
      /\ CreditsIn(departing[d] \o ms, vn, vcs)
           = CreditsIn(departing[d], vn, vcs) + CreditsIn(ms, vn, vcs)
  BY <1>1, CreditsConcat, CreditsReached
<1>4. departing'[d] = IF Peer[d] = e THEN departing[d] \o ms ELSE departing[d]
  BY DEF Turn
<1>5. phase < 3 => CreditsIn(ms, vn, vcs) = 0
  <2>1. phase < 3 => phase \in 0 .. 2 /\ ms = SaidIn(phase, e)
    BY <1>1 DEF Due
  <2>2. QED
    BY <1>1, <2>1, GreetingFacts
<1>6. QED
  BY <1>2, <1>3, <1>4, <1>5

LEMMA LinkCreditsType ==
  /\ \A u \in PortUnit : LinkCredits(u) \in Nat
  /\ \A x \in NicVn : LinkCredits(<<x[1], x[2], 0>>) \in Nat
BY SizeAssumption, EndFacts DEF LinkCredits, PortUnit, NicVn

LEMMA TurnCounted ==
  ASSUME InitInv, NEW e, NEW ms, Turn(e, ms), Due(e, ms)
  PROVE  Counted'
<1>1. /\ e \in End /\ e \notin called /\ phase \in 0 .. 4 /\ phase < 4 /\ phase' = phase
      /\ called' = called \cup {e}
  BY DEF Turn, InitInv, Typed
<1>2. ~Had(3, e) /\ (Had(3, e)' <=> phase = 3) /\ \A d : d # e => (Had(3, d)' <=> Had(3, d))
  BY <1>1 DEF Had
<1>3. ASSUME NEW u \in PortUnit
      PROVE  destCredits'[u] + CreditsIn(arrived'[u[1]], u[2], {u[3]})
                             + CreditsIn(departing'[u[1]], u[2], {u[3]})
               = IF Had(3, Peer[u[1]])' THEN LinkCredits(u) ELSE 0
  <2> DEFINE d == u[1]
             A == CreditsIn(arrived[d], u[2], {u[3]})
             D == CreditsIn(departing[d], u[2], {u[3]})
             G == CreditsIn(ms, u[2], {u[3]})
             L == LinkCredits(u)
  <2>1. d \in End /\ (d = Peer[e] <=> Peer[d] = e) /\ destCredits[u] \in Nat
    BY <1>1, EndFacts DEF PortUnit, InitInv, Typed
  <2>2. /\ destCredits[u] + A + D = IF Had(3, Peer[d]) THEN L ELSE 0
        /\ destCredits'[u] = destCredits[u]
    BY DEF InitInv, Counted, Turn
  <2>3. /\ CreditsIn(arrived'[d], u[2], {u[3]}) = A
        /\ CreditsIn(departing'[d], u[2], {u[3]}) = D + (IF Peer[d] = e THEN G ELSE 0)
        /\ D \in Nat /\ A \in Nat /\ (phase < 3 => G = 0)
    BY <2>1, TurnCredits
  <2>4. L \in Nat /\ (phase = 3 /\ Peer[d] = e => G = L)
    BY <2>1, LinkCreditsType DEF Due
  <2> HIDE DEF A, D, G, L
  <2>5. CASE Peer[d] = e /\ phase = 3
    BY <1>2, <2>1, <2>2, <2>3, <2>4, <2>5 DEF L
  <2>6. CASE Peer[d] = e /\ phase < 3
    BY <1>2, <2>1, <2>2, <2>3, <2>6
  <2>7. CASE Peer[d] # e
    BY <1>2, <2>1, <2>2, <2>3, <2>7 DEF L
  <2>8. QED
    BY <1>1, <2>5, <2>6, <2>7
<1>4. ASSUME NEW x \in NicVn
      PROVE  rtrCredits'[x] + CreditsIn(arrived'[x[1]], x[2], VC)
                            + CreditsIn(departing'[x[1]], x[2], VC)
               = IF Had(3, Peer[x[1]])' THEN LinkCredits(<<x[1], x[2], 0>>) ELSE 0
  <2> DEFINE d == x[1]
             A == CreditsIn(arrived[d], x[2], VC)
             D == CreditsIn(departing[d], x[2], VC)
             G == CreditsIn(ms, x[2], VC)
             L == LinkCredits(<<x[1], x[2], 0>>)
  <2>1. d \in End /\ (d = Peer[e] <=> Peer[d] = e) /\ rtrCredits[x] \in Nat
    BY <1>1, EndFacts DEF NicVn, InitInv, Typed
  <2>2. /\ rtrCredits[x] + A + D = IF Had(3, Peer[d]) THEN L ELSE 0
        /\ rtrCredits'[x] = rtrCredits[x]
    BY DEF InitInv, Counted, Turn
  <2>3. /\ CreditsIn(arrived'[d], x[2], VC) = A
        /\ CreditsIn(departing'[d], x[2], VC) = D + (IF Peer[d] = e THEN G ELSE 0)
        /\ D \in Nat /\ A \in Nat /\ (phase < 3 => G = 0)
    BY <2>1, TurnCredits
  <2>4. L \in Nat /\ (phase = 3 /\ Peer[d] = e => G = L)
    BY <2>1, LinkCreditsType DEF Due
  <2> HIDE DEF A, D, G, L
  <2>5. CASE Peer[d] = e /\ phase = 3
    BY <1>2, <2>1, <2>2, <2>3, <2>4, <2>5 DEF L
  <2>6. CASE Peer[d] = e /\ phase < 3
    BY <1>2, <2>1, <2>2, <2>3, <2>6
  <2>7. CASE Peer[d] # e
    BY <1>2, <2>1, <2>2, <2>3, <2>7 DEF L
  <2>8. QED
    BY <1>1, <2>5, <2>6, <2>7
<1>5. QED
  BY <1>3, <1>4 DEF Counted, LinkCredits

LEMMA TurnSettled ==
  ASSUME InitInv, NEW e, NEW ms, Turn(e, ms)
  PROVE  Settled'
BY DEF InitInv, Typed, Settled, Turn

\* What a turn leaves alone.
LEMMA TurnInv ==
  ASSUME InitInv, NEW e, NEW ms, Turn(e, ms), Due(e, ms), Typed', Learned'
  PROVE  InitInv'
BY TurnHeeded, TurnCounted, TurnSettled DEF InitInv

-----------------------------------------------------------------------------
(* The turns of the ports.                                                 *)

\* In phase 1 a port or NIC finds what the other end has said in phase 0.
LEMMA Reported ==
  ASSUME InitInv, phase = 1, NEW e \in End, e \notin called
  PROVE  /\ Peer[e] \in Port => /\ Len(arrived[e]) = 3 /\ arrived[e][1].type = "REPORT_ROUTER"
                                /\ arrived[e][2].type = "ROUTER_ID"
                                /\ arrived[e][2].value = RouterOf[Peer[e]]
                                /\ arrived[e][3].type = "PORT_NUM"
                                /\ arrived[e][3].value = Peer[e]
         /\ Peer[e] \notin Port => Len(arrived[e]) = 1 /\ arrived[e][1].type = "REPORT_ENDPOINT"
<1>1. arrived[e] = SaidIn(0, Peer[e])
  BY DEF InitInv, Heeded
<1>2. CASE Peer[e] \in Port
  <2> DEFINE a == Tell("REPORT_ROUTER", None)
             b == Tell("ROUTER_ID", RouterOf[Peer[e]])
             c == Tell("PORT_NUM", Peer[e])
  <2>1. arrived[e] = <<a, b, c>>
    BY <1>1, <1>2 DEF SaidIn
  <2>2. /\ a.type = "REPORT_ROUTER" /\ b.type = "ROUTER_ID" /\ b.value = RouterOf[Peer[e]]
        /\ c.type = "PORT_NUM" /\ c.value = Peer[e]
    BY DEF Tell
  <2> HIDE DEF a, b, c
  <2>3. QED
    BY <1>2, <2>1, <2>2
<1>3. CASE Peer[e] \notin Port
  <2> DEFINE a == Tell("REPORT_ENDPOINT", None)
  <2>1. arrived[e] = <<a>>
    BY <1>1, <1>3 DEF SaidIn
  <2>2. a.type = "REPORT_ENDPOINT"
    BY DEF Tell
  <2> HIDE DEF a
  <2>3. QED
    BY <1>3, <2>1, <2>2
<1>4. QED
  BY <1>2, <1>3

\* Nothing has arrived for a port in the next two.
LEMMA NothingForPorts ==
  ASSUME InitInv, phase \in {0, 2, 3}, NEW p \in Port
  PROVE  arrived[p] = <<>>
<1>1. p \in End /\ Peer[p] \in End /\ Peer[Peer[p]] = p /\ p \notin Nic
  BY EndFacts
<1>2. phase \in {2, 3} => SaidIn(phase - 1, Peer[p]) = <<>>
  BY <1>1 DEF SaidIn
<1>3. QED
  BY <1>1, <1>2 DEF InitInv, Heeded

LEMMA PortReportsInv ==
  ASSUME InitInv, NEW p \in Port, p \notin called, called' = called \cup {p},
         PortReports(p), UNCHANGED <<stage, phase, nicVars, epVars>>
  PROVE  InitInv'
<1> DEFINE ms == <<Tell("REPORT_ROUTER", None), Tell("ROUTER_ID", RouterOf[p]), Tell("PORT_NUM", p)>>
<1>1. p \in End /\ phase = 0 /\ Send(p, ms) /\ arrived' = arrived /\ UNCHANGED portVars
  BY EndFacts DEF PortReports
<1>2. ms = SaidIn(0, p)
  BY DEF SaidIn
<1> HIDE DEF ms
<1>3. ms \in Seq(Message)
  BY <1>1, <1>2, GreetingFacts
<1>4. arrived[p] = <<>>
  BY <1>1, NothingForPorts
<1>5. Turn(p, ms)
  <2>1. /\ departing' \in [End -> Seq(Message)]
        /\ \A d \in End : departing'[d] = IF Peer[d] = p THEN departing[d] \o ms ELSE departing[d]
    BY <1>1, <1>3, SendFacts DEF InitInv, Typed
  <2>2. QED
    BY <1>1, <1>4, <2>1 DEF Turn, InitInv, Typed, portVars, nicVars, epVars
<1>6. Due(p, ms)
  BY <1>1, <1>2, <1>3 DEF Due
<1>7. Typed'
  BY <1>1, <1>5 DEF InitInv, Typed, Turn, portVars, nicVars, epVars
<1>8. Learned'
  BY <1>1, <1>5 DEF InitInv, Learned, PortLearned, NicLearned, Had, Turn, portVars, nicVars
<1>9. QED
  BY <1>5, <1>6, <1>7, <1>8, TurnInv

LEMMA SaysNothing ==
  ASSUME InitInv, NEW e, departing' = departing
  PROVE  /\ departing' \in [End -> Seq(Message)]
         /\ \A d \in End : departing'[d] = IF Peer[d] = e THEN departing[d] \o <<>> ELSE departing[d]
<1>1. \A d \in End : departing[d] \o <<>> = departing[d]
  BY ConcatEmptySeq DEF InitInv, Typed
<1>2. QED
  BY <1>1 DEF InitInv, Typed

LEMMA PortMeetsRouterInv ==
  ASSUME InitInv, NEW p \in Port, p \notin called, called' = called \cup {p},
         PortMeetsRouter(p), UNCHANGED <<stage, phase, nicVars, epVars>>
  PROVE  InitInv'
<1>1. /\ p \in End /\ phase = 1 /\ Takes(p, FromRouter) /\ departing' = departing
      /\ Len(FromRouter) = 3 /\ Len(FromRouter) <= Len(arrived[p])
  <2>1. Len(FromRouter) = 3
    BY DEF FromRouter
  <2>2. QED
    BY <2>1, EndFacts DEF PortMeetsRouter, Finds
<1>2. /\ Peer[p] \in Port /\ Len(arrived[p]) = 3
      /\ arrived[p][2].value = RouterOf[Peer[p]] /\ arrived[p][3].value = Peer[p]
  <2>1. Len(arrived[p]) # 1
    BY <1>1
  <2>2. QED
    BY <1>1, <2>1, Reported
<1>3. /\ connectionType' = [connectionType EXCEPT ![p] = "ROUTER"]
      /\ connectedRtrId' = [connectedRtrId EXCEPT ![p] = RouterOf[Peer[p]]]
      /\ connectedPortId' = [connectedPortId EXCEPT ![p] = Peer[p]]
      /\ UNCHANGED <<destCredits, portEvents, perPortConnectedRtr>>
  BY <1>2 DEF PortMeetsRouter, Told
<1>4. Turn(p, <<>>)
  <2>1. /\ arrived' \in [End -> Seq(Message)]
        /\ \A d \in End : arrived'[d] = IF d = p THEN <<>> ELSE arrived[d]
    BY <1>1, <1>2, TakesAll DEF InitInv, Typed
  <2>2. QED
    BY <1>1, <1>3, <2>1, SaysNothing DEF Turn, InitInv, Typed, nicVars, epVars
<1>5. Due(p, <<>>)
  BY <1>1, <1>2, EndFacts, EmptySeq DEF Due, SaidIn
<1>6. RouterOf[Peer[p]] \in Router
  BY <1>2, TopologyAssumption
<1>7. Typed'
  <2>1. /\ connectionType' \in [Port -> {"UNKNOWN", "ROUTER", "ENDPOINT"}]
        /\ connectedRtrId' \in [Port -> Router \cup {None, "ENDPOINT"}]
        /\ connectedPortId' \in [Port -> Port \cup {None}]
    BY <1>2, <1>3, <1>6 DEF InitInv, Typed
  <2>2. QED
    BY <1>1, <1>3, <1>4, <2>1 DEF InitInv, Typed, Turn, nicVars, epVars
<1>8. Learned'
  <2>1. ASSUME NEW q \in Port
        PROVE  PortLearned(q)' /\ perPortConnectedRtr'[q] = IF Had(2, q)' THEN connectedRtrId'[q] ELSE None
    <3>1. PortLearned(q) /\ perPortConnectedRtr[q] = None
      BY <1>1 DEF InitInv, Learned, Had
    <3>2. CASE q = p
      BY <1>1, <1>2, <1>3, <1>4, <3>1, <3>2 DEF PortLearned, Had, Turn, InitInv, Typed
    <3>3. CASE q # p
      BY <1>1, <1>3, <1>4, <3>1, <3>3 DEF PortLearned, Had, Turn
    <3>4. QED
      BY <3>2, <3>3
  <2>2. ASSUME NEW n \in Nic PROVE NicLearned(n)'
    <3>1. NicLearned(n) /\ n # p
      BY EndFacts DEF InitInv, Learned
    <3>2. QED
      BY <1>1, <1>4, <3>1 DEF NicLearned, Had, Turn, nicVars
  <2>3. QED
    BY <2>1, <2>2 DEF Learned
<1>9. QED
  BY <1>4, <1>5, <1>7, <1>8, TurnInv

LEMMA PortMeetsEndpointInv ==
  ASSUME InitInv, NEW p \in Port, p \notin called, called' = called \cup {p},
         PortMeetsEndpoint(p), UNCHANGED <<stage, phase, nicVars, epVars>>
  PROVE  InitInv'
<1> DEFINE ms == <<Tell("NUM_VNS", NumVns), Tell("NUM_VCS", NumVcs), Tell("FLIT_WIDTH", None)>>
<1>1. /\ p \in End /\ phase = 1 /\ Takes(p, FromEndpoint) /\ Send(p, ms)
      /\ Len(FromEndpoint) = 1 /\ arrived[p][1].type = "REPORT_ENDPOINT"
      /\ connectionType' = [connectionType EXCEPT ![p] = "ENDPOINT"]
      /\ connectedRtrId' = [connectedRtrId EXCEPT ![p] = "ENDPOINT"]
      /\ UNCHANGED <<connectedPortId, destCredits, portEvents, perPortConnectedRtr>>
  BY EndFacts DEF PortMeetsEndpoint, Finds, FromEndpoint
<1>2. Peer[p] \notin Port /\ Len(arrived[p]) = 1
  BY <1>1, Reported DEF Tell
<1>3. Peer[p] \in Nic /\ ms = SaidIn(1, p)
  BY <1>2, EndFacts DEF SaidIn
<1> HIDE DEF ms
<1>4. ms \in Seq(Message)
  BY <1>1, <1>3, GreetingFacts
<1>5. Turn(p, ms)
  <2>1. /\ departing' \in [End -> Seq(Message)]
        /\ \A d \in End : departing'[d] = IF Peer[d] = p THEN departing[d] \o ms ELSE departing[d]
    BY <1>1, <1>4, SendFacts DEF InitInv, Typed
  <2>2. /\ arrived' \in [End -> Seq(Message)]
        /\ \A d \in End : arrived'[d] = IF d = p THEN <<>> ELSE arrived[d]
    BY <1>1, <1>2, TakesAll DEF InitInv, Typed
  <2>3. QED
    BY <1>1, <2>1, <2>2 DEF Turn, InitInv, Typed, nicVars, epVars
<1>6. Due(p, ms)
  BY <1>1, <1>3, <1>4 DEF Due
<1>7. Typed'
  <2>1. /\ connectionType' \in [Port -> {"UNKNOWN", "ROUTER", "ENDPOINT"}]
        /\ connectedRtrId' \in [Port -> Router \cup {None, "ENDPOINT"}]
    BY <1>1 DEF InitInv, Typed
  <2>2. QED
    BY <1>1, <1>5, <2>1 DEF InitInv, Typed, Turn, nicVars, epVars
<1>8. Learned'
  <2>1. ASSUME NEW q \in Port
        PROVE  PortLearned(q)' /\ perPortConnectedRtr'[q] = IF Had(2, q)' THEN connectedRtrId'[q] ELSE None
    <3>1. PortLearned(q) /\ perPortConnectedRtr[q] = None
      BY <1>1 DEF InitInv, Learned, Had
    <3>2. CASE q = p
      BY <1>1, <1>2, <1>5, <3>1, <3>2 DEF PortLearned, Had, Turn, InitInv, Typed
    <3>3. CASE q # p
      BY <1>1, <1>5, <3>1, <3>3 DEF PortLearned, Had, Turn
    <3>4. QED
      BY <3>2, <3>3
  <2>2. ASSUME NEW n \in Nic PROVE NicLearned(n)'
    <3>1. NicLearned(n) /\ n # p
      BY EndFacts DEF InitInv, Learned
    <3>2. QED
      BY <1>1, <1>5, <3>1 DEF NicLearned, Had, Turn, nicVars
  <2>3. QED
    BY <2>1, <2>2 DEF Learned
<1>9. QED
  BY <1>5, <1>6, <1>7, <1>8, TurnInv

LEMMA PortNamesInv ==
  ASSUME InitInv, NEW p \in Port, p \notin called, called' = called \cup {p},
         PortNames(p), UNCHANGED <<stage, phase, nicVars, epVars>>
  PROVE  InitInv'
<1> DEFINE ms == SaidIn(2, p)
<1>1. /\ p \in End /\ phase = 2 /\ arrived' = arrived /\ PortLearned(p) /\ Had(1, p)
      /\ perPortConnectedRtr' = [perPortConnectedRtr EXCEPT ![p] = connectedRtrId[p]]
      /\ UNCHANGED <<connectionType, connectedRtrId, connectedPortId, destCredits, portEvents>>
  BY EndFacts DEF PortNames, InitInv, Learned, Had
<1>2. ms \in Seq(Message) /\ arrived[p] = <<>>
  BY <1>1, GreetingFacts, NothingForPorts
<1>3. /\ departing' \in [End -> Seq(Message)]
      /\ \A d \in End : departing'[d] = IF Peer[d] = p THEN departing[d] \o ms ELSE departing[d]
  <2>1. CASE Peer[p] \in Port
    <3>1. connectionType[p] # "ENDPOINT" /\ Peer[p] \notin Nic
      BY <1>1, <2>1, EndFacts DEF PortLearned
    <3>2. departing' = departing /\ ms = <<>>
      BY <3>1 DEF PortNames, SaidIn
    <3>3. QED
      BY <3>2, SaysNothing
  <2>2. CASE Peer[p] \notin Port
    <3>1. connectionType[p] = "ENDPOINT" /\ Peer[p] \in Nic
      BY <1>1, <2>2, EndFacts DEF PortLearned
    <3>2. Send(p, ms)
      BY <3>1 DEF PortNames, SaidIn
    <3>3. QED
      BY <1>1, <1>2, <3>2, SendFacts DEF InitInv, Typed
  <2>3. QED
    BY <2>1, <2>2
<1> HIDE DEF ms
<1>4. Turn(p, ms)
  BY <1>1, <1>2, <1>3 DEF Turn, InitInv, Typed, nicVars, epVars
<1>5. Due(p, ms)
  BY <1>1, <1>2 DEF Due, ms
<1>6. Typed'
  <2>1. perPortConnectedRtr' \in [Port -> Router \cup {None, "ENDPOINT"}]
    BY <1>1 DEF InitInv, Typed
  <2>2. QED
    BY <1>1, <1>4, <2>1 DEF InitInv, Typed, Turn, nicVars, epVars
<1>7. Learned'
  <2>1. ASSUME NEW q \in Port
        PROVE  PortLearned(q)' /\ perPortConnectedRtr'[q] = IF Had(2, q)' THEN connectedRtrId'[q] ELSE None
    <3>1. PortLearned(q) /\ perPortConnectedRtr[q] = IF Had(2, q) THEN connectedRtrId[q] ELSE None
      BY DEF InitInv, Learned
    <3>2. PortLearned(q)'
      BY <1>1, <1>4, <3>1 DEF PortLearned, Had, Turn
    <3>3. CASE q = p
      BY <1>1, <1>4, <3>2, <3>3 DEF Had, Turn, InitInv, Typed
    <3>4. CASE q # p
      BY <1>1, <1>4, <3>1, <3>2, <3>4 DEF Had, Turn
    <3>5. QED
      BY <3>3, <3>4
  <2>2. ASSUME NEW n \in Nic PROVE NicLearned(n)'
    <3>1. NicLearned(n) /\ n # p
      BY EndFacts DEF InitInv, Learned
    <3>2. QED
      BY <1>1, <1>4, <3>1 DEF NicLearned, Had, Turn, nicVars
  <2>3. QED
    BY <2>1, <2>2 DEF Learned
<1>8. QED
  BY <1>4, <1>5, <1>6, <1>7, TurnInv

LEMMA PortGrantsInv ==
  ASSUME InitInv, NEW p \in Port, p \notin called, called' = called \cup {p},
         PortGrants(p), UNCHANGED <<stage, phase, nicVars, epVars>>
  PROVE  InitInv'
<1> DEFINE k == IF connectionType[p] = "ROUTER" THEN NumVcs ELSE 1
           ms == Grants(k, InCap[p])
<1>1. p \in End /\ phase = 3 /\ Send(p, ms) /\ arrived' = arrived /\ UNCHANGED portVars
  BY EndFacts DEF PortGrants
<1>2. /\ k \in 1 .. NumVcs /\ InCap[p] \in Nat /\ arrived[p] = <<>> /\ NumVcs \in Nat \ {0}
      /\ k = IF Peer[p] \in Port THEN NumVcs ELSE 1
  <2>1. PortLearned(p) /\ Had(1, p)
    BY <1>1 DEF InitInv, Learned, Had
  <2>2. QED
    BY <1>1, <2>1, NothingForPorts, SizeAssumption DEF PortLearned
<1> HIDE DEF k
<1>3. /\ ms \in Seq(Message) /\ ms # <<>>
      /\ \A vn \in VN, vcs \in SUBSET VC, vc \in 0 .. k - 1 :
           vcs \cap (0 .. k - 1) = {vc} => CreditsIn(ms, vn, vcs) = InCap[p]
  <2>1. k \in 1 .. NumVcs /\ InCap[p] \in Nat
    BY <1>2
  <2>2. QED
    BY <2>1, GrantsFacts, Zenon
<1> HIDE DEF ms
<1>4. Turn(p, ms)
  <2>1. /\ departing' \in [End -> Seq(Message)]
        /\ \A d \in End : departing'[d] = IF Peer[d] = p THEN departing[d] \o ms ELSE departing[d]
    BY <1>1, <1>3, SendFacts DEF InitInv, Typed
  <2>2. QED
    BY <1>1, <1>2, <2>1 DEF Turn, InitInv, Typed, portVars, nicVars, epVars
<1>5. Due(p, ms)
  <2>1. ASSUME NEW u \in PortUnit, u[1] = Peer[p]
        PROVE  CreditsIn(ms, u[2], {u[3]}) = LinkCredits(u)
    <3>1. u[1] \in Port /\ u[2] \in VN /\ u[3] \in VC /\ Peer[u[1]] = p /\ Peer[p] \in Port
      BY <1>1, <2>1, EndFacts DEF PortUnit
    <3>2. u[3] \in 0 .. k - 1
      BY <1>2, <3>1 DEF VC
    <3>3. {u[3]} \cap (0 .. k - 1) = {u[3]} /\ {u[3]} \in SUBSET VC
      BY <3>1, <3>2
    <3>4. CreditsIn(ms, u[2], {u[3]}) = InCap[p]
      BY <1>3, <3>1, <3>2, <3>3
    <3>5. QED
      BY <3>1, <3>4 DEF LinkCredits
  <2>2. ASSUME NEW x \in NicVn, x[1] = Peer[p]
        PROVE  CreditsIn(ms, x[2], VC) = LinkCredits(<<x[1], x[2], 0>>)
    <3>1. x[1] \in Nic /\ x[2] \in VN /\ Peer[x[1]] = p /\ Peer[p] \notin Port
      BY <1>1, <2>2, EndFacts DEF NicVn
    <3>2. k = 1 /\ 0 \in 0 .. k - 1 /\ VC \cap (0 .. k - 1) = {0} /\ VC \in SUBSET VC
      BY <1>2, <3>1 DEF VC
    <3>3. CreditsIn(ms, x[2], VC) = InCap[p]
      BY <1>3, <3>1, <3>2
    <3>4. QED
      BY <3>1, <3>3 DEF LinkCredits
  <2>3. ms \in Seq(Message) /\ ms # <<>> /\ phase = 3 /\ ~(phase < 3)
    BY <1>1, <1>3
  <2>4. QED
    BY <2>1, <2>2, <2>3 DEF Due
<1>6. Typed'
  BY <1>1, <1>4 DEF InitInv, Typed, Turn, portVars, nicVars, epVars
<1>7. Learned'
  <2>1. \A n \in Nic : n # p
    BY EndFacts
  <2>2. QED
    BY <1>1, <1>4, <2>1 DEF InitInv, Learned, PortLearned, NicLearned, Had, Turn, portVars, nicVars
<1>8. QED
  BY <1>4, <1>5, <1>6, <1>7, TurnInv

-----------------------------------------------------------------------------
(* The turns of the NICs.                                                  *)

LEMMA NicReportsInv ==
  ASSUME InitInv, NEW n \in Nic, n \notin called, called' = called \cup {n},
         NicReports(n), UNCHANGED <<stage, phase, portVars, epVars>>
  PROVE  InitInv'
<1> DEFINE ms == <<Tell("REPORT_ENDPOINT", None)>>
<1>1. n \in End /\ n \notin Port /\ phase = 0 /\ Send(n, ms) /\ arrived' = arrived /\ UNCHANGED nicVars
  BY EndFacts DEF NicReports
<1>2. ms = SaidIn(0, n)
  BY <1>1 DEF SaidIn
<1> HIDE DEF ms
<1>3. ms \in Seq(Message)
  BY <1>1, <1>2, GreetingFacts
<1>4. arrived[n] = <<>>
  BY <1>1 DEF InitInv, Heeded
<1>5. Turn(n, ms)
  <2>1. /\ departing' \in [End -> Seq(Message)]
        /\ \A d \in End : departing'[d] = IF Peer[d] = n THEN departing[d] \o ms ELSE departing[d]
    BY <1>1, <1>3, SendFacts DEF InitInv, Typed
  <2>2. QED
    BY <1>1, <1>4, <2>1 DEF Turn, InitInv, Typed, portVars, nicVars, epVars
<1>6. Due(n, ms)
  BY <1>1, <1>2, <1>3 DEF Due
<1>7. Typed'
  BY <1>1, <1>5 DEF InitInv, Typed, Turn, portVars, nicVars, epVars
<1>8. Learned'
  BY <1>1, <1>5 DEF InitInv, Learned, PortLearned, NicLearned, Had, Turn, portVars, nicVars
<1>9. QED
  BY <1>5, <1>6, <1>7, <1>8, TurnInv

LEMMA NicMeetsRouterInv ==
  ASSUME InitInv, NEW n \in Nic, n \notin called, called' = called \cup {n},
         NicMeetsRouter(n), UNCHANGED <<stage, phase, portVars, epVars>>
  PROVE  InitInv'
<1>1. /\ n \in End /\ Peer[n] \in Port /\ phase = 1 /\ Takes(n, FromRouter)
      /\ departing' = departing
      /\ rtrId' = [rtrId EXCEPT ![n] = Told(n, 2)] /\ rtrPort' = [rtrPort EXCEPT ![n] = Told(n, 3)]
      /\ UNCHANGED <<numVns, netID, rtrCredits, nicEvents>>
  BY EndFacts DEF NicMeetsRouter
<1>2. /\ Len(arrived[n]) = 3 /\ Told(n, 2) = RouterOf[Peer[n]] /\ Told(n, 3) = Peer[n]
  BY <1>1, Reported DEF Told
<1>3. Turn(n, <<>>)
  <2>1. /\ arrived' \in [End -> Seq(Message)]
        /\ \A d \in End : arrived'[d] = IF d = n THEN <<>> ELSE arrived[d]
    <3>1. Len(FromRouter) = 3
      BY DEF FromRouter
    <3>2. QED
      BY <1>1, <1>2, <3>1, TakesAll DEF InitInv, Typed
  <2>2. QED
    BY <1>1, <2>1, SaysNothing DEF Turn, InitInv, Typed, portVars, epVars
<1>4. Due(n, <<>>)
  <2>1. SaidIn(1, n) = <<>>
    BY <1>1, EndFacts DEF SaidIn
  <2>2. QED
    BY <1>1, <2>1, EmptySeq DEF Due
<1>5. RouterOf[Peer[n]] \in Router
  BY <1>1, TopologyAssumption
<1>6. Typed'
  <2>1. rtrId' \in [Nic -> Router \cup {None}] /\ rtrPort' \in [Nic -> Port \cup {None}]
    BY <1>1, <1>2, <1>5 DEF InitInv, Typed
  <2>2. QED
    BY <1>1, <1>3, <2>1 DEF InitInv, Typed, Turn, portVars, epVars
<1>7. Learned'
  <2>1. ASSUME NEW q \in Port
        PROVE  PortLearned(q)' /\ perPortConnectedRtr'[q] = IF Had(2, q)' THEN connectedRtrId'[q] ELSE None
    <3>1. PortLearned(q) /\ perPortConnectedRtr[q] = None /\ q # n
      BY <1>1, EndFacts DEF InitInv, Learned, Had
    <3>2. QED
      BY <1>1, <1>3, <3>1 DEF PortLearned, Had, Turn, portVars
  <2>2. ASSUME NEW m \in Nic PROVE NicLearned(m)'
    <3>1. NicLearned(m)
      BY DEF InitInv, Learned
    <3>2. CASE m = n
      BY <1>1, <1>2, <1>3, <3>1, <3>2 DEF NicLearned, Had, Turn, InitInv, Typed
    <3>3. CASE m # n
      BY <1>1, <1>3, <3>1, <3>3 DEF NicLearned, Had, Turn
    <3>4. QED
      BY <3>2, <3>3
  <2>3. QED
    BY <2>1, <2>2 DEF Learned
<1>8. QED
  BY <1>3, <1>4, <1>6, <1>7, TurnInv

\* In phases 2 and 3 a NIC finds its widths and its number.
LEMMA NicTold ==
  ASSUME InitInv, NEW n \in Nic, n \notin called
  PROVE  /\ phase = 2 => /\ Len(arrived[n]) = 3 /\ arrived[n][1].type = "NUM_VNS"
                         /\ arrived[n][1].value = NumVns
                         /\ arrived[n][2].type = "NUM_VCS" /\ arrived[n][3].type = "FLIT_WIDTH"
         /\ phase = 3 => /\ Len(arrived[n]) = 1 /\ arrived[n][1].type = "ENDPOINT_ID"
                         /\ arrived[n][1].value = n
<1>1. n \in End /\ Peer[n] \in Port /\ Peer[Peer[n]] = n
  BY EndFacts
<1>2. phase \in {2, 3} => arrived[n] = SaidIn(phase - 1, Peer[n])
  BY <1>1 DEF InitInv, Heeded
<1>3. CASE phase = 2
  <2> DEFINE a == Tell("NUM_VNS", NumVns)
             b == Tell("NUM_VCS", NumVcs)
             c == Tell("FLIT_WIDTH", None)
  <2>1. arrived[n] = <<a, b, c>>
    BY <1>1, <1>2, <1>3 DEF SaidIn
  <2>2. a.type = "NUM_VNS" /\ a.value = NumVns /\ b.type = "NUM_VCS" /\ c.type = "FLIT_WIDTH"
    BY DEF Tell
  <2> HIDE DEF a, b, c
  <2>3. QED
    BY <1>3, <2>1, <2>2
<1>4. CASE phase = 3
  <2> DEFINE a == Tell("ENDPOINT_ID", n)
  <2>1. arrived[n] = <<a>>
    BY <1>1, <1>2, <1>4 DEF SaidIn
  <2>2. a.type = "ENDPOINT_ID" /\ a.value = n
    BY DEF Tell
  <2> HIDE DEF a
  <2>3. QED
    BY <1>4, <2>1, <2>2
<1>5. QED
  BY <1>3, <1>4

LEMMA NicResizesInv ==
  ASSUME InitInv, NEW n \in Nic, n \notin called, called' = called \cup {n},
         NicResizes(n), UNCHANGED <<stage, phase, portVars, epVars>>
  PROVE  InitInv'
<1>1. /\ n \in End /\ Peer[n] \in Port /\ phase = 2 /\ Takes(n, Widths) /\ departing' = departing
      /\ numVns' = [numVns EXCEPT ![n] = Told(n, 1)]
      /\ UNCHANGED <<rtrId, rtrPort, netID, rtrCredits, nicEvents>>
  BY EndFacts DEF NicResizes
<1>2. Len(arrived[n]) = 3 /\ Told(n, 1) = NumVns
  BY <1>1, NicTold DEF Told
<1>3. Turn(n, <<>>)
  <2>1. /\ arrived' \in [End -> Seq(Message)]
        /\ \A d \in End : arrived'[d] = IF d = n THEN <<>> ELSE arrived[d]
    <3>1. Len(Widths) = 3
      BY DEF Widths
    <3>2. QED
      BY <1>1, <1>2, <3>1, TakesAll DEF InitInv, Typed
  <2>2. QED
    BY <1>1, <2>1, SaysNothing DEF Turn, InitInv, Typed, portVars, epVars
<1>4. Due(n, <<>>)
  <2>1. SaidIn(2, n) = <<>>
    BY <1>1, EndFacts DEF SaidIn
  <2>2. QED
    BY <1>1, <2>1, EmptySeq DEF Due
<1>5. Typed'
  <2>1. numVns' \in [Nic -> Nat]
    BY <1>1, <1>2, SizeAssumption DEF InitInv, Typed
  <2>2. QED
    BY <1>1, <1>3, <2>1 DEF InitInv, Typed, Turn, portVars, epVars
<1>6. Learned'
  <2>1. ASSUME NEW q \in Port
        PROVE  PortLearned(q)' /\ perPortConnectedRtr'[q] = IF Had(2, q)' THEN connectedRtrId'[q] ELSE None
    <3>1. /\ PortLearned(q) /\ q # n
          /\ perPortConnectedRtr[q] = IF Had(2, q) THEN connectedRtrId[q] ELSE None
      BY EndFacts DEF InitInv, Learned
    <3>2. QED
      BY <1>1, <1>3, <3>1 DEF PortLearned, Had, Turn, portVars
  <2>2. ASSUME NEW m \in Nic PROVE NicLearned(m)'
    <3>1. NicLearned(m)
      BY DEF InitInv, Learned
    <3>2. CASE m = n
      BY <1>1, <1>2, <1>3, <3>1, <3>2 DEF NicLearned, Had, Turn, InitInv, Typed
    <3>3. CASE m # n
      BY <1>1, <1>3, <3>1, <3>3 DEF NicLearned, Had, Turn, InitInv, Typed
    <3>4. QED
      BY <3>2, <3>3
  <2>3. QED
    BY <2>1, <2>2 DEF Learned
<1>7. QED
  BY <1>3, <1>4, <1>5, <1>6, TurnInv

LEMMA NicGrantsInv ==
  ASSUME InitInv, NEW n \in Nic, n \notin called, called' = called \cup {n},
         NicGrants(n), UNCHANGED <<stage, phase, portVars, epVars>>
  PROVE  InitInv'
<1> DEFINE ms == [vn \in 1 .. NumVns |-> Credit(vn - 1, 0, InCap[n])]
<1>1. /\ n \in End /\ n \notin Port /\ Peer[n] \in Port /\ phase = 3 /\ Takes(n, Identity)
      /\ Send(n, [vn \in 1 .. numVns[n] |-> Credit(vn - 1, 0, InCap[n])])
      /\ netID' = [netID EXCEPT ![n] = Told(n, 1)]
      /\ UNCHANGED <<rtrId, rtrPort, numVns, rtrCredits, nicEvents>>
  BY EndFacts DEF NicGrants
<1>2. Len(arrived[n]) = 1 /\ Told(n, 1) = n
  BY <1>1, NicTold DEF Told
<1>3. numVns[n] = NumVns /\ InCap[n] \in Nat
  BY <1>1, SizeAssumption DEF InitInv, Learned, NicLearned, Had
<1>4. Send(n, ms)
  BY <1>1, <1>3
<1>5. /\ ms \in Seq(Message) /\ ms # <<>>
      /\ \A vn \in VN, vc \in VC : CreditsIn(ms, vn, {vc}) = IF vc = 0 THEN InCap[n] ELSE 0
  BY <1>3, NicGrantsFacts
<1> HIDE DEF ms
<1>6. Turn(n, ms)
  <2>1. /\ arrived' \in [End -> Seq(Message)]
        /\ \A d \in End : arrived'[d] = IF d = n THEN <<>> ELSE arrived[d]
    <3>1. Len(Identity) = 1
      BY DEF Identity
    <3>2. QED
      BY <1>1, <1>2, <3>1, TakesAll DEF InitInv, Typed
  <2>2. /\ departing' \in [End -> Seq(Message)]
        /\ \A d \in End : departing'[d] = IF Peer[d] = n THEN departing[d] \o ms ELSE departing[d]
    BY <1>1, <1>4, <1>5, SendFacts DEF InitInv, Typed
  <2>3. QED
    BY <1>1, <2>1, <2>2 DEF Turn, InitInv, Typed, portVars, epVars
<1>7. Due(n, ms)
  <2>1. ASSUME NEW u \in PortUnit, u[1] = Peer[n]
        PROVE  CreditsIn(ms, u[2], {u[3]}) = LinkCredits(u)
    <3>1. u[2] \in VN /\ u[3] \in VC /\ Peer[u[1]] = n
      BY <1>1, <2>1, EndFacts DEF PortUnit
    <3>2. QED
      BY <1>1, <1>5, <3>1 DEF LinkCredits
  <2>2. \A x \in NicVn : x[1] # Peer[n]
    BY <1>1, EndFacts DEF NicVn
  <2>3. ms \in Seq(Message) /\ ms # <<>> /\ phase = 3 /\ ~(phase < 3)
    BY <1>1, <1>5
  <2>4. QED
    BY <2>1, <2>2, <2>3 DEF Due
<1>8. Typed'
  <2>1. netID' \in [Nic -> Nic \cup {None}]
    BY <1>1, <1>2 DEF InitInv, Typed
  <2>2. QED
    BY <1>1, <1>6, <2>1 DEF InitInv, Typed, Turn, portVars, epVars
<1>9. Learned'
  <2>1. ASSUME NEW q \in Port
        PROVE  PortLearned(q)' /\ perPortConnectedRtr'[q] = IF Had(2, q)' THEN connectedRtrId'[q] ELSE None
    <3>1. /\ PortLearned(q) /\ q # n
          /\ perPortConnectedRtr[q] = IF Had(2, q) THEN connectedRtrId[q] ELSE None
      BY EndFacts DEF InitInv, Learned
    <3>2. QED
      BY <1>1, <1>6, <3>1 DEF PortLearned, Had, Turn, portVars
  <2>2. ASSUME NEW m \in Nic PROVE NicLearned(m)'
    <3>1. NicLearned(m)
      BY DEF InitInv, Learned
    <3>2. CASE m = n
      BY <1>1, <1>2, <1>6, <3>1, <3>2 DEF NicLearned, Had, Turn, InitInv, Typed
    <3>3. CASE m # n
      BY <1>1, <1>6, <3>1, <3>3 DEF NicLearned, Had, Turn, InitInv, Typed
    <3>4. QED
      BY <3>2, <3>3
  <2>3. QED
    BY <2>1, <2>2 DEF Learned
<1>10. QED
  BY <1>6, <1>7, <1>8, <1>9, TurnInv

-----------------------------------------------------------------------------
(* From phase 4 on.                                                        *)

LEMMA DrainingIsLast == ASSUME InitInv, Draining PROVE phase = 4
BY DEF InitInv, Settled, Draining

\* By then everyone has had its turn in the first phases, now and in the next state.
LEMMA AllHad ==
  ASSUME InitInv, phase = 4, phase' = 4
  PROVE  \A ph \in 1 .. 3 : \A e : Had(ph, e) /\ Had(ph, e)'
BY DEF Had

\* All credits of all streams are held or on their way.
Conserved ==
  /\ \A u \in PortUnit :
       destCredits[u] + CreditsIn(arrived[u[1]], u[2], {u[3]})
                      + CreditsIn(departing[u[1]], u[2], {u[3]}) = LinkCredits(u)
  /\ \A x \in NicVn :
       rtrCredits[x] + CreditsIn(arrived[x[1]], x[2], VC) + CreditsIn(departing[x[1]], x[2], VC)
         = LinkCredits(<<x[1], x[2], 0>>)

LEMMA CountedLast == ASSUME phase = 4 PROVE Counted <=> Conserved
<1>1. \A e : Had(3, e)
  BY DEF Had
<1>2. QED
  BY <1>1 DEF Counted, Conserved

LEMMA CountedLastNext == ASSUME phase' = 4 PROVE Counted' <=> Conserved'
<1>1. \A e : Had(3, e)'
  BY DEF Had
<1>2. QED
  BY <1>1 DEF Counted, Conserved

LEMMA LearnedKept ==
  ASSUME InitInv, phase = 4, phase' = 4,
         UNCHANGED <<connectionType, connectedRtrId, connectedPortId, perPortConnectedRtr,
                     rtrId, rtrPort, numVns, netID>>
  PROVE  Learned'
BY AllHad DEF InitInv, Learned, PortLearned, NicLearned

LEMMA PortDrainsInv ==
  ASSUME InitInv, NEW p \in Port, p \notin called, called' = called \cup {p},
         PortDrains(p), UNCHANGED <<stage, phase, nicVars, epVars>>
  PROVE  InitInv'
<1>1. /\ p \in End /\ phase = 4 /\ phase' = 4 /\ Takes(p, arrived[p]) /\ departing' = departing
      /\ destCredits' = [u \in PortUnit |-> destCredits[u] + (IF u[1] = p THEN Granted(u) ELSE 0)]
      /\ portEvents' = [portEvents EXCEPT ![p] = @ \o Packets(arrived[p])]
      /\ UNCHANGED <<connectionType, connectedRtrId, connectedPortId, perPortConnectedRtr>>
  BY EndFacts, DrainingIsLast DEF PortDrains
<1>2. /\ arrived' \in [End -> Seq(Message)]
      /\ \A d \in End : arrived'[d] = IF d = p THEN <<>> ELSE arrived[d]
  BY <1>1, TakesAll DEF InitInv, Typed
<1>3. \A u \in PortUnit : Granted(u) \in Nat
  <2> TAKE u \in PortUnit
  <2>1. arrived[u[1]] \in Seq(Message)
    BY EndFacts DEF PortUnit, InitInv, Typed
  <2>2. QED
    BY <2>1, CreditsReached DEF Granted
<1>4. Typed'
  <2>1. destCredits' \in [PortUnit -> Nat]
    BY <1>1, <1>3 DEF InitInv, Typed
  <2>2. portEvents' \in [Port -> Seq(UntimedData)]
    <3>1. arrived[p] \in Seq(Message) /\ portEvents[p] \in Seq(UntimedData)
      BY <1>1 DEF InitInv, Typed
    <3>2. portEvents[p] \o Packets(arrived[p]) \in Seq(UntimedData)
      BY <3>1, PacketsReached, ConcatProperties
    <3>3. QED
      BY <1>1, <3>2 DEF InitInv, Typed
  <2>3. called' \in SUBSET End
    BY <1>1 DEF InitInv, Typed
  <2>4. QED
    BY <1>1, <1>2, <2>1, <2>2, <2>3 DEF InitInv, Typed, nicVars, epVars
<1>5. Heeded'
  BY <1>1 DEF Heeded
<1>6. Learned'
  BY <1>1, LearnedKept DEF nicVars
<1>7. ASSUME NEW u \in PortUnit
      PROVE  /\ destCredits'[u] + CreditsIn(arrived'[u[1]], u[2], {u[3]})
                  = destCredits[u] + CreditsIn(arrived[u[1]], u[2], {u[3]})
             /\ destCredits[u] + CreditsIn(arrived[u[1]], u[2], {u[3]})
                  + CreditsIn(departing[u[1]], u[2], {u[3]}) = LinkCredits(u)
             /\ CreditsIn(departing[u[1]], u[2], {u[3]}) \in Nat /\ destCredits'[u] \in Nat
             /\ destCredits[u] \in Nat /\ CreditsIn(arrived[u[1]], u[2], {u[3]}) \in Nat
             /\ CreditsIn(arrived'[u[1]], u[2], {u[3]}) \in Nat
  <2>1. u[1] \in End
    BY EndFacts DEF PortUnit
  <2>2. /\ CreditsIn(departing[u[1]], u[2], {u[3]}) \in Nat
        /\ CreditsIn(arrived[u[1]], u[2], {u[3]}) \in Nat
        /\ CreditsIn(arrived'[u[1]], u[2], {u[3]}) \in Nat
        /\ destCredits'[u] \in Nat /\ destCredits[u] \in Nat
    BY <1>2, <1>4, <2>1, CreditsReached DEF InitInv, Typed
  <2>3. destCredits[u] + CreditsIn(arrived[u[1]], u[2], {u[3]})
          + CreditsIn(departing[u[1]], u[2], {u[3]}) = LinkCredits(u)
    BY <1>1, CountedLast DEF InitInv, Conserved
  <2>4. destCredits'[u] + CreditsIn(arrived'[u[1]], u[2], {u[3]})
          = destCredits[u] + CreditsIn(arrived[u[1]], u[2], {u[3]})
    <3>1. CASE u[1] = p
      <4>1. destCredits'[u] = destCredits[u] + CreditsIn(arrived[u[1]], u[2], {u[3]})
        BY <1>1, <3>1 DEF Granted
      <4>2. CreditsIn(arrived'[u[1]], u[2], {u[3]}) = 0
        BY <1>2, <2>1, <3>1, CreditsEmpty
      <4>3. QED
        BY <2>2, <4>1, <4>2
    <3>2. CASE u[1] # p
      <4>1. destCredits'[u] = destCredits[u] /\ arrived'[u[1]] = arrived[u[1]]
        BY <1>1, <1>2, <2>1, <2>2, <3>2
      <4>2. QED
        BY <4>1
    <3>3. QED
      BY <3>1, <3>2
  <2>5. QED
    BY <2>2, <2>3, <2>4
<1>8. ASSUME NEW x \in NicVn
      PROVE  /\ rtrCredits'[x] = rtrCredits[x] /\ arrived'[x[1]] = arrived[x[1]]
             /\ rtrCredits[x] + CreditsIn(arrived[x[1]], x[2], VC)
                  + CreditsIn(departing[x[1]], x[2], VC) = LinkCredits(<<x[1], x[2], 0>>)
  <2>1. x[1] \in End /\ x[1] # p
    BY EndFacts DEF NicVn
  <2>2. QED
    BY <1>1, <1>2, <2>1, CountedLast DEF InitInv, Conserved, nicVars
<1>9. Counted'
  <2>1. ASSUME NEW u \in PortUnit
        PROVE  destCredits'[u] + CreditsIn(arrived'[u[1]], u[2], {u[3]})
                 + CreditsIn(departing'[u[1]], u[2], {u[3]}) = LinkCredits(u)
    BY <1>1, <1>7
  <2>2. ASSUME NEW x \in NicVn
        PROVE  rtrCredits'[x] + CreditsIn(arrived'[x[1]], x[2], VC)
                 + CreditsIn(departing'[x[1]], x[2], VC) = LinkCredits(<<x[1], x[2], 0>>)
    BY <1>1, <1>8
  <2>3. QED
    BY <1>1, <2>1, <2>2, CountedLastNext DEF Conserved, LinkCredits
<1>10. Settled'
  <2>1. \A e \in called' : arrived'[e] = <<>>
    BY <1>1, <1>2 DEF InitInv, Typed, Settled
  <2>2. CreditsGranted'
    <3> SUFFICES ASSUME stage = "complete"
                 PROVE  /\ \A u \in PortUnit : destCredits'[u] = LinkCredits(u)
                        /\ \A x \in NicVn : rtrCredits'[x] = LinkCredits(<<x[1], x[2], 0>>)
      BY DEF CreditsGranted, LinkCredits
    <3>1. /\ \A u \in PortUnit : destCredits[u] = LinkCredits(u)
          /\ \A x \in NicVn : rtrCredits[x] = LinkCredits(<<x[1], x[2], 0>>)
      BY DEF InitInv, Settled, CreditsGranted
    <3>2. ASSUME NEW u \in PortUnit PROVE destCredits'[u] = destCredits[u]
      <4> DEFINE A == CreditsIn(arrived[u[1]], u[2], {u[3]})
                 D == CreditsIn(departing[u[1]], u[2], {u[3]})
                 B == CreditsIn(arrived'[u[1]], u[2], {u[3]})
      <4>1. /\ destCredits'[u] + B = destCredits[u] + A /\ destCredits[u] + A + D = LinkCredits(u)
            /\ A \in Nat /\ B \in Nat /\ D \in Nat /\ destCredits'[u] \in Nat /\ destCredits[u] \in Nat
        BY <1>7
      <4>2. destCredits[u] = LinkCredits(u)
        BY <3>1
      <4>3. u[1] = p => destCredits'[u] = destCredits[u] + A
        BY <1>1 DEF Granted
      <4>4. u[1] # p => destCredits'[u] = destCredits[u] + 0
        BY <1>1
      <4> HIDE DEF A, B, D
      <4>5. A = 0
        BY <4>1, <4>2
      <4>6. QED
        BY <4>1, <4>3, <4>4, <4>5
    <3>3. QED
      BY <1>8, <3>1, <3>2
  <2>3. QED
    BY <1>1, <2>1, <2>2 DEF InitInv, Settled
<1>11. QED
  BY <1>4, <1>5, <1>6, <1>9, <1>10 DEF InitInv

LEMMA NicDrainsInv ==
  ASSUME InitInv, NEW n \in Nic, n \notin called, called' = called \cup {n},
         NicDrains(n), UNCHANGED <<stage, phase, portVars, epVars>>
  PROVE  InitInv'
<1>1. /\ n \in End /\ phase = 4 /\ phase' = 4 /\ Takes(n, arrived[n]) /\ departing' = departing
      /\ rtrCredits' = [x \in NicVn |-> rtrCredits[x] + (IF x[1] = n THEN GrantedToNic(x) ELSE 0)]
      /\ nicEvents' = [nicEvents EXCEPT ![n] = @ \o Packets(arrived[n])]
      /\ UNCHANGED <<rtrId, rtrPort, numVns, netID>>
  BY EndFacts, DrainingIsLast DEF NicDrains
<1>2. /\ arrived' \in [End -> Seq(Message)]
      /\ \A d \in End : arrived'[d] = IF d = n THEN <<>> ELSE arrived[d]
  BY <1>1, TakesAll DEF InitInv, Typed
<1>3. \A x \in NicVn : GrantedToNic(x) \in Nat
  <2> TAKE x \in NicVn
  <2>1. arrived[x[1]] \in Seq(Message)
    BY EndFacts DEF NicVn, InitInv, Typed
  <2>2. QED
    BY <2>1, CreditsReached DEF GrantedToNic
<1>4. Typed'
  <2>1. rtrCredits' \in [NicVn -> Nat]
    BY <1>1, <1>3 DEF InitInv, Typed
  <2>2. nicEvents' \in [Nic -> Seq(UntimedData)]
    <3>1. arrived[n] \in Seq(Message) /\ nicEvents[n] \in Seq(UntimedData)
      BY <1>1 DEF InitInv, Typed
    <3>2. nicEvents[n] \o Packets(arrived[n]) \in Seq(UntimedData)
      BY <3>1, PacketsReached, ConcatProperties
    <3>3. QED
      BY <1>1, <3>2 DEF InitInv, Typed
  <2>3. called' \in SUBSET End
    BY <1>1 DEF InitInv, Typed
  <2>4. QED
    BY <1>1, <1>2, <2>1, <2>2, <2>3 DEF InitInv, Typed, portVars, epVars
<1>5. Heeded'
  BY <1>1 DEF Heeded
<1>6. Learned'
  BY <1>1, LearnedKept DEF portVars
<1>7. ASSUME NEW x \in NicVn
      PROVE  /\ rtrCredits'[x] + CreditsIn(arrived'[x[1]], x[2], VC)
                  = rtrCredits[x] + CreditsIn(arrived[x[1]], x[2], VC)
             /\ rtrCredits[x] + CreditsIn(arrived[x[1]], x[2], VC)
                  + CreditsIn(departing[x[1]], x[2], VC) = LinkCredits(<<x[1], x[2], 0>>)
             /\ CreditsIn(departing[x[1]], x[2], VC) \in Nat /\ rtrCredits'[x] \in Nat
             /\ rtrCredits[x] \in Nat /\ CreditsIn(arrived[x[1]], x[2], VC) \in Nat
             /\ CreditsIn(arrived'[x[1]], x[2], VC) \in Nat
  <2>1. x[1] \in End
    BY EndFacts DEF NicVn
  <2>2. /\ CreditsIn(departing[x[1]], x[2], VC) \in Nat
        /\ CreditsIn(arrived[x[1]], x[2], VC) \in Nat
        /\ CreditsIn(arrived'[x[1]], x[2], VC) \in Nat
        /\ rtrCredits'[x] \in Nat /\ rtrCredits[x] \in Nat
    BY <1>2, <1>4, <2>1, CreditsReached DEF InitInv, Typed
  <2>3. rtrCredits[x] + CreditsIn(arrived[x[1]], x[2], VC)
          + CreditsIn(departing[x[1]], x[2], VC) = LinkCredits(<<x[1], x[2], 0>>)
    BY <1>1, CountedLast DEF InitInv, Conserved
  <2>4. rtrCredits'[x] + CreditsIn(arrived'[x[1]], x[2], VC)
          = rtrCredits[x] + CreditsIn(arrived[x[1]], x[2], VC)
    <3>1. CASE x[1] = n
      <4>1. rtrCredits'[x] = rtrCredits[x] + CreditsIn(arrived[x[1]], x[2], VC)
        BY <1>1, <3>1 DEF GrantedToNic
      <4>2. CreditsIn(arrived'[x[1]], x[2], VC) = 0
        BY <1>2, <2>1, <3>1, CreditsEmpty
      <4>3. QED
        BY <2>2, <4>1, <4>2
    <3>2. CASE x[1] # n
      <4>1. rtrCredits'[x] = rtrCredits[x] /\ arrived'[x[1]] = arrived[x[1]]
        BY <1>1, <1>2, <2>1, <2>2, <3>2
      <4>2. QED
        BY <4>1
    <3>3. QED
      BY <3>1, <3>2
  <2>5. QED
    BY <2>2, <2>3, <2>4
<1>8. ASSUME NEW u \in PortUnit
      PROVE  /\ destCredits'[u] = destCredits[u] /\ arrived'[u[1]] = arrived[u[1]]
             /\ destCredits[u] + CreditsIn(arrived[u[1]], u[2], {u[3]})
                  + CreditsIn(departing[u[1]], u[2], {u[3]}) = LinkCredits(u)
  <2>1. u[1] \in End /\ u[1] # n
    BY EndFacts DEF PortUnit
  <2>2. QED
    BY <1>1, <1>2, <2>1, CountedLast DEF InitInv, Conserved, portVars
<1>9. Counted'
  <2>1. ASSUME NEW u \in PortUnit
        PROVE  destCredits'[u] + CreditsIn(arrived'[u[1]], u[2], {u[3]})
                 + CreditsIn(departing'[u[1]], u[2], {u[3]}) = LinkCredits(u)
    BY <1>1, <1>8
  <2>2. ASSUME NEW x \in NicVn
        PROVE  rtrCredits'[x] + CreditsIn(arrived'[x[1]], x[2], VC)
                 + CreditsIn(departing'[x[1]], x[2], VC) = LinkCredits(<<x[1], x[2], 0>>)
    BY <1>1, <1>7
  <2>3. QED
    BY <1>1, <2>1, <2>2, CountedLastNext DEF Conserved, LinkCredits
<1>10. Settled'
  <2>1. \A e \in called' : arrived'[e] = <<>>
    BY <1>1, <1>2 DEF InitInv, Typed, Settled
  <2>2. CreditsGranted'
    <3> SUFFICES ASSUME stage = "complete"
                 PROVE  /\ \A u \in PortUnit : destCredits'[u] = LinkCredits(u)
                        /\ \A x \in NicVn : rtrCredits'[x] = LinkCredits(<<x[1], x[2], 0>>)
      BY DEF CreditsGranted, LinkCredits
    <3>1. /\ \A u \in PortUnit : destCredits[u] = LinkCredits(u)
          /\ \A x \in NicVn : rtrCredits[x] = LinkCredits(<<x[1], x[2], 0>>)
      BY DEF InitInv, Settled, CreditsGranted
    <3>2. ASSUME NEW x \in NicVn PROVE rtrCredits'[x] = rtrCredits[x]
      <4> DEFINE A == CreditsIn(arrived[x[1]], x[2], VC)
                 D == CreditsIn(departing[x[1]], x[2], VC)
                 B == CreditsIn(arrived'[x[1]], x[2], VC)
                 L == LinkCredits(<<x[1], x[2], 0>>)
      <4>1. /\ rtrCredits'[x] + B = rtrCredits[x] + A /\ rtrCredits[x] + A + D = L
            /\ A \in Nat /\ B \in Nat /\ D \in Nat /\ rtrCredits'[x] \in Nat /\ rtrCredits[x] \in Nat
        BY <1>7
      <4>2. rtrCredits[x] = L
        BY <3>1
      <4>3. x[1] = n => rtrCredits'[x] = rtrCredits[x] + A
        BY <1>1 DEF GrantedToNic
      <4>4. x[1] # n => rtrCredits'[x] = rtrCredits[x] + 0
        BY <1>1
      <4> HIDE DEF A, B, D, L
      <4>5. A = 0
        BY <4>1, <4>2
      <4>6. QED
        BY <4>1, <4>3, <4>4, <4>5
    <3>3. QED
      BY <1>8, <3>1, <3>2
  <2>3. QED
    BY <1>1, <2>1, <2>2 DEF InitInv, Settled
<1>11. QED
  BY <1>4, <1>5, <1>6, <1>9, <1>10 DEF InitInv

-----------------------------------------------------------------------------
(* Relaying and sending what endpoints have to say.                        *)

\* A step that puts packets behind what departs, and takes some from the ports.
LEMMA UntimedInv ==
  ASSUME InitInv, NEW m \in UntimedData, NEW out \in SUBSET End, phase > 2,
         departing' = [e \in End |-> IF e \in out THEN Append(departing[e], m) ELSE departing[e]],
         portEvents' \in [Port -> Seq(UntimedData)], phase = 3 => portEvents' = portEvents,
         numSent' \in [Nic -> Nat],
         UNCHANGED <<stage, phase, called, arrived, connectionType, connectedRtrId,
                     connectedPortId, destCredits, perPortConnectedRtr, nicVars, plan>>
  PROVE  InitInv'
<1>1. m \in Message /\ \A vn, vcs : Worth(m, vn, vcs) = 0
  BY DEF Message, UntimedData, Worth
<1>2. /\ departing' \in [End -> Seq(Message)]
      /\ \A e \in End : departing[e] \in Seq(Message) /\ (departing'[e] = departing[e]
                          \/ departing'[e] = Append(departing[e], m))
  <2>1. \A e \in End : departing[e] \in Seq(Message) /\ Append(departing[e], m) \in Seq(Message)
    BY <1>1, AppendProperties DEF InitInv, Typed
  <2>2. QED
    BY <2>1
<1>3. \A e \in End : \A vn, vcs : CreditsIn(departing'[e], vn, vcs) = CreditsIn(departing[e], vn, vcs)
  <2> SUFFICES ASSUME NEW e \in End, NEW vn, NEW vcs
               PROVE  CreditsIn(departing'[e], vn, vcs) = CreditsIn(departing[e], vn, vcs)
    OBVIOUS
  <2>1. /\ departing[e] \in Seq(Message)
        /\ (departing'[e] = departing[e] \/ departing'[e] = Append(departing[e], m))
    BY <1>2
  <2>2. CreditsIn(Append(departing[e], m), vn, vcs) = CreditsIn(departing[e], vn, vcs) + 0
    BY <1>1, <2>1, CreditsAppend
  <2>3. CreditsIn(departing[e], vn, vcs) \in Nat
    BY <2>1, CreditsReached
  <2>4. QED
    BY <2>1, <2>2, <2>3
<1>4. \A e \in End : departing[e] # <<>> => departing'[e] # <<>>
  <2> SUFFICES ASSUME NEW e \in End, departing[e] # <<>> PROVE departing'[e] # <<>>
    OBVIOUS
  <2>1. Append(departing[e], m) # <<>>
    BY <1>1, <1>2, AppendProperties
  <2>2. QED
    BY <1>2, <2>1
<1>5. Typed'
  BY <1>2 DEF InitInv, Typed, nicVars
<1>6. Heeded'
  <2> SUFFICES ASSUME NEW e \in End
               PROVE  /\ phase < 4 => arrived[e] = IF phase = 0 \/ e \in called THEN <<>>
                                                   ELSE SaidIn(phase - 1, Peer[e])
                      /\ phase = 3 /\ Peer[e] \in called => departing'[e] # <<>>
    <3>1. phase \in 0 .. 4 /\ ~(phase < 3)
      BY DEF InitInv, Typed
    <3>2. QED
      BY <3>1 DEF Heeded, SaidIn
  <2>1. QED
    BY <1>4 DEF InitInv, Heeded
<1>7. Learned'
  BY DEF InitInv, Learned, PortLearned, NicLearned, Had, nicVars
<1>8. Counted'
  <2>1. \A e : Had(3, e)' <=> Had(3, e)
    BY DEF Had
  <2>2. ASSUME NEW u \in PortUnit
        PROVE  destCredits'[u] + CreditsIn(arrived'[u[1]], u[2], {u[3]})
                               + CreditsIn(departing'[u[1]], u[2], {u[3]})
                 = IF Had(3, Peer[u[1]])' THEN LinkCredits(u) ELSE 0
    <3>1. u[1] \in End
      BY EndFacts DEF PortUnit
    <3>2. CreditsIn(departing'[u[1]], u[2], {u[3]}) = CreditsIn(departing[u[1]], u[2], {u[3]})
      BY <1>3, <3>1
    <3>3. QED
      BY <2>1, <3>2 DEF InitInv, Counted
  <2>3. ASSUME NEW x \in NicVn
        PROVE  rtrCredits'[x] + CreditsIn(arrived'[x[1]], x[2], VC)
                              + CreditsIn(departing'[x[1]], x[2], VC)
                 = IF Had(3, Peer[x[1]])' THEN LinkCredits(<<x[1], x[2], 0>>) ELSE 0
    <3>1. x[1] \in End
      BY EndFacts DEF NicVn
    <3>2. CreditsIn(departing'[x[1]], x[2], VC) = CreditsIn(departing[x[1]], x[2], VC)
      BY <1>3, <3>1
    <3>3. QED
      BY <2>1, <3>2 DEF InitInv, Counted, nicVars
  <2>4. QED
    BY <2>2, <2>3 DEF Counted, LinkCredits
<1>9. Settled'
  BY DEF InitInv, Typed, Settled, CreditsGranted, LinkCredits, nicVars
<1>10. QED
  BY <1>5, <1>6, <1>7, <1>8, <1>9 DEF InitInv

LEMMA RelayInv ==
  ASSUME InitInv, NEW p \in Port, Relay(p)
  PROVE  InitInv'
<1> DEFINE m == Head(portEvents[p])
           out == {Peer[q] : q \in OutPorts(p, m)} \cap End
<1>1. portEvents[p] \in Seq(UntimedData) /\ portEvents[p] # <<>>
  BY DEF InitInv, Typed, Relay
<1>2. phase = 4
  BY <1>1 DEF InitInv, Typed, Settled
<1>3. m \in UntimedData /\ Tail(portEvents[p]) \in Seq(UntimedData)
  BY <1>1, HeadTailProperties
<1>4. departing' = [e \in End |-> IF e \in out THEN Append(departing[e], m) ELSE departing[e]]
  BY DEF Relay
<1>5. portEvents' = [portEvents EXCEPT ![p] = Tail(@)]
  BY DEF Relay
<1>6. portEvents' \in [Port -> Seq(UntimedData)]
  BY <1>3, <1>5 DEF InitInv, Typed
<1>7. out \in SUBSET End
  OBVIOUS
<1> HIDE DEF m, out
<1>8. numSent' \in [Nic -> Nat]
  BY DEF InitInv, Typed, Relay, epVars
<1>9. UNCHANGED <<stage, phase, called, arrived, connectionType, connectedRtrId,
                  connectedPortId, destCredits, perPortConnectedRtr, nicVars, plan>>
  BY DEF Relay, epVars
<1>10. phase > 2 /\ ~(phase = 3)
  BY <1>2
<1>11. QED
  BY <1>3, <1>4, <1>6, <1>7, <1>8, <1>9, <1>10, UntimedInv

LEMMA SendUntimedDataInv ==
  ASSUME InitInv, NEW n \in Nic, SendUntimedData(n)
  PROVE  InitInv'
<1> DEFINE m == UntimedPacket(n, numSent[n] + 1)
           out == {Peer[n]}
<1>1. n \in End /\ Peer[n] \in End /\ n \in called
  BY EndFacts DEF SendUntimedData
<1>2. phase > 2
  BY DEF InitInv, Typed, Learned, NicLearned, Had, SendUntimedData
<1>3. m \in UntimedData
  <2>1. plan[n] \in Seq(Nic \cup {Broadcast})
    BY UntimedAssumption DEF InitInv, Typed
  <2>2. numSent[n] \in Nat /\ numSent[n] + 1 \in 1 .. Len(plan[n])
    BY <2>1, LenProperties DEF SendUntimedData, InitInv, Typed
  <2>3. plan[n][numSent[n] + 1] \in Nic \cup {Broadcast}
    BY <2>1, <2>2, ElementOfSeq
  <2>4. QED
    BY <2>2, <2>3 DEF UntimedPacket, UntimedData
<1>4. departing' = [e \in End |-> IF e \in out THEN Append(departing[e], m) ELSE departing[e]]
  <2>1. departing' = [departing EXCEPT ![Peer[n]] = @ \o <<m>>]
    BY DEF SendUntimedData, Send
  <2>2. departing[Peer[n]] \o <<m>> = Append(departing[Peer[n]], m)
    <3>1. departing[Peer[n]] \in Seq(Message) /\ m \in Message
      BY <1>1, <1>3 DEF InitInv, Typed, Message
    <3>2. QED
      BY <3>1, AppendIsConcat
  <2>3. departing \in [End -> Seq(Message)]
    BY DEF InitInv, Typed
  <2> HIDE DEF m
  <2>4. QED
    BY <1>1, <2>1, <2>2, <2>3
<1> HIDE DEF m
<1>5. numSent' \in [Nic -> Nat]
  BY DEF SendUntimedData, InitInv, Typed
<1>6. out \in SUBSET End
  BY <1>1
<1> HIDE DEF out
<1>7. portEvents' = portEvents /\ portEvents' \in [Port -> Seq(UntimedData)]
  BY DEF SendUntimedData, InitInv, Typed, portVars
<1>8. QED
  BY <1>2, <1>3, <1>4, <1>5, <1>6, <1>7, UntimedInv DEF SendUntimedData, portVars

-----------------------------------------------------------------------------
(* From phase to phase.                                                    *)

\* Everyone has been called, and what has been sent may be read from now on.
LEMMA PhaseEnds ==
  ASSUME InitInv, NextPhase
  PROVE  /\ called = End /\ called' = {} /\ phase' = IF phase < 4 THEN phase + 1 ELSE 4
         /\ phase \in 0 .. 4 /\ phase' \in 1 .. 4
         /\ \A e \in End : /\ arrived[e] = <<>> /\ departing[e] \in Seq(Message)
                           /\ arrived'[e] = departing[e] /\ departing'[e] = <<>>
         /\ arrived' \in [End -> Seq(Message)] /\ departing' \in [End -> Seq(Message)]
         /\ \A ph \in 0 .. 3, e \in End : Had(ph, e) <=> Had(ph, e)'
         /\ UNCHANGED <<portVars, nicVars, epVars>>
<1>1. /\ called = End /\ called' = {} /\ phase' = IF phase < 4 THEN phase + 1 ELSE 4
      /\ arrived' = [e \in End |-> arrived[e] \o departing[e]]
      /\ departing' = [e \in End |-> <<>>] /\ UNCHANGED <<portVars, nicVars, epVars>>
  BY DEF NextPhase
<1>2. phase \in 0 .. 4
  BY DEF InitInv, Typed
<1>3. phase' \in 1 .. 4
  BY <1>1, <1>2
<1>4. ASSUME NEW e \in End
      PROVE  /\ arrived[e] = <<>> /\ departing[e] \in Seq(Message)
             /\ arrived'[e] = departing[e] /\ departing'[e] = <<>>
  <2>1. arrived[e] = <<>>
    <3>1. CASE phase < 4
      BY <1>1, <3>1 DEF InitInv, Heeded
    <3>2. CASE phase = 4
      BY <1>1, <3>2 DEF InitInv, Settled
    <3>3. QED
      BY <1>2, <3>1, <3>2
  <2>2. departing[e] \in Seq(Message)
    BY DEF InitInv, Typed
  <2>3. QED
    BY <1>1, <2>1, <2>2, ConcatEmptySeq
<1>5. arrived' \in [End -> Seq(Message)] /\ departing' \in [End -> Seq(Message)]
  BY <1>1, <1>4, EmptySeq
<1>6. ASSUME NEW ph \in 0 .. 3, NEW e \in End PROVE Had(ph, e) <=> Had(ph, e)'
  BY <1>1, <1>2 DEF Had
<1>7. QED
  BY <1>1, <1>2, <1>3, <1>4, <1>5, <1>6

\* In the first phases somebody always has something to say.
LEMMA NotQuiet ==
  ASSUME InitInv, called = End, phase < 4
  PROVE  ~Quiet
<1>1. PICK n \in Nic : TRUE
  BY EndpointAssumption
<1>2. n \in End /\ Peer[n] \in Port /\ Peer[n] \in End /\ Peer[Peer[n]] = n /\ n \notin Port
  BY <1>1, EndFacts
<1>3. phase \in 0 .. 3
  BY DEF InitInv, Typed
<1>4. phase < 3 => departing[n] = SaidIn(phase, Peer[n])
  BY <1>2 DEF InitInv, Heeded
<1>5. phase = 3 => departing[n] # <<>>
  BY <1>2 DEF InitInv, Heeded
<1>6. \A a, b, c : <<a>> # <<>> /\ <<a, b, c>> # <<>>
  OBVIOUS
<1>7. CASE phase < 3
  <2>1. SaidIn(phase, Peer[n]) # <<>>
    BY <1>2, <1>6 DEF SaidIn
  <2>2. QED
    BY <1>2, <1>4, <1>7, <2>1 DEF Quiet
<1>8. CASE phase = 3
  BY <1>2, <1>5, <1>8 DEF Quiet
<1>9. QED
  BY <1>3, <1>7, <1>8

LEMMA NextPhaseInv ==
  ASSUME InitInv, NextPhase
  PROVE  InitInv'
<1>1. /\ called = End /\ called' = {} /\ phase' = IF phase < 4 THEN phase + 1 ELSE 4
      /\ phase \in 0 .. 4 /\ phase' \in 1 .. 4
      /\ \A e \in End : /\ arrived[e] = <<>> /\ departing[e] \in Seq(Message)
                        /\ arrived'[e] = departing[e] /\ departing'[e] = <<>>
      /\ arrived' \in [End -> Seq(Message)] /\ departing' \in [End -> Seq(Message)]
      /\ UNCHANGED <<portVars, nicVars, epVars>>
  BY PhaseEnds
<1>2. \A ph \in 0 .. 3, e \in End : Had(ph, e) <=> Had(ph, e)'
  BY PhaseEnds
<1>3. stage' = IF Quiet THEN "complete" ELSE stage
  BY DEF NextPhase
<1>4. Typed'
  BY <1>1, <1>3 DEF InitInv, Typed, portVars, nicVars, epVars
<1>5. Heeded'
  <2> SUFFICES ASSUME NEW e \in End
               PROVE  phase' < 4 => arrived'[e] = SaidIn(phase' - 1, Peer[e])
    BY <1>1, EndFacts DEF Heeded, SaidIn
  <2>1. phase < 3 => departing[e] = SaidIn(phase, Peer[e])
    BY <1>1, EndFacts DEF InitInv, Heeded
  <2>2. phase' < 4 => phase < 3 /\ phase' - 1 = phase
    BY <1>1
  <2>3. QED
    BY <1>1, <2>1, <2>2
<1>6. Learned'
  <2>1. ASSUME NEW p \in Port
        PROVE  PortLearned(p)' /\ perPortConnectedRtr'[p] = IF Had(2, p)' THEN connectedRtrId'[p] ELSE None
    <3>1. (Had(1, p) <=> Had(1, p)') /\ (Had(2, p) <=> Had(2, p)')
      BY <1>2, EndFacts
    <3>2. QED
      BY <1>1, <3>1 DEF InitInv, Learned, PortLearned, portVars
  <2>2. ASSUME NEW n \in Nic PROVE NicLearned(n)'
    <3>1. (Had(1, n) <=> Had(1, n)') /\ (Had(2, n) <=> Had(2, n)') /\ (Had(3, n) <=> Had(3, n)')
      BY <1>2, EndFacts
    <3>2. QED
      BY <1>1, <3>1 DEF InitInv, Learned, NicLearned, nicVars
  <2>3. QED
    BY <2>1, <2>2 DEF Learned
<1>7. ASSUME NEW e \in End, NEW vn, NEW vcs
      PROVE  /\ CreditsIn(arrived[e], vn, vcs) = 0 /\ CreditsIn(departing'[e], vn, vcs) = 0
             /\ CreditsIn(arrived'[e], vn, vcs) = CreditsIn(departing[e], vn, vcs)
             /\ CreditsIn(departing[e], vn, vcs) \in Nat
  BY <1>1, CreditsEmpty, CreditsReached
<1>8. Counted'
  <2>1. ASSUME NEW u \in PortUnit
        PROVE  destCredits'[u] + CreditsIn(arrived'[u[1]], u[2], {u[3]})
                               + CreditsIn(departing'[u[1]], u[2], {u[3]})
                 = IF Had(3, Peer[u[1]])' THEN LinkCredits(u) ELSE 0
    <3> DEFINE D == CreditsIn(departing[u[1]], u[2], {u[3]})
    <3>1. u[1] \in End /\ Peer[u[1]] \in End
      BY EndFacts DEF PortUnit
    <3>2. /\ CreditsIn(arrived[u[1]], u[2], {u[3]}) = 0
          /\ CreditsIn(departing'[u[1]], u[2], {u[3]}) = 0
          /\ CreditsIn(arrived'[u[1]], u[2], {u[3]}) = D /\ D \in Nat
      BY <1>7, <3>1
    <3>3. destCredits[u] + CreditsIn(arrived[u[1]], u[2], {u[3]}) + D
            = IF Had(3, Peer[u[1]]) THEN LinkCredits(u) ELSE 0
      BY DEF InitInv, Counted
    <3>4. destCredits[u] \in Nat /\ destCredits' = destCredits
      BY <1>1 DEF InitInv, Typed, portVars
    <3>5. Had(3, Peer[u[1]]) <=> Had(3, Peer[u[1]])'
      BY <1>2, <3>1
    <3> HIDE DEF D
    <3>6. QED
      BY <3>2, <3>3, <3>4, <3>5
  <2>2. ASSUME NEW x \in NicVn
        PROVE  rtrCredits'[x] + CreditsIn(arrived'[x[1]], x[2], VC)
                              + CreditsIn(departing'[x[1]], x[2], VC)
                 = IF Had(3, Peer[x[1]])' THEN LinkCredits(<<x[1], x[2], 0>>) ELSE 0
    <3> DEFINE D == CreditsIn(departing[x[1]], x[2], VC)
    <3>1. x[1] \in End /\ Peer[x[1]] \in End
      BY EndFacts DEF NicVn
    <3>2. /\ CreditsIn(arrived[x[1]], x[2], VC) = 0
          /\ CreditsIn(departing'[x[1]], x[2], VC) = 0
          /\ CreditsIn(arrived'[x[1]], x[2], VC) = D /\ D \in Nat
      BY <1>7, <3>1
    <3>3. rtrCredits[x] + CreditsIn(arrived[x[1]], x[2], VC) + D
            = IF Had(3, Peer[x[1]]) THEN LinkCredits(<<x[1], x[2], 0>>) ELSE 0
      BY DEF InitInv, Counted
    <3>4. rtrCredits[x] \in Nat /\ rtrCredits' = rtrCredits
      BY <1>1 DEF InitInv, Typed, nicVars
    <3>5. Had(3, Peer[x[1]]) <=> Had(3, Peer[x[1]])'
      BY <1>2, <3>1
    <3> HIDE DEF D
    <3>6. QED
      BY <3>2, <3>3, <3>4, <3>5
  <2>3. QED
    BY <2>1, <2>2 DEF Counted, LinkCredits
<1>9. Settled'
  <2>1. phase' < 4 => (\A p \in Port : portEvents'[p] = <<>>) /\ (\A n \in Nic : nicEvents'[n] = <<>>)
    BY <1>1 DEF InitInv, Settled, portVars, nicVars
  <2>2. ASSUME stage' = "complete" PROVE phase = 4 /\ phase' = 4 /\ CreditsGranted'
    <3>1. phase = 4
      <4>1. stage = "complete" => phase = 4
        BY DEF InitInv, Settled
      <4>2. Quiet => ~(phase < 4)
        BY <1>1, NotQuiet
      <4>3. QED
        BY <1>1, <1>3, <2>2, <4>1, <4>2
    <3>2. \A u \in PortUnit : destCredits[u] = LinkCredits(u)
      <4>1. CASE Quiet
        <5> SUFFICES ASSUME NEW u \in PortUnit PROVE destCredits[u] = LinkCredits(u)
          OBVIOUS
        <5>1. u[1] \in End /\ destCredits[u] \in Nat
          BY EndFacts DEF PortUnit, InitInv, Typed
        <5>2. arrived[u[1]] = <<>> /\ departing[u[1]] = <<>>
          BY <1>1, <4>1, <5>1 DEF Quiet
        <5>3. destCredits[u] + 0 + 0 = LinkCredits(u)
          BY <3>1, <5>2, CreditsEmpty, CountedLast DEF InitInv, Conserved
        <5>4. QED
          BY <5>1, <5>3
      <4>2. CASE ~Quiet
        BY <1>3, <2>2, <4>2 DEF InitInv, Settled, CreditsGranted
      <4>3. QED
        BY <4>1, <4>2
    <3>3. \A x \in NicVn : rtrCredits[x] = LinkCredits(<<x[1], x[2], 0>>)
      <4>1. CASE Quiet
        <5> SUFFICES ASSUME NEW x \in NicVn PROVE rtrCredits[x] = LinkCredits(<<x[1], x[2], 0>>)
          OBVIOUS
        <5>1. x[1] \in End /\ rtrCredits[x] \in Nat
          BY EndFacts DEF NicVn, InitInv, Typed
        <5>2. arrived[x[1]] = <<>> /\ departing[x[1]] = <<>>
          BY <1>1, <4>1, <5>1 DEF Quiet
        <5>3. rtrCredits[x] + 0 + 0 = LinkCredits(<<x[1], x[2], 0>>)
          BY <3>1, <5>2, CreditsEmpty, CountedLast DEF InitInv, Conserved
        <5>4. QED
          BY <5>1, <5>3
      <4>2. CASE ~Quiet
        BY <1>3, <2>2, <4>2 DEF InitInv, Settled, CreditsGranted
      <4>3. QED
        BY <4>1, <4>2
    <3>4. CreditsGranted'
      BY <1>1, <3>2, <3>3 DEF CreditsGranted, LinkCredits, portVars, nicVars
    <3>5. QED
      BY <1>1, <3>1, <3>4
  <2>3. \A e \in called' : arrived'[e] = <<>>
    BY <1>1
  <2>4. QED
    BY <2>1, <2>2, <2>3 DEF Settled
<1>10. QED
  BY <1>4, <1>5, <1>6, <1>8, <1>9 DEF InitInv

-----------------------------------------------------------------------------
(* The theorems.                                                           *)

LEMMA InitInvInit == ASSUME Init PROVE InitInv
<1>1. /\ stage = "init" /\ phase = 0 /\ called = {}
      /\ arrived = [e \in End |-> <<>>] /\ departing = [e \in End |-> <<>>]
  BY DEF Init
<1>2. Typed
  BY EmptySeq DEF Init, Typed
<1>3. Heeded
  BY <1>1, EndFacts DEF Heeded
<1>4. \A ph \in 1 .. 3, e \in End : ~Had(ph, e)
  BY <1>1 DEF Had
<1>5. Learned
  BY <1>4, EndFacts DEF Init, Learned, PortLearned, NicLearned
<1>6. Counted
  <2>1. ASSUME NEW u \in PortUnit
        PROVE  /\ destCredits[u] = 0 /\ ~Had(3, Peer[u[1]])
               /\ arrived[u[1]] = <<>> /\ departing[u[1]] = <<>>
    BY <1>1, <1>4, EndFacts DEF Init, PortUnit
  <2>2. ASSUME NEW x \in NicVn
        PROVE  /\ rtrCredits[x] = 0 /\ ~Had(3, Peer[x[1]])
               /\ arrived[x[1]] = <<>> /\ departing[x[1]] = <<>>
    BY <1>1, <1>4, EndFacts DEF Init, NicVn
  <2>3. QED
    BY <2>1, <2>2, CreditsEmpty DEF Counted
<1>7. Settled
  BY <1>1 DEF Init, Settled
<1>8. QED
  BY <1>2, <1>3, <1>5, <1>6, <1>7 DEF InitInv

LEMMA PortInitInv ==
  ASSUME InitInv, NEW p \in Port, PortInit(p)
  PROVE  InitInv'
<1>1. /\ p \notin called /\ called' = called \cup {p}
      /\ UNCHANGED <<stage, phase, nicVars, epVars>>
      /\ \/ PortReports(p) \/ PortMeetsRouter(p) \/ PortMeetsEndpoint(p)
         \/ PortNames(p) \/ PortGrants(p) \/ PortDrains(p)
  BY DEF PortInit
<1>2. QED
  BY <1>1, PortReportsInv, PortMeetsRouterInv, PortMeetsEndpointInv, PortNamesInv, PortGrantsInv,
     PortDrainsInv

LEMMA NicInitInv ==
  ASSUME InitInv, NEW n \in Nic, NicInit(n)
  PROVE  InitInv'
<1>1. /\ n \notin called /\ called' = called \cup {n}
      /\ UNCHANGED <<stage, phase, portVars, epVars>>
      /\ NicReports(n) \/ NicMeetsRouter(n) \/ NicResizes(n) \/ NicGrants(n) \/ NicDrains(n)
  BY DEF NicInit
<1>2. QED
  BY <1>1, NicReportsInv, NicMeetsRouterInv, NicResizesInv, NicGrantsInv, NicDrainsInv

LEMMA StutterInv ==
  ASSUME InitInv, UNCHANGED vars
  PROVE  InitInv'
<1>1. Typed'
  BY DEF InitInv, Typed, vars, linkVars, portVars, nicVars, epVars
<1>2. Heeded'
  BY DEF InitInv, Heeded, SaidIn, vars, linkVars
<1>3. Learned'
  BY DEF InitInv, Learned, PortLearned, NicLearned, Had, vars, portVars, nicVars
<1>4. Counted'
  <2>1. \A e : Had(3, e)' <=> Had(3, e)
    BY DEF Had, vars
  <2>2. /\ destCredits' = destCredits /\ rtrCredits' = rtrCredits
        /\ arrived' = arrived /\ departing' = departing
    BY DEF vars, linkVars, portVars, nicVars
  <2>3. QED
    BY <2>1, <2>2 DEF InitInv, Counted, LinkCredits
<1>5. Settled'
  BY DEF InitInv, Settled, CreditsGranted, LinkCredits, vars, linkVars, portVars, nicVars
<1>6. QED
  BY <1>1, <1>2, <1>3, <1>4, <1>5 DEF InitInv

LEMMA InitInvStep ==
  ASSUME InitInv, [Next]_vars
  PROVE  InitInv'
<1>1. ASSUME NEW p \in Port, PortInit(p) PROVE InitInv'
  BY <1>1, PortInitInv
<1>2. ASSUME NEW p \in Port, Relay(p) PROVE InitInv'
  BY <1>2, RelayInv
<1>3. ASSUME NEW n \in Nic, NicInit(n) PROVE InitInv'
  BY <1>3, NicInitInv
<1>4. ASSUME NEW n \in Nic, SendUntimedData(n) PROVE InitInv'
  BY <1>4, SendUntimedDataInv
<1>5. CASE NextPhase
  BY <1>5, NextPhaseInv
<1>6. CASE UNCHANGED vars
  BY <1>6, StutterInv
<1>7. QED
  BY <1>1, <1>2, <1>3, <1>4, <1>5, <1>6 DEF Next

LEMMA InitInvCorrect == Spec => []InitInv
<1>1. Init => InitInv
  BY InitInvInit
<1>2. InitInv /\ [Next]_vars => InitInv'
  BY InitInvStep
<1>3. QED
  BY <1>1, <1>2, PTL DEF Spec

\* Every queue holds well-formed messages and everyone's knowledge has the right
\* shape, throughout init() and complete().
THEOREM TypeCorrect == Spec => []TypeOK
<1>1. ASSUME InitInv PROVE TypeOK
  <2>1. ASSUME NEW queue \in Seq(Message) PROVE WellFormed(queue)
    <3>1. \A i \in DOMAIN queue : queue[i] \in Message
      BY LenProperties, ElementOfSeq
    <3>2. QED
      BY <3>1, MessageFacts DEF WellFormed
  <2>2. \A e \in End : WellFormed(arrived[e]) /\ WellFormed(departing[e])
    BY <1>1, <2>1 DEF InitInv, Typed
  <2>3. \A p \in Port : IF connectionType[p] = "ENDPOINT" THEN connectedRtrId[p] = "ENDPOINT"
                         ELSE connectedRtrId[p] \in Router \cup {None}
    <3> SUFFICES ASSUME NEW p \in Port
                 PROVE  IF connectionType[p] = "ENDPOINT" THEN connectedRtrId[p] = "ENDPOINT"
                        ELSE connectedRtrId[p] \in Router \cup {None}
      OBVIOUS
    <3>1. PortLearned(p)
      BY <1>1 DEF InitInv, Learned
    <3>2. \A q \in Port : RouterOf[q] \in Router
      BY TopologyAssumption
    <3>3. QED
      BY <3>1, <3>2 DEF PortLearned
  <2>4. \A p \in Port : perPortConnectedRtr[p] \in {None, connectedRtrId[p]}
    BY <1>1 DEF InitInv, Learned
  <2>5. QED
    BY <1>1, <2>2, <2>3, <2>4 DEF InitInv, Typed, TypeOK
<1>2. InitInv => TypeOK
  BY <1>1
<1>3. QED
  BY <1>2, InitInvCorrect, PTL

\* No call of init() is ever without the messages it insists on, in whatever order
\* the components are called.
THEOREM StartNeverFatal == Spec => []NeverFatal
<1>1. ASSUME InitInv PROVE NeverFatal
  <2> SUFFICES ASSUME NEW e \in End, e \notin called
               PROVE  /\ phase = 1 => Finds(e, FromRouter) \/ (e \in Port /\ Finds(e, FromEndpoint))
                      /\ phase = 2 /\ e \in Nic => Finds(e, Widths)
                      /\ phase = 3 /\ e \in Nic => Finds(e, Identity)
    BY DEF NeverFatal
  <2>1. ASSUME phase = 1
        PROVE  Finds(e, FromRouter) \/ (e \in Port /\ Finds(e, FromEndpoint))
    <3>1. CASE Peer[e] \in Port
      BY <1>1, <2>1, <3>1, Reported DEF Finds, FromRouter
    <3>2. CASE Peer[e] \notin Port
      <4>1. e \in Port
        BY <3>2, EndFacts
      <4>2. QED
        BY <1>1, <2>1, <3>2, <4>1, Reported DEF Finds, FromEndpoint
    <3>3. QED
      BY <3>1, <3>2
  <2>2. ASSUME phase = 2, e \in Nic PROVE Finds(e, Widths)
    BY <1>1, <2>2, NicTold DEF Finds, Widths
  <2>3. ASSUME phase = 3, e \in Nic PROVE Finds(e, Identity)
    BY <1>1, <2>3, NicTold DEF Finds, Identity
  <2>4. QED
    BY <2>1, <2>2, <2>3
<1>2. InitInv => NeverFatal
  BY <1>1
<1>3. QED
  BY <1>2, InitInvCorrect, PTL

\* When the run begins both ends of every link know each other.
THEOREM NeighboursMeet == Spec => []NeighboursKnown
<1>1. ASSUME InitInv PROVE NeighboursKnown
  <2> SUFFICES ASSUME stage = "complete"
               PROVE  /\ \A p \in Port :
                           IF Peer[p] \in Port
                           THEN connectedRtrId[p] = RouterOf[Peer[p]] /\ connectedPortId[p] = Peer[p]
                           ELSE connectionType[p] = "ENDPOINT"
                      /\ \A n \in Nic : /\ rtrId[n] = RouterOf[Peer[n]] /\ rtrPort[n] = Peer[n]
                                        /\ netID[n] = n
    BY DEF NeighboursKnown
  <2>1. \A e : Had(1, e) /\ Had(2, e) /\ Had(3, e)
    BY <1>1 DEF InitInv, Settled, Had
  <2>2. QED
    BY <1>1, <2>1 DEF InitInv, Learned, PortLearned, NicLearned
<1>2. InitInv => NeighboursKnown
  BY <1>1
<1>3. QED
  BY <1>2, InitInvCorrect, PTL

\* When the run begins every sender holds the credits of its stream, all of them and
\* once only.
THEOREM CreditsAllGranted == Spec => []CreditsGranted
<1>1. InitInv => CreditsGranted
  BY DEF InitInv, Settled, CreditsGranted
<1>2. QED
  BY <1>1, InitInvCorrect, PTL

-----------------------------------------------------------------------------
(* The messages of the endpoints, as UntimedBroadcast sees them.           *)

Arriving  == [p \in Port |-> Messages(portEvents[p] \o arrived[p])]
Departing == [e \in End |-> Messages(departing[e])]
Heard     == [n \in Nic |-> Messages(nicEvents[n] \o arrived[n])]

\* A message without its type, as Messages has it.
Content(m) == [src |-> m.src, dest |-> m.dest, num |-> m.num]

LEMMA UntimedWired ==
  /\ Untimed!wired.Port = Port /\ Untimed!wired.Nic = Nic /\ Untimed!wired.Peer = Peer
  /\ Untimed!wired.RouterOf = RouterOf /\ Untimed!wired.Route = Route
  /\ Untimed!wired.Flood = Flood /\ Untimed!wired.GatewayPort = {}
  /\ Untimed!wired.DomainOf = [r \in Router |-> "only"]
BY DEF Untimed!wired

LEMMA UntimedStutters ==
  ASSUME Arriving' = Arriving, Departing' = Departing, Heard' = Heard, UNCHANGED epVars
  PROVE  UNCHANGED Untimed!vars
BY DEF Untimed!vars, Arriving, Departing, Heard, epVars

LEMMA UntimedSends ==
  ASSUME NEW n \in Nic, numSent[n] < Len(plan[n]),
         numSent' = [numSent EXCEPT ![n] = @ + 1], plan' = plan,
         Arriving' = Arriving, Heard' = Heard,
         Departing' = [Departing EXCEPT ![Peer[n]] = Append(@, Content(UntimedPacket(n, numSent[n] + 1)))]
  PROVE  Untimed!SendUntimedData(n)
<1>1. Content(UntimedPacket(n, numSent[n] + 1)) = Untimed!Message(n, numSent[n] + 1)
  BY DEF Content, UntimedPacket, Untimed!Message
<1>2. QED
  BY <1>1, UntimedWired DEF Untimed!SendUntimedData, Arriving, Departing, Heard

LEMMA UntimedRelays ==
  ASSUME NEW p \in Port, Arriving[p] # <<>>, NEW out \in SUBSET End,
         out = {Peer[q] : q \in IF Head(Arriving[p]).dest = Broadcast THEN Flood[p]
                                ELSE {Route[RouterOf[p]][Head(Arriving[p]).dest]}},
         Departing' = [e \in End |-> IF e \in out THEN Append(Departing[e], Head(Arriving[p]))
                                     ELSE Departing[e]],
         Arriving' = [Arriving EXCEPT ![p] = Tail(@)], Heard' = Heard, UNCHANGED epVars
  PROVE  Untimed!Relay(p)
<1>1. \A m : Untimed!OutPorts(p, m) = IF m.dest = Broadcast THEN Flood[p]
                                      ELSE {Route[RouterOf[p]][m.dest]}
  BY UntimedWired DEF Untimed!OutPorts, Untimed!Duplicate
<1> DEFINE m == Head(Arriving[p])
           from == [q \in Port |-> Messages(portEvents[q] \o arrived[q])]
           to == [e \in End |-> Messages(departing[e])]
           heard == [n \in Nic |-> Messages(nicEvents[n] \o arrived[n])]
<1>2. out = {Untimed!wired.Peer[q] : q \in Untimed!OutPorts(p, m)}
  BY <1>1, UntimedWired
<1>3. from[p] # <<>> /\ Head(from[p]) = m
  BY DEF Arriving
<1>4. to' = [e \in Untimed!wired.Port \cup Untimed!wired.Nic |->
               IF e \in out THEN Append(to[e], m) ELSE to[e]]
  BY UntimedWired DEF Departing, End
<1>5. from' = [from EXCEPT ![p] = Tail(from[p])]
  BY DEF Arriving
<1>6. UNCHANGED <<"only", plan, numSent, heard>>
  BY DEF Heard, epVars
<1>7. p \notin Untimed!wired.GatewayPort
  BY UntimedWired
<1> HIDE DEF m, from, to, heard
<1>8. /\ from[p] # <<>>
      /\ LET x    == Head(from[p])
             reached == {Untimed!wired.Peer[q] : q \in Untimed!OutPorts(p, x)}
         IN  to' = [e \in Untimed!wired.Port \cup Untimed!wired.Nic |->
                      IF e \in reached THEN Append(to[e], x) ELSE to[e]]
      /\ from' = [from EXCEPT ![p] = Tail(from[p])]
      /\ UNCHANGED <<"only", plan, numSent, heard>>
  BY <1>2, <1>3, <1>4, <1>5, <1>6
<1>9. QED
  BY <1>7, <1>8, Zenon DEF Untimed!Relay, from, to, heard

LEMMA UntimedTurns ==
  ASSUME \A p \in Port : Arriving[p] = <<>>, NEW d \in End, Departing[d] # <<>>,
         Arriving' = [p \in Port |-> Departing[p]], Departing' = [e \in End |-> <<>>],
         Heard' = [n \in Nic |-> Heard[n] \o Departing[n]], UNCHANGED epVars
  PROVE  Untimed!NextPhase
BY UntimedWired DEF Untimed!NextPhase, Arriving, Departing, Heard, End, epVars

Contents == [src : Nic, dest : Nic \cup {Broadcast}, num : Nat]

LEMMA ContentType == \A m \in UntimedData : Content(m) \in Contents
BY DEF Content, Contents, UntimedData

Stripped(packets) == [i \in DOMAIN packets |-> Content(packets[i])]

LEMMA StrippedFacts ==
  ASSUME NEW s \in Seq(UntimedData)
  PROVE  /\ Stripped(s) \in Seq(Contents) /\ Len(Stripped(s)) = Len(s) /\ Len(s) \in Nat
         /\ \A i \in 1 .. Len(s) : Stripped(s)[i] = Content(s[i])
<1> DEFINE n == Len(s)
           t == Stripped(s)
<1>1. n \in Nat /\ DOMAIN s = 1 .. n /\ \A i \in 1 .. n : s[i] \in UntimedData
  BY LenProperties, ElementOfSeq
<1>2. t = [i \in 1 .. n |-> Content(s[i])]
  BY <1>1 DEF Stripped
<1>3. \A i \in 1 .. n : Content(s[i]) \in Contents
  BY <1>1, ContentType
<1> HIDE DEF n, t
<1>4. t \in [1 .. n -> Contents] /\ \A i \in 1 .. n : t[i] = Content(s[i])
  BY <1>2, <1>3
<1>5. t \in Seq(Contents) /\ Len(t) = n
  BY <1>1, <1>4
<1>6. QED
  BY <1>1, <1>4, <1>5 DEF n, t

LEMMA StrippedConcat ==
  ASSUME NEW s \in Seq(UntimedData), NEW t \in Seq(UntimedData)
  PROVE  Stripped(s \o t) = Stripped(s) \o Stripped(t)
<1> DEFINE w == s \o t
           a == Stripped(s)
           b == Stripped(t)
<1>1. /\ w \in Seq(UntimedData) /\ Len(w) = Len(s) + Len(t) /\ Len(s) \in Nat /\ Len(t) \in Nat
      /\ \A i \in 1 .. Len(s) + Len(t) : w[i] = IF i <= Len(s) THEN s[i] ELSE t[i - Len(s)]
  BY ConcatProperties, LenProperties
<1>2. /\ a \in Seq(Contents) /\ Len(a) = Len(s) /\ b \in Seq(Contents) /\ Len(b) = Len(t)
      /\ (\A i \in 1 .. Len(s) : a[i] = Content(s[i])) /\ (\A i \in 1 .. Len(t) : b[i] = Content(t[i]))
  BY StrippedFacts
<1> HIDE DEF w, a, b
<1>3. /\ Stripped(w) \in Seq(Contents) /\ Len(Stripped(w)) = Len(w)
      /\ \A i \in 1 .. Len(w) : Stripped(w)[i] = Content(w[i])
  BY <1>1, StrippedFacts
<1>4. /\ a \o b \in Seq(Contents) /\ Len(a \o b) = Len(a) + Len(b)
      /\ \A i \in 1 .. Len(a) + Len(b) : (a \o b)[i] = IF i <= Len(a) THEN a[i] ELSE b[i - Len(a)]
  <2>1. a \in Seq(Contents) /\ b \in Seq(Contents)
    BY <1>2
  <2>2. QED
    BY <2>1, ConcatProperties
<1>5. ASSUME NEW i \in 1 .. Len(w) PROVE Stripped(w)[i] = (a \o b)[i]
  <2>1. CASE i <= Len(s)
    <3>1. i \in 1 .. Len(s)
      BY <1>1, <2>1
    <3>2. QED
      BY <1>1, <1>2, <1>3, <1>4, <2>1, <3>1
  <2>2. CASE ~(i <= Len(s))
    <3>1. i - Len(s) \in 1 .. Len(t)
      BY <1>1, <2>2
    <3>2. QED
      BY <1>1, <1>2, <1>3, <1>4, <2>2, <3>1
  <2>3. QED
    BY <2>1, <2>2
<1>6. Stripped(w) = a \o b
  BY <1>1, <1>2, <1>3, <1>4, <1>5, SeqEqual
<1>7. QED
  BY <1>6 DEF w, a, b

LEMMA MessagesStripped == \A q : Messages(q) = Stripped(Packets(q))
BY DEF Messages, Stripped, Content

LEMMA MessagesType ==
  ASSUME NEW q \in Seq(Message)
  PROVE  Messages(q) \in Seq(Contents)
BY PacketsReached, MessagesStripped, StrippedFacts

LEMMA MessagesConcat ==
  ASSUME NEW q \in Seq(Message), NEW r \in Seq(Message)
  PROVE  Messages(q \o r) = Messages(q) \o Messages(r)
<1>1. Packets(q) \in Seq(UntimedData) /\ Packets(r) \in Seq(UntimedData)
  BY PacketsReached
<1>2. Stripped(Packets(q) \o Packets(r)) = Stripped(Packets(q)) \o Stripped(Packets(r))
  BY <1>1, StrippedConcat
<1>3. QED
  BY <1>2, PacketsConcat, MessagesStripped

LEMMA MessagesEmpty == Messages(<<>>) = <<>>
<1>1. <<>> \in Seq(UntimedData) /\ Len(<<>>) = 0
  BY EmptySeq
<1>2. Stripped(<<>>) = <<>>
  BY <1>1, StrippedFacts, EmptySeq
<1>3. QED
  BY <1>2, PacketsEmpty, MessagesStripped

\* A queue without packets says nothing.
LEMMA MessagesOfNone ==
  ASSUME NEW q \in Seq(Message), \A i \in 1 .. Len(q) : q[i].type # "PACKET"
  PROVE  Messages(q) = <<>>
BY PacketsOfNone, PacketsEmpty, MessagesEmpty, MessagesStripped

LEMMA MessagesOfPackets ==
  ASSUME NEW q \in Seq(Message)
  PROVE  Packets(q) \in Seq(Message) /\ Messages(Packets(q)) = Messages(q)
<1>1. Packets(q) \in Seq(UntimedData)
  BY PacketsReached
<1>2. Packets(q) \in Seq(Message) /\ Packets(Packets(q)) = Packets(q)
  BY <1>1, PacketsOfPackets
<1>3. QED
  BY <1>2, MessagesStripped

LEMMA MessagesAppend ==
  ASSUME NEW q \in Seq(Message), NEW m \in UntimedData
  PROVE  Messages(Append(q, m)) = Append(Messages(q), Content(m))
<1>1. /\ m \in Message /\ <<m>> \in Seq(Message) /\ <<m>> \in Seq(UntimedData)
      /\ Append(q, m) = q \o <<m>>
  BY AppendIsConcat DEF Message
<1>2. Messages(<<m>>) = <<Content(m)>>
  <2>1. Packets(<<m>>) = <<m>>
    BY <1>1, PacketsOfPackets
  <2>2. Stripped(<<m>>) = <<Content(m)>>
    <3> DEFINE one == <<m>>
               stripped == Stripped(one)
    <3>1. one \in Seq(UntimedData) /\ Len(one) = 1 /\ one[1] = m
      BY <1>1
    <3> HIDE DEF one
    <3>2. /\ stripped \in Seq(Contents) /\ Len(stripped) = Len(one)
          /\ \A i \in 1 .. Len(one) : stripped[i] = Content(one[i])
      BY <3>1, StrippedFacts
    <3> HIDE DEF stripped
    <3>3. Len(stripped) = 1 /\ stripped[1] = Content(m)
      BY <3>1, <3>2
    <3>4. stripped = <<Content(m)>>
      BY <3>2, <3>3
    <3>5. QED
      BY <3>4 DEF one, stripped
  <2>5. QED
    BY <2>1, <2>2, MessagesStripped
<1>3. Messages(q) \in Seq(Contents) /\ Content(m) \in Contents
  BY MessagesType, ContentType
<1>4. Messages(q \o <<m>>) = Messages(q) \o <<Content(m)>>
  <2>1. Messages(q \o <<m>>) = Messages(q) \o Messages(<<m>>)
    BY <1>1, MessagesConcat
  <2>2. QED
    BY <1>2, <2>1
<1>5. Append(Messages(q), Content(m)) = Messages(q) \o <<Content(m)>>
  BY <1>3, AppendIsConcat
<1>6. QED
  BY <1>1, <1>4, <1>5

\* The first message of a port, when it has some to relay.
LEMMA MessagesHead ==
  ASSUME NEW s \in Seq(UntimedData), s # <<>>, NEW r \in Seq(Message)
  PROVE  /\ Messages(s \o r) # <<>> /\ Head(Messages(s \o r)) = Content(Head(s))
         /\ Tail(Messages(s \o r)) = Messages(Tail(s) \o r)
<1> DEFINE m == Head(s)
           t == Tail(s)
           x == Messages(t)
           y == Messages(r)
           c == <<Content(m)>>
<1>1. m \in UntimedData /\ t \in Seq(UntimedData)
  BY HeadTailProperties
<1>2. s \in Seq(Message) /\ t \in Seq(Message)
  BY <1>1, PacketsOfPackets
<1>3. m \in Message /\ <<m>> \in Seq(Message) /\ <<>> \in Seq(Message) /\ Append(<<>>, m) = <<m>>
  BY <1>1, EmptySeq DEF Message
<1>4. s = <<m>> \o t
  BY <1>1, ConcatProperties, HeadTailProperties, SeqEqual
<1>5. Messages(<<m>>) = c
  <2>1. Messages(Append(<<>>, m)) = Append(<<>>, Content(m))
    BY <1>1, <1>3, MessagesAppend, MessagesEmpty
  <2>2. Append(<<>>, Content(m)) = c
    OBVIOUS
  <2>3. QED
    BY <1>3, <2>1, <2>2
<1>6. x \in Seq(Contents) /\ y \in Seq(Contents) /\ c \in Seq(Contents) /\ Content(m) \in Contents
  <2>1. x \in Seq(Contents)
    BY <1>2, MessagesType
  <2>2. y \in Seq(Contents)
    BY MessagesType
  <2>3. Content(m) \in Contents
    BY <1>1, ContentType
  <2>4. \A d \in Contents : <<d>> \in Seq(Contents)
    OBVIOUS
  <2> HIDE DEF m, x, y
  <2>5. QED
    BY <2>1, <2>2, <2>3, <2>4
<1> HIDE DEF m, t, x, y
<1>7. Messages(s) = c \o x
  BY <1>2, <1>3, <1>4, <1>5, MessagesConcat DEF x
<1>8. c \o x # <<>> /\ Head(c \o x) = Content(m) /\ Tail(c \o x) = x
  <2>1. c # <<>> /\ Head(c) = Content(m) /\ Tail(c) = <<>>
    OBVIOUS
  <2>2. <<>> \o x = x
    BY <1>6, ConcatEmptySeq
  <2> HIDE DEF c
  <2>3. c \o x # <<>> /\ Head(c \o x) = Head(c) /\ Tail(c \o x) = Tail(c) \o x
    BY <1>6, <2>1, TakeFromFirst
  <2>4. QED
    BY <2>1, <2>2, <2>3
<1>9. Messages(s \o r) = (c \o x) \o y /\ Messages(t \o r) = x \o y
  BY <1>2, <1>7, MessagesConcat DEF x, y
<1>10. c \o x \in Seq(Contents)
  BY <1>6, ConcatProperties
<1> HIDE DEF c
<1>11. /\ (c \o x) \o y # <<>> /\ Head((c \o x) \o y) = Head(c \o x)
       /\ Tail((c \o x) \o y) = Tail(c \o x) \o y
  BY <1>6, <1>8, <1>10, TakeFromFirst
<1>12. QED
  BY <1>8, <1>9, <1>11 DEF m, t

\* What is said in the first three phases is none of it.
LEMMA SaidSilently ==
  ASSUME NEW e \in End, NEW ph \in 0 .. 2
  PROVE  Messages(SaidIn(ph, e)) = <<>>
<1>1. /\ SaidIn(ph, e) \in Seq(Message)
      /\ \A i \in 1 .. Len(SaidIn(ph, e)) : SaidIn(ph, e)[i] \in Greeting
  BY GreetingFacts
<1>2. \A i \in 1 .. Len(SaidIn(ph, e)) : SaidIn(ph, e)[i].type # "PACKET"
  BY <1>1 DEF Greeting
<1>3. QED
  BY <1>1, <1>2, MessagesOfNone

\* So none of it moves in the first phases ...
LEMMA SilentSteps ==
  ASSUME InitInv, InitInv', phase < 4, phase' = phase
  PROVE  Arriving' = Arriving /\ Heard' = Heard /\ (phase < 3 => Departing' = Departing)
<1>1. phase \in 0 .. 4
  BY DEF InitInv, Typed
<1>2. ASSUME NEW e \in End PROVE Messages(arrived[e]) = <<>> /\ Messages(arrived'[e]) = <<>>
  <2>1. Peer[e] \in End /\ (phase # 0 => phase - 1 \in 0 .. 2)
    BY <1>1, EndFacts
  <2>2. arrived[e] = <<>> \/ (phase # 0 /\ arrived[e] = SaidIn(phase - 1, Peer[e]))
    BY DEF InitInv, Heeded
  <2>3. arrived'[e] = <<>> \/ (phase # 0 /\ arrived'[e] = SaidIn(phase - 1, Peer[e]))
    BY DEF InitInv, Heeded, SaidIn
  <2>4. QED
    BY <2>1, <2>2, <2>3, SaidSilently, MessagesEmpty
<1>3. ASSUME NEW e \in End, phase < 3
      PROVE  Messages(departing[e]) = <<>> /\ Messages(departing'[e]) = <<>>
  <2>1. Peer[e] \in End /\ phase \in 0 .. 2
    BY <1>1, <1>3, EndFacts
  <2>2. departing[e] = <<>> \/ departing[e] = SaidIn(phase, Peer[e])
    BY <1>3 DEF InitInv, Heeded
  <2>3. departing'[e] = <<>> \/ departing'[e] = SaidIn(phase, Peer[e])
    BY <1>3 DEF InitInv, Heeded, SaidIn
  <2>4. QED
    BY <2>1, <2>2, <2>3, SaidSilently, MessagesEmpty
<1>4. ASSUME NEW e \in End
      PROVE  <<>> \o arrived[e] = arrived[e] /\ <<>> \o arrived'[e] = arrived'[e]
  <2>1. arrived[e] \in Seq(Message) /\ arrived'[e] \in Seq(Message)
    BY DEF InitInv, Typed
  <2>2. QED
    BY <2>1, ConcatEmptySeq
<1>5. \A p \in Port : portEvents[p] = <<>> /\ portEvents'[p] = <<>>
  BY DEF InitInv, Settled
<1>6. \A n \in Nic : nicEvents[n] = <<>> /\ nicEvents'[n] = <<>>
  BY DEF InitInv, Settled
<1>7. Arriving' = Arriving
  <2>1. \A p \in Port : Messages(portEvents[p] \o arrived[p]) = Messages(portEvents'[p] \o arrived'[p])
    <3> SUFFICES ASSUME NEW p \in Port
                 PROVE  Messages(portEvents[p] \o arrived[p]) = Messages(portEvents'[p] \o arrived'[p])
      OBVIOUS
    <3>1. p \in End
      BY EndFacts
    <3>2. portEvents[p] \o arrived[p] = arrived[p] /\ portEvents'[p] \o arrived'[p] = arrived'[p]
      BY <1>4, <1>5, <3>1
    <3>3. QED
      BY <1>2, <3>1, <3>2
  <2>2. QED
    BY <2>1 DEF Arriving
<1>8. Heard' = Heard
  <2>1. \A n \in Nic : Messages(nicEvents[n] \o arrived[n]) = Messages(nicEvents'[n] \o arrived'[n])
    <3> SUFFICES ASSUME NEW n \in Nic
                 PROVE  Messages(nicEvents[n] \o arrived[n]) = Messages(nicEvents'[n] \o arrived'[n])
      OBVIOUS
    <3>1. n \in End
      BY EndFacts
    <3>2. nicEvents[n] \o arrived[n] = arrived[n] /\ nicEvents'[n] \o arrived'[n] = arrived'[n]
      BY <1>4, <1>6, <3>1
    <3>3. QED
      BY <1>2, <3>1, <3>2
  <2>2. QED
    BY <2>1 DEF Heard
<1>9. phase < 3 => Departing' = Departing
  BY <1>3 DEF Departing
<1>10. QED
  BY <1>7, <1>8, <1>9

\* ... nor when credits are granted.
LEMMA SilentGrants ==
  ASSUME InitInv, NEW e \in End, NEW ms \in Seq(Message), Send(e, ms),
         \A i \in 1 .. Len(ms) : ms[i].type = "CREDIT"
  PROVE  Departing' = Departing
<1>1. Messages(ms) = <<>>
  BY MessagesOfNone
<1>2. ASSUME NEW d \in End PROVE Messages(departing'[d]) = Messages(departing[d])
  <2>1. departing[d] \in Seq(Message)
    BY DEF InitInv, Typed
  <2>2. departing'[d] = IF Peer[d] = e THEN departing[d] \o ms ELSE departing[d]
    BY SendFacts DEF InitInv, Typed
  <2>3. Messages(departing[d] \o ms) = Messages(departing[d])
    <3>1. Messages(departing[d] \o ms) = Messages(departing[d]) \o Messages(ms)
      BY <2>1, MessagesConcat
    <3>2. Messages(departing[d]) \in Seq(Contents)
      BY <2>1, MessagesType
    <3>3. QED
      BY <1>1, <3>1, <3>2, ConcatEmptySeq
  <2>4. QED
    BY <2>2, <2>3
<1>3. QED
  BY <1>2 DEF Departing

LEMMA PortInitStutters ==
  ASSUME InitInv, InitInv', NEW p \in Port, PortInit(p)
  PROVE  UNCHANGED Untimed!vars
<1>1. p \in End /\ phase' = phase /\ UNCHANGED <<nicVars, epVars>> /\ phase \in 0 .. 4
  BY EndFacts DEF PortInit, InitInv, Typed
<1>2. CASE phase < 3
  <2>1. Arriving' = Arriving /\ Heard' = Heard /\ Departing' = Departing
    BY <1>1, <1>2, SilentSteps
  <2>2. QED
    BY <1>1, <2>1, UntimedStutters
<1>3. CASE phase = 3
  <2>1. PortGrants(p)
    <3>1. ~Draining
      BY <1>3, DrainingIsLast
    <3>2. ~PortDrains(p)
      BY <3>1 DEF PortDrains
    <3>3. ~PortReports(p) /\ ~PortMeetsRouter(p) /\ ~PortMeetsEndpoint(p) /\ ~PortNames(p)
      BY <1>3 DEF PortReports, PortMeetsRouter, PortMeetsEndpoint, PortNames
    <3>4. QED
      BY <3>2, <3>3 DEF PortInit
  <2> DEFINE k == IF connectionType[p] = "ROUTER" THEN NumVcs ELSE 1
             ms == Grants(k, InCap[p])
  <2>2. k \in 1 .. NumVcs /\ InCap[p] \in Nat
    BY <1>1, SizeAssumption
  <2>3. Send(p, ms)
    BY <2>1 DEF PortGrants
  <2> HIDE DEF k
  <2>4. ms \in Seq(Message) /\ \A i \in 1 .. Len(ms) : ms[i].type = "CREDIT"
    BY <2>2, GrantsFacts
  <2> HIDE DEF ms
  <2>5. Departing' = Departing
    BY <1>1, <2>3, <2>4, SilentGrants
  <2>6. Arriving' = Arriving /\ Heard' = Heard
    BY <1>1, <1>3, SilentSteps
  <2>7. QED
    BY <1>1, <2>5, <2>6, UntimedStutters
<1>4. CASE phase = 4
  <2>1. /\ Takes(p, arrived[p]) /\ departing' = departing
        /\ portEvents' = [portEvents EXCEPT ![p] = @ \o Packets(arrived[p])]
    BY <1>4 DEF PortInit, PortDrains, Draining
  <2>2. \A d \in End : arrived'[d] = IF d = p THEN <<>> ELSE arrived[d]
    BY <1>1, <2>1, TakesAll DEF InitInv, Typed
  <2>3. ASSUME NEW q \in Port
        PROVE  Messages(portEvents'[q] \o arrived'[q]) = Messages(portEvents[q] \o arrived[q])
    <3>1. /\ q \in End /\ arrived[q] \in Seq(Message) /\ portEvents[q] \in Seq(UntimedData)
          /\ portEvents[q] \in Seq(Message)
      BY EndFacts, PacketsOfPackets DEF InitInv, Typed
    <3>2. CASE q = p
      <4> DEFINE pe == portEvents[q]
                 a == arrived[q]
                 b == Packets(a)
      <4>1. portEvents'[q] = pe \o b /\ arrived'[q] = <<>>
        BY <2>1, <2>2, <3>1, <3>2 DEF InitInv, Typed
      <4>2. b \in Seq(Message) /\ Messages(b) = Messages(a)
        BY <3>1, MessagesOfPackets
      <4> HIDE DEF pe, a, b
      <4>3. Messages(pe \o a) = Messages(pe) \o Messages(a)
        BY <3>1, MessagesConcat DEF pe, a
      <4>4. Messages(pe \o b) = Messages(pe) \o Messages(b)
        BY <3>1, <4>2, MessagesConcat DEF pe
      <4>5. (pe \o b) \o <<>> = pe \o b
        <5>1. pe \o b \in Seq(Message)
          BY <3>1, <4>2, ConcatProperties DEF pe
        <5>2. QED
          BY <5>1, ConcatEmptySeq
      <4>6. QED
        BY <4>1, <4>2, <4>3, <4>4, <4>5 DEF pe, a
    <3>3. CASE q # p
      BY <2>1, <2>2, <3>1, <3>3
    <3>4. QED
      BY <3>2, <3>3
  <2>4. Arriving' = Arriving
    BY <2>3 DEF Arriving
  <2>5. Heard' = Heard
    <3>1. \A n \in Nic : arrived'[n] = arrived[n]
      BY <1>1, <2>2, EndFacts
    <3>2. QED
      BY <1>1, <3>1 DEF Heard, nicVars
  <2>6. Departing' = Departing
    BY <2>1 DEF Departing
  <2>7. QED
    BY <1>1, <2>4, <2>5, <2>6, UntimedStutters
<1>5. QED
  BY <1>1, <1>2, <1>3, <1>4

LEMMA NicInitStutters ==
  ASSUME InitInv, InitInv', NEW n \in Nic, NicInit(n)
  PROVE  UNCHANGED Untimed!vars
<1>1. n \in End /\ phase' = phase /\ UNCHANGED <<portVars, epVars>> /\ phase \in 0 .. 4
  BY EndFacts DEF NicInit, InitInv, Typed
<1>2. CASE phase < 3
  <2>1. Arriving' = Arriving /\ Heard' = Heard /\ Departing' = Departing
    BY <1>1, <1>2, SilentSteps
  <2>2. QED
    BY <1>1, <2>1, UntimedStutters
<1>3. CASE phase = 3
  <2>1. NicGrants(n)
    <3>1. ~Draining
      BY <1>3, DrainingIsLast
    <3>2. ~NicDrains(n)
      BY <3>1 DEF NicDrains
    <3>3. ~NicReports(n) /\ ~NicMeetsRouter(n) /\ ~NicResizes(n)
      BY <1>3 DEF NicReports, NicMeetsRouter, NicResizes
    <3>4. QED
      BY <3>2, <3>3 DEF NicInit
  <2> DEFINE ms == [vn \in 1 .. NumVns |-> Credit(vn - 1, 0, InCap[n])]
  <2>2. numVns[n] = NumVns /\ InCap[n] \in Nat
    BY <1>1, <1>3, SizeAssumption DEF InitInv, Learned, NicLearned, Had
  <2>3. Send(n, ms)
    BY <2>1, <2>2 DEF NicGrants
  <2>4. ms \in Seq(Message) /\ \A i \in 1 .. Len(ms) : ms[i].type = "CREDIT"
    BY <2>2, NicGrantsFacts
  <2> HIDE DEF ms
  <2>5. Departing' = Departing
    BY <1>1, <2>3, <2>4, SilentGrants
  <2>6. Arriving' = Arriving /\ Heard' = Heard
    BY <1>1, <1>3, SilentSteps
  <2>7. QED
    BY <1>1, <2>5, <2>6, UntimedStutters
<1>4. CASE phase = 4
  <2>1. /\ Takes(n, arrived[n]) /\ departing' = departing
        /\ nicEvents' = [nicEvents EXCEPT ![n] = @ \o Packets(arrived[n])]
    BY <1>4 DEF NicInit, NicDrains, Draining
  <2>2. \A d \in End : arrived'[d] = IF d = n THEN <<>> ELSE arrived[d]
    BY <1>1, <2>1, TakesAll DEF InitInv, Typed
  <2>3. ASSUME NEW q \in Nic
        PROVE  Messages(nicEvents'[q] \o arrived'[q]) = Messages(nicEvents[q] \o arrived[q])
    <3>1. /\ q \in End /\ arrived[q] \in Seq(Message) /\ nicEvents[q] \in Seq(UntimedData)
          /\ nicEvents[q] \in Seq(Message)
      BY EndFacts, PacketsOfPackets DEF InitInv, Typed
    <3>2. CASE q = n
      <4> DEFINE ne == nicEvents[q]
                 a == arrived[q]
                 b == Packets(a)
      <4>1. nicEvents'[q] = ne \o b /\ arrived'[q] = <<>>
        BY <2>1, <2>2, <3>1, <3>2 DEF InitInv, Typed
      <4>2. b \in Seq(Message) /\ Messages(b) = Messages(a)
        BY <3>1, MessagesOfPackets
      <4> HIDE DEF ne, a, b
      <4>3. Messages(ne \o a) = Messages(ne) \o Messages(a)
        BY <3>1, MessagesConcat DEF ne, a
      <4>4. Messages(ne \o b) = Messages(ne) \o Messages(b)
        BY <3>1, <4>2, MessagesConcat DEF ne
      <4>5. (ne \o b) \o <<>> = ne \o b
        <5>1. ne \o b \in Seq(Message)
          BY <3>1, <4>2, ConcatProperties DEF ne
        <5>2. QED
          BY <5>1, ConcatEmptySeq
      <4>6. QED
        BY <4>1, <4>2, <4>3, <4>4, <4>5 DEF ne, a
    <3>3. CASE q # n
      BY <2>1, <2>2, <3>1, <3>3
    <3>4. QED
      BY <3>2, <3>3
  <2>4. Heard' = Heard
    BY <2>3 DEF Heard
  <2>5. Arriving' = Arriving
    <3>1. \A p \in Port : arrived'[p] = arrived[p]
      BY <1>1, <2>2, EndFacts
    <3>2. QED
      BY <1>1, <3>1 DEF Arriving, portVars
  <2>6. Departing' = Departing
    BY <2>1 DEF Departing
  <2>7. QED
    BY <1>1, <2>4, <2>5, <2>6, UntimedStutters
<1>5. QED
  BY <1>1, <1>2, <1>3, <1>4

LEMMA RelayImplements ==
  ASSUME InitInv, InitInv', NEW p \in Port, Relay(p)
  PROVE  Untimed!Relay(p)
<1> DEFINE pe == portEvents[p]
           m  == Head(pe)
           out == {Peer[q] : q \in OutPorts(p, m)}
           c  == Content(m)
<1>1. /\ p \in End /\ pe # <<>> /\ pe \in Seq(UntimedData) /\ arrived[p] \in Seq(Message)
      /\ arrived' = arrived /\ UNCHANGED <<epVars, nicVars>>
      /\ portEvents' = [portEvents EXCEPT ![p] = Tail(pe)]
      /\ departing' = [e \in End |-> IF e \in out THEN Append(departing[e], m) ELSE departing[e]]
  BY EndFacts DEF Relay, InitInv, Typed
<1>2. m \in UntimedData /\ Tail(pe) \in Seq(UntimedData)
  BY <1>1, HeadTailProperties
<1>3. \A q \in Port : perPortConnectedRtr[q] # None
  <2>1. phase = 4
    BY <1>1 DEF InitInv, Typed, Settled
  <2>2. ASSUME NEW q \in Port PROVE perPortConnectedRtr[q] # None
    <3>1. Had(1, q) /\ Had(2, q)
      BY <2>1 DEF Had
    <3>2. perPortConnectedRtr[q] = connectedRtrId[q] /\ PortLearned(q)
      BY <3>1 DEF InitInv, Learned
    <3>3. connectedRtrId[q] \in Router \cup {"ENDPOINT"}
      BY <3>1, <3>2, TopologyAssumption DEF PortLearned
    <3>4. QED
      BY <3>2, <3>3, RouterIdAssumption
  <2>3. QED
    BY <2>2
<1>4. c.dest = m.dest
  BY DEF Content
<1>5. OutPorts(p, m) = IF c.dest = Broadcast THEN Flood[p] ELSE {Route[RouterOf[p]][c.dest]}
  BY <1>3, <1>4, UntimedAssumption DEF OutPorts
<1>6. out \in SUBSET End
  <2>1. m.dest \in Nic \cup {Broadcast}
    BY <1>2 DEF UntimedData
  <2>2. OutPorts(p, m) \subseteq Port
    BY <2>1, UntimedAssumption, TopologyAssumption DEF OutPorts
  <2>3. QED
    BY <2>2, EndFacts
<1>7. Arriving[p] # <<>> /\ Head(Arriving[p]) = c /\ Tail(Arriving[p]) = Messages(Tail(pe) \o arrived[p])
  <2>1. Arriving[p] = Messages(pe \o arrived[p])
    BY DEF Arriving
  <2> HIDE DEF pe
  <2>2. QED
    BY <1>1, <2>1, MessagesHead
<1>8. Arriving' = [Arriving EXCEPT ![p] = Tail(Arriving[p])]
  <2>1. \A q \in Port : Messages(portEvents'[q] \o arrived'[q])
                          = IF q = p THEN Tail(Arriving[p]) ELSE Messages(portEvents[q] \o arrived[q])
    BY <1>1, <1>7 DEF InitInv, Typed
  <2>2. QED
    BY <2>1 DEF Arriving
<1>9. Departing' = [e \in End |-> IF e \in out THEN Append(Departing[e], c) ELSE Departing[e]]
  <2>1. ASSUME NEW e \in End
        PROVE  Messages(departing'[e]) = IF e \in out THEN Append(Messages(departing[e]), c)
                                         ELSE Messages(departing[e])
    <3>1. departing[e] \in Seq(Message)
      BY DEF InitInv, Typed
    <3>2. Messages(Append(departing[e], m)) = Append(Messages(departing[e]), c)
      BY <1>2, <3>1, MessagesAppend
    <3> HIDE DEF m, out, c
    <3>3. departing'[e] = IF e \in out THEN Append(departing[e], m) ELSE departing[e]
      BY <1>1
    <3>4. QED
      BY <3>2, <3>3
  <2> HIDE DEF m, out, c
  <2>2. QED
    BY <2>1 DEF Departing
<1>10. Heard' = Heard
  BY <1>1 DEF Heard, nicVars
<1>11. out = {Peer[q] : q \in IF c.dest = Broadcast THEN Flood[p] ELSE {Route[RouterOf[p]][c.dest]}}
  BY <1>5
<1> HIDE DEF pe, m, out, c
<1>12. QED
  BY <1>1, <1>6, <1>7, <1>8, <1>9, <1>10, <1>11, UntimedRelays

LEMMA SendImplements ==
  ASSUME InitInv, InitInv', NEW n \in Nic, SendUntimedData(n)
  PROVE  Untimed!SendUntimedData(n)
<1> DEFINE m == UntimedPacket(n, numSent[n] + 1)
<1>1. /\ n \in End /\ Peer[n] \in End /\ numSent[n] < Len(plan[n])
      /\ numSent' = [numSent EXCEPT ![n] = @ + 1] /\ plan' = plan
      /\ departing' = [departing EXCEPT ![Peer[n]] = @ \o <<m>>]
      /\ UNCHANGED <<arrived, portVars, nicVars>>
  BY EndFacts DEF SendUntimedData, Send
<1>2. m \in UntimedData
  <2>1. plan[n] \in Seq(Nic \cup {Broadcast})
    BY UntimedAssumption DEF InitInv, Typed
  <2>2. numSent[n] \in Nat /\ numSent[n] + 1 \in 1 .. Len(plan[n])
    BY <1>1, <2>1, LenProperties DEF InitInv, Typed
  <2>3. plan[n][numSent[n] + 1] \in Nic \cup {Broadcast}
    BY <2>1, <2>2, ElementOfSeq
  <2>4. QED
    BY <2>2, <2>3 DEF UntimedPacket, UntimedData
<1>3. Arriving' = Arriving /\ Heard' = Heard
  BY <1>1 DEF Arriving, Heard, portVars, nicVars
<1> HIDE DEF m
<1>4. Departing' = [Departing EXCEPT ![Peer[n]] = Append(@, Content(m))]
  <2>1. ASSUME NEW e \in End
        PROVE  Messages(departing'[e]) = IF e = Peer[n] THEN Append(Messages(departing[e]), Content(m))
                                         ELSE Messages(departing[e])
    <3>1. departing[e] \in Seq(Message) /\ m \in Message
      BY <1>2 DEF InitInv, Typed, Message
    <3>2. Messages(Append(departing[e], m)) = Append(Messages(departing[e]), Content(m))
      BY <1>2, <3>1, MessagesAppend
    <3>3. departing[e] \o <<m>> = Append(departing[e], m)
      BY <3>1, AppendIsConcat
    <3>4. departing'[e] = IF e = Peer[n] THEN departing[e] \o <<m>> ELSE departing[e]
      BY <1>1 DEF InitInv, Typed
    <3>5. QED
      BY <3>2, <3>3, <3>4
  <2>2. QED
    BY <1>1, <2>1 DEF Departing
<1>5. QED
  BY <1>1, <1>3, <1>4, UntimedSends DEF m

LEMMA NextPhaseImplements ==
  ASSUME InitInv, InitInv', NextPhase
  PROVE  Untimed!NextPhase \/ UNCHANGED Untimed!vars
<1>1. /\ \A e \in End : /\ arrived[e] = <<>> /\ departing[e] \in Seq(Message)
                        /\ arrived'[e] = departing[e] /\ departing'[e] = <<>>
      /\ UNCHANGED <<portVars, nicVars, epVars>>
  BY PhaseEnds
<1>2. ASSUME NEW p \in Port
      PROVE  /\ Messages(portEvents[p] \o arrived[p]) = <<>>
             /\ Messages(portEvents'[p] \o arrived'[p]) = Messages(departing[p])
  <2>1. p \in End /\ portEvents[p] = <<>> /\ portEvents' = portEvents
    BY <1>1, EndFacts DEF NextPhase, portVars
  <2>2. arrived[p] = <<>> /\ arrived'[p] = departing[p] /\ departing[p] \in Seq(Message)
    BY <1>1, <2>1
  <2>3. <<>> \o departing[p] = departing[p] /\ <<>> \o <<>> = <<>>
    BY <2>2, ConcatEmptySeq, EmptySeq
  <2>4. QED
    BY <2>1, <2>2, <2>3, MessagesEmpty
<1>3. ASSUME NEW n \in Nic
      PROVE  /\ Messages(nicEvents'[n] \o arrived'[n])
                  = Messages(nicEvents[n] \o arrived[n]) \o Messages(departing[n])
             /\ Messages(nicEvents[n] \o arrived[n]) \in Seq(Contents)
  <2>1. /\ n \in End /\ nicEvents' = nicEvents /\ nicEvents[n] \in Seq(UntimedData)
    BY <1>1, EndFacts DEF InitInv, Typed, nicVars
  <2>2. arrived[n] = <<>> /\ arrived'[n] = departing[n] /\ departing[n] \in Seq(Message)
    BY <1>1, <2>1
  <2>3. nicEvents[n] \in Seq(Message)
    BY <2>1, PacketsOfPackets
  <2>4. nicEvents[n] \o <<>> = nicEvents[n]
    BY <2>3, ConcatEmptySeq
  <2>5. Messages(nicEvents[n] \o departing[n]) = Messages(nicEvents[n]) \o Messages(departing[n])
    BY <2>2, <2>3, MessagesConcat
  <2>6. Messages(nicEvents[n]) \in Seq(Contents)
    BY <2>3, MessagesType
  <2>7. QED
    BY <2>1, <2>2, <2>4, <2>5, <2>6
<1>4. \A p \in Port : Arriving[p] = <<>>
  BY <1>2 DEF Arriving
<1>5. Arriving' = [p \in Port |-> Departing[p]]
  BY <1>2, EndFacts DEF Arriving, Departing
<1>6. Departing' = [e \in End |-> <<>>]
  BY <1>1, MessagesEmpty DEF Departing
<1>7. Heard' = [n \in Nic |-> Heard[n] \o Departing[n]] /\ \A n \in Nic : Heard[n] \in Seq(Contents)
  BY <1>3, EndFacts DEF Heard, Departing
<1>8. CASE \E e \in End : Departing[e] # <<>>
  BY <1>1, <1>4, <1>5, <1>6, <1>7, <1>8, UntimedTurns
<1>9. CASE ~\E e \in End : Departing[e] # <<>>
  <2>1. \A e \in End : Departing[e] = <<>>
    BY <1>9
  <2>2. Departing = [e \in End |-> <<>>]
    BY <2>1 DEF Departing
  <2>3. Arriving' = Arriving
    <3>1. Arriving = [p \in Port |-> Arriving[p]]
      BY DEF Arriving
    <3>2. QED
      BY <1>4, <1>5, <2>1, <3>1, EndFacts
  <2>4. Heard' = Heard
    <3>1. Heard = [n \in Nic |-> Heard[n]]
      BY DEF Heard
    <3>2. \A n \in Nic : Heard[n] \o Departing[n] = Heard[n]
      BY <1>7, <2>1, EndFacts, ConcatEmptySeq
    <3>3. QED
      BY <1>7, <3>1, <3>2
  <2>5. QED
    BY <1>1, <1>6, <2>2, <2>3, <2>4, UntimedStutters
<1>10. QED
  BY <1>8, <1>9

LEMMA UntimedInit == ASSUME Init PROVE Untimed!Init
<1>1. /\ \A e \in End : arrived[e] = <<>> /\ departing[e] = <<>>
      /\ \A p \in Port : portEvents[p] = <<>>
      /\ \A n \in Nic : nicEvents[n] = <<>>
      /\ plan \in Plan /\ numSent = [n \in Nic |-> 0]
  BY DEF Init
<1>2. <<>> \o <<>> = <<>>
  BY ConcatEmptySeq, EmptySeq
<1>3. /\ \A p \in Port : Messages(portEvents[p] \o arrived[p]) = <<>>
      /\ \A n \in Nic : Messages(nicEvents[n] \o arrived[n]) = <<>>
      /\ \A e \in End : Messages(departing[e]) = <<>>
  BY <1>1, <1>2, EndFacts, MessagesEmpty
<1>4. [only |-> {}] = [d \in {[r \in Router |-> "only"][RouterOf[p]] : p \in Port} |-> {}]
  <2>1. Port # {} /\ \A p \in Port : RouterOf[p] \in Router
    BY EndpointAssumption, EndFacts, TopologyAssumption
  <2>2. {[r \in Router |-> "only"][RouterOf[p]] : p \in Port} = {"only"}
    BY <2>1
  <2>3. [only |-> {}] = [d \in {"only"} |-> {}]
    OBVIOUS
  <2>4. QED
    BY <2>2, <2>3
<1>5. Arriving = [p \in Port |-> <<>>] /\ Heard = [n \in Nic |-> <<>>] /\ Departing = [e \in End |-> <<>>]
  BY <1>3 DEF Arriving, Heard, Departing
<1>6. QED
  BY <1>1, <1>4, <1>5, UntimedWired DEF Untimed!Init, Arriving, Heard, Departing, End

\* Every step of init() and complete() is a step of UntimedBroadcast or leaves the
\* messages of the endpoints where they are: greetings and credits come in between,
\* drains move what has arrived, and nobody's data is lost, doubled or overtaken.
THEOREM UntimedDataImplemented == Spec => UntimedImplemented
<1>1. ASSUME InitInv, InitInv', [Next]_vars PROVE [Untimed!Next]_(Untimed!vars)
  <2>1. ASSUME NEW p \in Port, PortInit(p) PROVE UNCHANGED Untimed!vars
    BY <1>1, <2>1, PortInitStutters
  <2>2. ASSUME NEW p \in Port, Relay(p) PROVE Untimed!Next
    BY <1>1, <2>2, RelayImplements, UntimedWired DEF Untimed!Next
  <2>3. ASSUME NEW n \in Nic, NicInit(n) PROVE UNCHANGED Untimed!vars
    BY <1>1, <2>3, NicInitStutters
  <2>4. ASSUME NEW n \in Nic, SendUntimedData(n) PROVE Untimed!Next
    BY <1>1, <2>4, SendImplements, UntimedWired DEF Untimed!Next
  <2>5. ASSUME NextPhase PROVE Untimed!Next \/ UNCHANGED Untimed!vars
    BY <1>1, <2>5, NextPhaseImplements DEF Untimed!Next
  <2>6. ASSUME UNCHANGED vars PROVE UNCHANGED Untimed!vars
    <3>1. Arriving' = Arriving /\ Departing' = Departing /\ Heard' = Heard /\ UNCHANGED epVars
      BY <2>6 DEF Arriving, Departing, Heard, vars, linkVars, portVars, nicVars, epVars
    <3>2. QED
      BY <3>1, UntimedStutters
  <2>7. QED
    BY <1>1, <2>1, <2>2, <2>3, <2>4, <2>5, <2>6 DEF Next
<1>2. InitInv /\ InitInv' /\ [Next]_vars => [Untimed!Next]_(Untimed!vars)
  BY <1>1
<1>3. Init => Untimed!Init
  BY UntimedInit
<1>4. QED
  BY <1>2, <1>3, InitInvCorrect, PTL DEF Spec, UntimedImplemented, Untimed!Spec
=============================================================================
