------------------------- MODULE NicEndpoint_proofs -------------------------
(***************************************************************************)
(* The accounts and the stamps of a NIC, for any number of virtual         *)
(* networks, any sizes and any workload.  What the endpoint does from      *)
(* inside a loop is an operator on states of the NIC, so the facts are     *)
(* about these operators, and the actions follow.                          *)
(***************************************************************************)
EXTENDS NicEndpoint, SeqFacts

\* The parameters of the endpoint, which nothing changes.
Given == work \in Seq(PacketToSend) /\ requests \in Seq(Request) /\ polls \in BOOLEAN

OneVn == \A i, j \in 1 .. Len(work) : work[i].vn = work[j].vn

\* What send() adds to an output buffer for packet i.
NewFlits(i) == [j \in 1 .. work[i].flits |-> <<i, j - 1>>]

SpaceKept(s)   == \A vn \in VN : s.outbufCredits[vn] + Len(s.outBuf[vn]) = OutBuf
CreditsKept(s) == \A vn \in VN : s.portCredits[vn] + s.inReturnCredits[vn] = InBuf

\* An output buffer holds the rest of one packet and then whole packets.
Whole(q) ==
  /\ \A a \in 1 .. Len(q) - 1 :
       IF IsTail(q[a]) THEN IsHead(q[a + 1]) ELSE q[a + 1] = <<q[a][1], q[a][2] + 1>>
  /\ q # <<>> => IsTail(q[Len(q)])

QueuesWhole(s) ==
  \A vn \in VN :
    /\ Whole(s.outBuf[vn])
    /\ \A a \in 1 .. Len(s.outBuf[vn]) :
         s.outBuf[vn][a][1] < s.todo /\ work[s.outBuf[vn][a][1]].vn = vn

\* The stamp is that of the packet under way, and what was sent has its own.
StampsOf(s, q, vn) ==
  /\ q # <<>> /\ ~IsHead(q[1]) => q[1][1] \in s.headInjectCycle
  /\ \A i \in 1 .. s.todo - 1 :
       work[i].vn = vn /\ (\A a \in 1 .. Len(q) : q[a][1] # i) => i \in s.stamp[i]

StampsKept(s) == OneVn => \A vn \in VN : StampsOf(s, s.outBuf[vn], vn)

Sound(s)  == s \in NicState /\ QueuesWhole(s) /\ StampsKept(s)
NicInv(s) == Sound(s) /\ SpaceKept(s) /\ CreditsKept(s)

-----------------------------------------------------------------------------
(* send().                                                                 *)

\* r differs from s at most in what send() writes.
OnlySends(s, r) ==
  /\ r.rtrCredits = s.rtrCredits /\ r.headInjectCycle = s.headInjectCycle
  /\ r.stamp = s.stamp /\ r.onLink = s.onLink /\ r.toCome = s.toCome
  /\ r.portCredits = s.portCredits /\ r.inReturnCredits = s.inReturnCredits
  /\ r.inBuf = s.inBuf /\ r.received = s.received

LEMMA NewFlitsFacts ==
  ASSUME Given, NEW i \in 1 .. Len(work)
  PROVE  /\ work[i] \in PacketToSend /\ work[i].vn \in VN /\ work[i].flits \in Nat \ {0, 1}
         /\ NewFlits(i) \in Seq(SentFlit) /\ Len(NewFlits(i)) = work[i].flits
         /\ \A j \in 1 .. work[i].flits : NewFlits(i)[j] = <<i, j - 1>>
<1>1. DOMAIN work = 1 .. Len(work) /\ work[i] \in PacketToSend
  BY LenProperties, ElementOfSeq DEF Given
<1>2. work[i].vn \in VN /\ work[i].flits \in Nat \ {0, 1}
  BY <1>1 DEF PacketToSend
<1>3. ASSUME NEW j \in 1 .. work[i].flits PROVE <<i, j - 1>> \in SentFlit
  <2>1. j - 1 \in Nat /\ j - 1 < work[i].flits
    BY <1>2
  <2>2. <<i, j - 1>> \in (DOMAIN work) \X Nat
    BY <1>1, <2>1
  <2>3. QED
    BY <2>1, <2>2 DEF SentFlit
<1>4. NewFlits(i) \in [1 .. work[i].flits -> SentFlit]
  BY <1>3 DEF NewFlits
<1>5. NewFlits(i) \in Seq(SentFlit) /\ Len(NewFlits(i)) = work[i].flits
  BY <1>2, <1>4
<1>6. QED
  BY <1>1, <1>2, <1>5 DEF NewFlits

\* send() adds the flits of one packet at the end of one queue.
LEMMA SendFacts ==
  ASSUME Given, NEW s \in NicState, s.todo \in 1 .. Len(work), SpaceToSend(s, s.todo)
  PROVE  LET i == s.todo
             v == work[i].vn
             r == Send(s, i)
         IN  /\ r \in NicState
             /\ OnlySends(s, r)
             /\ r.todo = i + 1
             /\ r.outBuf = [s.outBuf EXCEPT ![v] = @ \o NewFlits(i)]
             /\ r.outbufCredits = [s.outbufCredits EXCEPT ![v] = @ - work[i].flits]
<1> DEFINE i == s.todo
           v == work[i].vn
           r == Send(s, i)
<1>1. /\ v \in VN /\ work[i].flits \in Nat \ {0, 1}
      /\ NewFlits(i) \in Seq(SentFlit)
  BY NewFlitsFacts
<1>2. s.outBuf \in [VN -> Seq(SentFlit)] /\ s.outbufCredits \in [VN -> Nat]
  BY DEF NicState
<1>3. s.outbufCredits[v] - work[i].flits \in Nat
  BY <1>1, <1>2 DEF SpaceToSend
<1>4. s.outBuf[v] \o NewFlits(i) \in Seq(SentFlit)
  BY <1>1, <1>2, ConcatProperties
<1>5. /\ [s.outBuf EXCEPT ![v] = @ \o NewFlits(i)] \in [VN -> Seq(SentFlit)]
      /\ [s.outbufCredits EXCEPT ![v] = @ - work[i].flits] \in [VN -> Nat]
  BY <1>2, <1>3, <1>4
<1>6. r = [s EXCEPT !.outbufCredits = [s.outbufCredits EXCEPT ![v] = @ - work[i].flits],
                    !.outBuf = [s.outBuf EXCEPT ![v] = @ \o NewFlits(i)],
                    !.todo = i + 1]
  BY DEF Send, NewFlits, NicState
<1>7. i + 1 \in 1 .. Len(work) + 1
  BY LenProperties DEF Given
<1> HIDE DEF i, v, r
<1>8. QED
  BY <1>5, <1>6, <1>7 DEF NicState, OnlySends, r, i, v

\* A whole packet behind whole packets.
LEMMA WholeWithPacket ==
  ASSUME Given, NEW q \in Seq(SentFlit), Whole(q), NEW i \in 1 .. Len(work)
  PROVE  /\ Whole(q \o NewFlits(i)) /\ q \o NewFlits(i) # <<>>
         /\ IsHead((q \o NewFlits(i))[1]) \/ (q # <<>> /\ (q \o NewFlits(i))[1] = q[1])
         /\ \A a \in 1 .. Len(q \o NewFlits(i)) :
              (a \in 1 .. Len(q) /\ (q \o NewFlits(i))[a] = q[a]) \/ (q \o NewFlits(i))[a][1] = i
         /\ \A a \in 1 .. Len(q) : a \in 1 .. Len(q \o NewFlits(i)) /\ (q \o NewFlits(i))[a] = q[a]
         /\ \E a \in 1 .. Len(q \o NewFlits(i)) : (q \o NewFlits(i))[a][1] = i
<1> DEFINE n == work[i].flits
           t == NewFlits(i)
           w == q \o t
<1>1. /\ n \in Nat \ {0, 1} /\ t \in Seq(SentFlit) /\ Len(t) = n
      /\ \A j \in 1 .. n : t[j] = <<i, j - 1>>
  BY NewFlitsFacts
<1>2. /\ Len(w) = Len(q) + n /\ Len(q) \in Nat
      /\ \A a \in 1 .. Len(q) + n : w[a] = IF a <= Len(q) THEN q[a] ELSE t[a - Len(q)]
  BY <1>1, ConcatProperties, LenProperties
<1>3. \A a \in 1 .. Len(q) : w[a] = q[a]
  BY <1>1, <1>2
<1>4. \A j \in 1 .. n : w[Len(q) + j] = <<i, j - 1>>
  BY <1>1, <1>2
<1> HIDE DEF w, t, n
<1>5. ASSUME NEW a \in 1 .. Len(w), a \notin 1 .. Len(q)
      PROVE  \E j \in 1 .. n : a = Len(q) + j
  <2>1. a - Len(q) \in 1 .. n /\ a = Len(q) + (a - Len(q))
    BY <1>1, <1>2, <1>5
  <2>2. QED
    BY <2>1
<1>6. w # <<>>
  BY <1>1, <1>2, EmptySeq
<1>7. IsTail(w[Len(w)])
  <2>1. w[Len(q) + n] = <<i, n - 1>>
    BY <1>1, <1>4
  <2>2. QED
    BY <1>2, <2>1 DEF IsTail, n
<1>8. ASSUME NEW a \in 1 .. Len(w) - 1
      PROVE  IF IsTail(w[a]) THEN IsHead(w[a + 1]) ELSE w[a + 1] = <<w[a][1], w[a][2] + 1>>
  <2>1. CASE a \in 1 .. Len(q) - 1
    <3>1. a \in 1 .. Len(q) /\ a + 1 \in 1 .. Len(q)
      BY <1>2, <2>1
    <3>2. w[a] = q[a] /\ w[a + 1] = q[a + 1]
      BY <1>3, <3>1
    <3>3. QED
      BY <2>1, <3>2 DEF Whole
  <2>2. CASE a = Len(q)
    <3>1. q # <<>> /\ a \in 1 .. Len(q) /\ 1 \in 1 .. n
      BY <1>1, <1>2, <2>2, EmptySeq
    <3>2. w[a] = q[Len(q)] /\ w[a + 1] = <<i, 0>>
      BY <1>3, <1>4, <2>2, <3>1
    <3>3. QED
      BY <3>1, <3>2 DEF Whole, IsHead, IsTail
  <2>3. CASE a > Len(q)
    <3>1. PICK j \in 1 .. n : a = Len(q) + j
      <4>1. a \in 1 .. Len(w) /\ a \notin 1 .. Len(q)
        BY <1>1, <1>2, <2>3
      <4>2. QED
        BY <1>5, <4>1
    <3>2. j + 1 \in 1 .. n /\ a + 1 = Len(q) + (j + 1) /\ j + 1 - 1 = j /\ j \in Nat
      BY <1>1, <1>2, <3>1
    <3>3. w[a] = <<i, j - 1>> /\ w[a + 1] = <<i, j>>
      BY <1>4, <3>1, <3>2
    <3>4. ~IsTail(w[a])
      BY <1>1, <3>2, <3>3 DEF IsTail, n
    <3>5. QED
      BY <3>2, <3>3, <3>4
  <2>4. QED
    BY <1>1, <1>2, <2>1, <2>2, <2>3
<1>9. Whole(w)
  BY <1>7, <1>8 DEF Whole
<1>10. IsHead(w[1]) \/ (q # <<>> /\ w[1] = q[1])
  <2>1. CASE q = <<>>
    <3>1. Len(q) = 0 /\ 1 \in 1 .. n
      BY <1>1, <2>1, EmptySeq
    <3>2. w[1] = <<i, 0>>
      BY <1>4, <3>1
    <3>3. QED
      BY <3>2 DEF IsHead
  <2>2. CASE q # <<>>
    BY <1>2, <1>3, <2>2, EmptySeq
  <2>3. QED
    BY <2>1, <2>2
<1>11. ASSUME NEW a \in 1 .. Len(w)
       PROVE  (a \in 1 .. Len(q) /\ w[a] = q[a]) \/ w[a][1] = i
  <2>1. CASE a \in 1 .. Len(q)
    BY <1>3, <2>1
  <2>2. CASE a \notin 1 .. Len(q)
    <3>1. PICK j \in 1 .. n : a = Len(q) + j
      BY <1>5, <2>2
    <3>2. w[a] = <<i, j - 1>>
      BY <1>4, <3>1
    <3>3. QED
      BY <3>2
  <2>3. QED
    BY <2>1, <2>2
<1>12. \E a \in 1 .. Len(w) : w[a][1] = i
  <2>1. 1 \in 1 .. n /\ Len(q) + 1 \in 1 .. Len(w)
    BY <1>1, <1>2
  <2>2. w[Len(q) + 1] = <<i, 0>>
    BY <1>4, <2>1
  <2>3. QED
    BY <2>1, <2>2
<1>13. \A a \in 1 .. Len(q) : a \in 1 .. Len(w) /\ w[a] = q[a]
  BY <1>1, <1>2, <1>3
<1>14. QED
  BY <1>6, <1>9, <1>10, <1>11, <1>12, <1>13 DEF w, t

-----------------------------------------------------------------------------
(* What the endpoint does, from its own clock or from a notification, keeps *)
(* the sums, whole packets and stamps.                                      *)

Sums(s, r) ==
  \A vn \in VN :
    /\ r.outbufCredits[vn] + Len(r.outBuf[vn]) = s.outbufCredits[vn] + Len(s.outBuf[vn])
    /\ r.portCredits[vn] + r.inReturnCredits[vn] = s.portCredits[vn] + s.inReturnCredits[vn]

LEMMA SendKeeps ==
  ASSUME Given, NEW s, Sound(s), s.todo \in 1 .. Len(work), SpaceToSend(s, s.todo)
  PROVE  LET r == Send(s, s.todo)
         IN  Sound(r) /\ OnlySends(s, r) /\ Sums(s, r)
<1> DEFINE i == s.todo
           v == work[i].vn
           r == Send(s, i)
<1>1. /\ r \in NicState /\ OnlySends(s, r) /\ r.todo = i + 1
      /\ r.outBuf = [s.outBuf EXCEPT ![v] = @ \o NewFlits(i)]
      /\ r.outbufCredits = [s.outbufCredits EXCEPT ![v] = @ - work[i].flits]
  BY SendFacts DEF Sound
<1>2. /\ v \in VN /\ work[i].flits \in Nat \ {0, 1} /\ i \in Nat
      /\ NewFlits(i) \in Seq(SentFlit) /\ Len(NewFlits(i)) = work[i].flits
  BY NewFlitsFacts
<1>3. s.outBuf \in [VN -> Seq(SentFlit)] /\ s.outbufCredits \in [VN -> Nat]
  BY DEF NicState, Sound
<1> HIDE DEF r, v
<1>4. Sums(s, r)
  <2> SUFFICES ASSUME NEW vn \in VN
               PROVE  r.outbufCredits[vn] + Len(r.outBuf[vn])
                        = s.outbufCredits[vn] + Len(s.outBuf[vn])
    BY <1>1 DEF Sums, OnlySends
  <2>1. CASE vn = v
    <3>1. Len(s.outBuf[v] \o NewFlits(i)) = Len(s.outBuf[v]) + work[i].flits
          /\ Len(s.outBuf[v]) \in Nat
      <4> DEFINE q == s.outBuf[v]
                 t == NewFlits(i)
      <4>1. q \in Seq(SentFlit) /\ t \in Seq(SentFlit) /\ Len(t) = work[i].flits
        BY <1>2, <1>3
      <4> HIDE DEF q, t
      <4>2. Len(q \o t) = Len(q) + Len(t) /\ Len(q) \in Nat
        BY <4>1, ConcatProperties, LenProperties
      <4>3. QED
        BY <4>1, <4>2 DEF q, t
    <3>2. r.outBuf[v] = s.outBuf[v] \o NewFlits(i)
          /\ r.outbufCredits[v] = s.outbufCredits[v] - work[i].flits /\ s.outbufCredits[v] \in Nat
      BY <1>1, <1>2, <1>3
    <3>3. Len(r.outBuf[v]) = Len(s.outBuf[v]) + work[i].flits
      BY <3>1, <3>2
    <3> DEFINE c == s.outbufCredits[v]
               l == Len(s.outBuf[v])
               f == work[i].flits
    <3>4. c \in Nat /\ l \in Nat /\ f \in Nat
          /\ r.outbufCredits[v] = c - f /\ Len(r.outBuf[v]) = l + f
      BY <1>2, <3>1, <3>2, <3>3
    <3> HIDE DEF c, l, f
    <3>5. r.outbufCredits[v] + Len(r.outBuf[v]) = c + l
      BY <3>4
    <3>6. QED
      BY <2>1, <3>5 DEF c, l
  <2>2. CASE vn # v
    BY <1>1, <1>3, <2>2
  <2>3. QED
    BY <2>1, <2>2
<1>5. ASSUME NEW vn \in VN
      PROVE  /\ Whole(r.outBuf[vn])
             /\ \A a \in 1 .. Len(r.outBuf[vn]) :
                  r.outBuf[vn][a][1] < r.todo /\ work[r.outBuf[vn][a][1]].vn = vn
             /\ StampsOf(s, s.outBuf[vn], vn) => StampsOf(r, r.outBuf[vn], vn)
  <2> DEFINE q == s.outBuf[vn]
             w == r.outBuf[vn]
  <2>1. /\ q \in Seq(SentFlit) /\ Whole(q)
        /\ \A a \in 1 .. Len(q) : q[a][1] < i /\ work[q[a][1]].vn = vn /\ q[a][1] \in Nat
    <3>1. \A a \in 1 .. Len(q) : q[a] \in SentFlit
      BY <1>3, ElementOfSeq
    <3>2. \A a \in 1 .. Len(q) : q[a][1] \in Nat
      BY <3>1, LenProperties DEF SentFlit, Given
    <3>3. QED
      BY <1>3, <3>2 DEF QueuesWhole, Sound
  <2>2. CASE vn = v
    <3>1. w = q \o NewFlits(i)
      BY <1>1, <1>3, <2>2
    <3>2. /\ Whole(w) /\ w # <<>>
          /\ IsHead(w[1]) \/ (q # <<>> /\ w[1] = q[1])
          /\ \A a \in 1 .. Len(w) : (a \in 1 .. Len(q) /\ w[a] = q[a]) \/ w[a][1] = i
          /\ \A a \in 1 .. Len(q) : a \in 1 .. Len(w) /\ w[a] = q[a]
          /\ \E a \in 1 .. Len(w) : w[a][1] = i
      <4> HIDE DEF w, q, i
      <4>1. i \in 1 .. Len(work)
        BY DEF i
      <4>2. QED
        BY <2>1, <3>1, <4>1, WholeWithPacket
    <3> HIDE DEF w, q
    <3>3. ASSUME NEW a \in 1 .. Len(w)
          PROVE  w[a][1] < r.todo /\ work[w[a][1]].vn = vn
      <4>1. CASE w[a][1] = i
        BY <1>1, <1>2, <2>2, <4>1 DEF v
      <4>2. CASE a \in 1 .. Len(q) /\ w[a] = q[a]
        BY <1>1, <1>2, <2>1, <4>2
      <4>3. QED
        BY <3>2, <4>1, <4>2
    <3>4. ASSUME StampsOf(s, q, vn) PROVE StampsOf(r, w, vn)
      <4>1. w # <<>> /\ ~IsHead(w[1]) => w[1][1] \in r.headInjectCycle
        BY <1>1, <3>2, <3>4 DEF StampsOf, OnlySends
      <4>2. ASSUME NEW k \in 1 .. r.todo - 1, work[k].vn = vn, \A a \in 1 .. Len(w) : w[a][1] # k
            PROVE  k \in r.stamp[k]
        <5>1. k # i
          BY <3>2, <4>2
        <5>2. k \in 1 .. i - 1
          BY <1>1, <1>2, <5>1
        <5>3. \A a \in 1 .. Len(q) : q[a][1] # k
          BY <3>2, <4>2
        <5>4. QED
          BY <1>1, <3>4, <4>2, <5>2, <5>3 DEF StampsOf, OnlySends
      <4>3. QED
        BY <4>1, <4>2 DEF StampsOf
    <3>5. QED
      BY <3>2, <3>3, <3>4 DEF w, q
  <2>3. CASE vn # v
    <3>1. w = q
      BY <1>1, <1>3, <2>3
    <3> HIDE DEF w, q
    <3>2. \A a \in 1 .. Len(w) : w[a][1] < r.todo /\ work[w[a][1]].vn = vn
      BY <1>1, <1>2, <2>1, <3>1
    <3>3. ASSUME StampsOf(s, q, vn) PROVE StampsOf(r, w, vn)
      <4>1. \A k \in 1 .. r.todo - 1 : work[k].vn = vn => k \in 1 .. i - 1
        BY <1>1, <1>2, <2>3 DEF v
      <4>2. QED
        BY <1>1, <3>1, <3>3, <4>1 DEF StampsOf, OnlySends
    <3>4. QED
      BY <2>1, <3>1, <3>2, <3>3 DEF w, q
  <2>4. QED
    BY <2>2, <2>3
<1>6. QueuesWhole(r)
  BY <1>5 DEF QueuesWhole
<1>7. StampsKept(r)
  BY <1>5 DEF StampsKept, Sound
<1>8. QED
  BY <1>1, <1>4, <1>6, <1>7 DEF r, Sound

\* Queues and stamps are all that they depend on.
LEMMA SameQueues ==
  ASSUME NEW s, Sound(s), NEW r \in NicState, r.outBuf = s.outBuf, r.todo = s.todo,
         r.headInjectCycle = s.headInjectCycle, r.stamp = s.stamp
  PROVE  Sound(r)
<1>1. QueuesWhole(r)
  BY DEF Sound, QueuesWhole
<1>2. StampsKept(r)
  BY DEF Sound, StampsKept, StampsOf
<1>3. QED
  BY <1>1, <1>2 DEF Sound

LEMMA TrySendKeeps ==
  ASSUME Given, NEW s, Sound(s)
  PROVE  LET r == TrySend(s)
         IN  Sound(r) /\ OnlySends(s, r) /\ Sums(s, r)
<1>1. s \in NicState /\ s.todo \in 1 .. Len(work) + 1
  BY DEF Sound, NicState
<1>2. ASSUME NEW u, Sound(u), NEW b \in BOOLEAN
      PROVE  LET r == [u EXCEPT !.asleep = b]
             IN  /\ Sound(r) /\ r.outBuf = u.outBuf /\ r.outbufCredits = u.outbufCredits
                 /\ OnlySends(u, r)
  <2> DEFINE r == [u EXCEPT !.asleep = b]
  <2>1. u \in NicState
    BY <1>2 DEF Sound
  <2>2. /\ r \in NicState /\ r.outBuf = u.outBuf /\ r.outbufCredits = u.outbufCredits
        /\ r.todo = u.todo /\ OnlySends(u, r)
    BY <2>1 DEF NicState, OnlySends
  <2> HIDE DEF r
  <2>3. Sound(r)
    BY <1>2, <2>2, SameQueues DEF OnlySends
  <2>4. QED
    BY <2>2, <2>3 DEF r
<1>3. CASE ~Ready(s)
  <2>1. TrySend(s) = s
    BY <1>3 DEF TrySend
  <2>2. QED
    BY <2>1 DEF OnlySends, Sums
<1>4. CASE Ready(s) /\ SpaceToSend(s, s.todo)
  <2> DEFINE u == Send(s, s.todo)
             r == [u EXCEPT !.asleep = FALSE]
  <2>1. s.todo \in 1 .. Len(work)
    BY <1>1, <1>4, LenProperties DEF Ready, Given
  <2>2. Sound(u) /\ OnlySends(s, u) /\ Sums(s, u)
    BY <1>4, <2>1, SendKeeps
  <2> HIDE DEF u
  <2>3. /\ Sound(r) /\ r.outBuf = u.outBuf /\ r.outbufCredits = u.outbufCredits
        /\ OnlySends(u, r)
    BY <1>2, <2>2
  <2>4. TrySend(s) = r
    BY <1>4 DEF TrySend, u
  <2> HIDE DEF r
  <2>5. OnlySends(s, r) /\ Sums(s, r)
    BY <2>2, <2>3 DEF OnlySends, Sums
  <2>6. QED
    BY <2>3, <2>4, <2>5
<1>5. CASE Ready(s) /\ ~SpaceToSend(s, s.todo)
  <2> DEFINE r == [s EXCEPT !.asleep = TRUE]
  <2>1. /\ Sound(r) /\ r.outBuf = s.outBuf /\ r.outbufCredits = s.outbufCredits
        /\ OnlySends(s, r)
    BY <1>2
  <2>2. TrySend(s) = r
    BY <1>5 DEF TrySend
  <2> HIDE DEF r
  <2>3. Sums(s, r)
    BY <2>1 DEF OnlySends, Sums
  <2>4. QED
    BY <2>1, <2>2, <2>3
<1>6. QED
  BY <1>3, <1>4, <1>5

LEMMA RecvKeeps ==
  ASSUME NEW s, Sound(s), NEW vn \in VN
  PROVE  LET r == Recv(s, vn)
         IN  /\ Sound(r) /\ Sums(s, r)
             /\ r.portCredits = s.portCredits /\ r.inReturnCredits = s.inReturnCredits
<1> DEFINE r == Recv(s, vn)
<1>1. s \in NicState
  BY DEF Sound
<1>2. s.inBuf \in [VN -> Seq(DOMAIN requests)] /\ s.received \in Nat
  BY <1>1 DEF NicState
<1>3. /\ s.inBuf[vn] \in Seq(DOMAIN requests) /\ <<>> \in Seq(DOMAIN requests)
      /\ Len(s.inBuf[vn]) \in Nat
  BY <1>2, LenProperties, EmptySeq
<1>4. /\ [s.inBuf EXCEPT ![vn] = <<>>] \in [VN -> Seq(DOMAIN requests)]
      /\ s.received + Len(s.inBuf[vn]) \in Nat
  BY <1>2, <1>3
<1>5. r = [s EXCEPT !.inBuf = [s.inBuf EXCEPT ![vn] = <<>>],
                    !.received = s.received + Len(s.inBuf[vn])]
  BY <1>1 DEF Recv, NicState
<1>6. /\ r \in NicState /\ r.outBuf = s.outBuf /\ r.todo = s.todo /\ r.stamp = s.stamp
      /\ r.headInjectCycle = s.headInjectCycle /\ r.outbufCredits = s.outbufCredits
      /\ r.portCredits = s.portCredits /\ r.inReturnCredits = s.inReturnCredits
  BY <1>1, <1>4, <1>5 DEF NicState
<1> HIDE DEF r
<1>7. Sound(r)
  BY <1>6, SameQueues
<1>8. Sums(s, r)
  BY <1>6 DEF Sums
<1>9. QED
  BY <1>6, <1>7, <1>8 DEF r

\* What the notification of a received packet leaves alone.
LEMMA ReceiveFunctorKeeps ==
  ASSUME Given, NEW s, Sound(s), NEW vn \in VN
  PROVE  LET r == ReceiveFunctor(s, vn)
         IN  /\ Sound(r) /\ Sums(s, r)
             /\ r.portCredits = s.portCredits /\ r.inReturnCredits = s.inReturnCredits
<1> DEFINE u == Recv(s, vn)
           r == TrySend(u)
<1>1. CASE polls
  <2>1. ReceiveFunctor(s, vn) = s
    BY <1>1 DEF ReceiveFunctor
  <2>2. QED
    BY <2>1 DEF Sums
<1>2. CASE ~polls
  <2>1. /\ Sound(u) /\ Sums(s, u)
        /\ u.portCredits = s.portCredits /\ u.inReturnCredits = s.inReturnCredits
    BY RecvKeeps
  <2> HIDE DEF u
  <2>2. Sound(r) /\ OnlySends(u, r) /\ Sums(u, r)
    BY <2>1, TrySendKeeps
  <2>3. ReceiveFunctor(s, vn) = r
    BY <1>2 DEF ReceiveFunctor, u
  <2> HIDE DEF r
  <2>4. QED
    BY <2>1, <2>2, <2>3 DEF Sums, OnlySends
<1>3. QED
  BY <1>1, <1>2

LEMMA SendFunctorKeeps ==
  ASSUME Given, NEW s, Sound(s)
  PROVE  LET r == SendFunctor(s)
         IN  Sound(r) /\ OnlySends(s, r) /\ Sums(s, r)
<1>1. CASE s.asleep
  <2>1. SendFunctor(s) = TrySend(s)
    BY <1>1 DEF SendFunctor
  <2>2. QED
    BY <2>1, TrySendKeeps
<1>2. CASE ~s.asleep
  <2>1. SendFunctor(s) = s
    BY <1>2 DEF SendFunctor
  <2>2. QED
    BY <2>1 DEF OnlySends, Sums
<1>3. QED
  BY <1>1, <1>2

-----------------------------------------------------------------------------
(* The loop of clockTick.                                                  *)

\* What is left when the flit in front is taken away.
LEMMA WholeTail ==
  ASSUME Given, NEW q \in Seq(SentFlit), Whole(q), q # <<>>
  PROVE  LET f == Head(q)
             t == Tail(q)
         IN  /\ f \in SentFlit /\ f = q[1] /\ t \in Seq(SentFlit) /\ Len(t) = Len(q) - 1
             /\ Whole(t)
             /\ \A a \in 1 .. Len(t) : a + 1 \in 1 .. Len(q) /\ t[a] = q[a + 1]
             /\ \A a \in 1 .. Len(q) : q[a] = f \/ \E b \in 1 .. Len(t) : t[b] = q[a]
             /\ IsTail(f) => t = <<>> \/ IsHead(t[1])
             /\ ~IsTail(f) => t # <<>> /\ t[1] = <<f[1], f[2] + 1>>
             /\ IsHead(f) => ~IsTail(f)
<1> DEFINE f == Head(q)
           t == Tail(q)
<1>1. /\ f \in SentFlit /\ t \in Seq(SentFlit) /\ Len(t) = Len(q) - 1 /\ f = q[1]
      /\ \A a \in 1 .. Len(t) : t[a] = q[a + 1]
      /\ Len(q) \in Nat \ {0} /\ Len(t) \in Nat
  BY HeadTailProperties, LenProperties, EmptySeq
<1> HIDE DEF f, t
<1>2. \A a \in 1 .. Len(t) : a + 1 \in 1 .. Len(q)
  BY <1>1
<1>3. t # <<>> <=> Len(t) # 0
  BY <1>1, EmptySeq
<1>4. Whole(t)
  <2>1. ASSUME NEW a \in 1 .. Len(t) - 1
        PROVE  IF IsTail(t[a]) THEN IsHead(t[a + 1]) ELSE t[a + 1] = <<t[a][1], t[a][2] + 1>>
    <3>1. /\ a \in 1 .. Len(t) /\ a + 1 \in 1 .. Len(t) /\ a + 1 \in 1 .. Len(q) - 1
          /\ t[a] = q[a + 1] /\ t[a + 1] = q[(a + 1) + 1]
      BY <1>1
    <3>2. QED
      BY <3>1 DEF Whole
  <2>2. ASSUME t # <<>> PROVE IsTail(t[Len(t)])
    <3>1. Len(t) \in 1 .. Len(t) /\ Len(t) + 1 = Len(q)
      BY <1>1, <1>3, <2>2
    <3>2. QED
      BY <1>1, <3>1 DEF Whole
  <2>3. QED
    BY <2>1, <2>2 DEF Whole
<1>5. ASSUME NEW a \in 1 .. Len(q) PROVE q[a] = f \/ \E b \in 1 .. Len(t) : t[b] = q[a]
  <2>1. CASE a = 1
    BY <1>1, <2>1
  <2>2. CASE a # 1
    <3>1. a - 1 \in 1 .. Len(t) /\ (a - 1) + 1 = a
      BY <1>1, <2>2
    <3>2. QED
      BY <1>1, <3>1
  <2>3. QED
    BY <2>1, <2>2
<1>6. IsHead(f) => ~IsTail(f)
  <2>1. f[1] \in 1 .. Len(work)
    BY <1>1, LenProperties DEF SentFlit, Given
  <2>2. work[f[1]].flits \in Nat \ {0, 1}
    BY <2>1, NewFlitsFacts
  <2>3. QED
    BY <2>2 DEF IsHead, IsTail
<1>7. IsTail(f) => t = <<>> \/ IsHead(t[1])
  <2> SUFFICES ASSUME IsTail(f), t # <<>> PROVE IsHead(t[1])
    OBVIOUS
  <2>1. 1 \in 1 .. Len(q) - 1 /\ 1 \in 1 .. Len(t)
    BY <1>1, <1>3
  <2>2. QED
    BY <1>1, <2>1 DEF Whole
<1>8. ASSUME ~IsTail(f) PROVE t # <<>> /\ t[1] = <<f[1], f[2] + 1>>
  <2>1. Len(q) # 1
    BY <1>1, <1>8 DEF Whole
  <2>2. 1 \in 1 .. Len(q) - 1 /\ 1 \in 1 .. Len(t)
    BY <1>1, <2>1
  <2>3. QED
    BY <1>1, <1>3, <1>8, <2>2 DEF Whole
<1>9. QED
  BY <1>1, <1>2, <1>4, <1>5, <1>6, <1>7, <1>8 DEF f, t

\* The flit in front is taken out of the buffer and stamped.
LEMMA TakeFlit ==
  ASSUME Given, NEW s, Sound(s), NEW vn \in VN, s.outBuf[vn] # <<>>
  PROVE  LET f == Head(s.outBuf[vn])
             r == Stamped([s EXCEPT !.outBuf[vn] = Tail(@)], f)
         IN  /\ f \in SentFlit /\ Sound(r)
             /\ r.outBuf = [s.outBuf EXCEPT ![vn] = Tail(@)]
             /\ r.outbufCredits = s.outbufCredits /\ r.rtrCredits = s.rtrCredits
             /\ r.onLink = s.onLink
             /\ r.portCredits = s.portCredits /\ r.inReturnCredits = s.inReturnCredits
<1> DEFINE q == s.outBuf[vn]
           f == Head(q)
           t == Tail(q)
           i == f[1]
           p == [s EXCEPT !.outBuf[vn] = Tail(@)]
           r == Stamped(p, f)
<1>1. /\ s \in NicState /\ s.outBuf \in [VN -> Seq(SentFlit)] /\ q \in Seq(SentFlit) /\ Whole(q)
      /\ s.onLink \in Seq(SentFlit) /\ s.headInjectCycle \subseteq DOMAIN work
      /\ s.stamp \in [DOMAIN work -> SUBSET DOMAIN work]
  BY DEF Sound, NicState, QueuesWhole
<1>2. /\ f \in SentFlit /\ f = q[1] /\ t \in Seq(SentFlit) /\ Len(t) = Len(q) - 1 /\ Whole(t)
      /\ \A a \in 1 .. Len(t) : a + 1 \in 1 .. Len(q) /\ t[a] = q[a + 1]
      /\ \A a \in 1 .. Len(q) : q[a] = f \/ \E b \in 1 .. Len(t) : t[b] = q[a]
      /\ IsTail(f) => t = <<>> \/ IsHead(t[1])
      /\ ~IsTail(f) => t # <<>> /\ t[1] = <<f[1], f[2] + 1>>
      /\ IsHead(f) => ~IsTail(f)
  <2> HIDE DEF q
  <2>1. QED
    BY <1>1, WholeTail DEF q
<1>3. i \in DOMAIN work /\ DOMAIN work = 1 .. Len(work) /\ work[i].vn = vn /\ i < s.todo
  <2>1. 1 \in 1 .. Len(q)
    BY <1>1, EmptySeq
  <2>2. QED
    BY <1>2, <2>1, LenProperties DEF Sound, QueuesWhole, SentFlit, Given
<1>4. p = [s EXCEPT !.outBuf = [s.outBuf EXCEPT ![vn] = t]]
  BY <1>1 DEF NicState
<1>5. [s.outBuf EXCEPT ![vn] = t] \in [VN -> Seq(SentFlit)]
  BY <1>1, <1>2
<1>6. /\ p \in NicState /\ p.outBuf = [s.outBuf EXCEPT ![vn] = t] /\ p.todo = s.todo
      /\ p.headInjectCycle = s.headInjectCycle /\ p.stamp = s.stamp
      /\ p.outbufCredits = s.outbufCredits /\ p.rtrCredits = s.rtrCredits
      /\ p.onLink = s.onLink
      /\ p.portCredits = s.portCredits /\ p.inReturnCredits = s.inReturnCredits
  <2> HIDE DEF t, p
  <2>1. QED
    BY <1>1, <1>4, <1>5 DEF NicState
<1> HIDE DEF p
<1>7. ThisCycle(p, f) \subseteq DOMAIN work /\ i \in ThisCycle(p, f)
  <2>1. \A j \in DOMAIN p.onLink : p.onLink[j][1] \in DOMAIN work
    <3>1. \A j \in DOMAIN s.onLink : s.onLink[j] \in SentFlit
      BY <1>1, ElementOfSeq, LenProperties
    <3>2. QED
      BY <1>6, <3>1 DEF SentFlit
  <2>2. QED
    BY <1>3, <2>1 DEF ThisCycle
<1>8. /\ r \in NicState /\ r.outBuf = p.outBuf /\ r.todo = p.todo
      /\ r.outbufCredits = p.outbufCredits /\ r.rtrCredits = p.rtrCredits /\ r.onLink = p.onLink
      /\ r.portCredits = p.portCredits /\ r.inReturnCredits = p.inReturnCredits
      /\ r.headInjectCycle = IF IsHead(f) THEN ThisCycle(p, f)
                             ELSE IF IsTail(f) THEN Never ELSE p.headInjectCycle
      /\ r.stamp = IF ~IsHead(f) /\ IsTail(f) THEN [p.stamp EXCEPT ![i] = p.headInjectCycle]
                   ELSE p.stamp
  <2> HIDE DEF f
  <2>1. CASE IsHead(f)
    <3>1. r = [p EXCEPT !.headInjectCycle = ThisCycle(p, f)]
      BY <2>1 DEF Stamped
    <3> HIDE DEF r
    <3>2. QED
      BY <1>6, <1>7, <2>1, <3>1 DEF NicState
  <2>2. CASE ~IsHead(f) /\ IsTail(f)
    <3>1. r = [p EXCEPT !.stamp = [p.stamp EXCEPT ![i] = p.headInjectCycle],
                        !.headInjectCycle = Never]
      BY <1>6, <2>2 DEF Stamped, NicState
    <3>2. [p.stamp EXCEPT ![i] = p.headInjectCycle] \in [DOMAIN work -> SUBSET DOMAIN work]
          /\ Never \subseteq DOMAIN work
      BY <1>1, <1>6 DEF Never
    <3> HIDE DEF r, i
    <3>3. QED
      BY <1>6, <2>2, <3>1, <3>2 DEF NicState
  <2>3. CASE ~IsHead(f) /\ ~IsTail(f)
    BY <1>6, <2>3 DEF Stamped
  <2>4. QED
    BY <2>1, <2>2, <2>3
<1> HIDE DEF r
<1>9. r.outBuf[vn] = t /\ \A w \in VN : w # vn => r.outBuf[w] = s.outBuf[w]
  BY <1>1, <1>6, <1>8
<1>10. QueuesWhole(r)
  <2>1. ASSUME NEW a \in 1 .. Len(t) PROVE t[a][1] < s.todo /\ work[t[a][1]].vn = vn
    BY <1>2 DEF Sound, QueuesWhole
  <2> HIDE DEF t
  <2>2. ASSUME NEW w \in VN
        PROVE  /\ Whole(r.outBuf[w])
               /\ \A a \in 1 .. Len(r.outBuf[w]) :
                    r.outBuf[w][a][1] < r.todo /\ work[r.outBuf[w][a][1]].vn = w
    <3>1. CASE w = vn
      BY <1>2, <1>6, <1>8, <1>9, <2>1, <3>1
    <3>2. CASE w # vn
      BY <1>6, <1>8, <1>9, <3>2 DEF Sound, QueuesWhole
    <3>3. QED
      BY <3>1, <3>2
  <2>3. QED
    BY <2>2 DEF QueuesWhole
<1>11. StampsKept(r)
  <2> SUFFICES ASSUME OneVn, NEW w \in VN PROVE StampsOf(r, r.outBuf[w], w)
    BY DEF StampsKept
  <2>1. \A k \in 1 .. Len(work) : work[k].vn = vn
    BY <1>3 DEF OneVn
  <2>2. r.todo - 1 \in Nat /\ \A k \in 1 .. r.todo - 1 : k \in 1 .. Len(work)
    <3>1. Len(work) \in Nat
      BY LenProperties DEF Given
    <3>2. r.todo \in 1 .. Len(work) + 1
      BY <1>8 DEF NicState
    <3>3. QED
      BY <3>1, <3>2
  <2>3. CASE w # vn
    <3>1. r.outBuf[w] = <<>>
      <4>1. r.outBuf[w] \in Seq(SentFlit)
        BY <1>8 DEF NicState
      <4>2. ASSUME r.outBuf[w] # <<>> PROVE FALSE
        <5>1. 1 \in 1 .. Len(r.outBuf[w])
          BY <4>1, <4>2, EmptySeq
        <5>2. r.outBuf[w][1] \in SentFlit
          BY <4>1, <5>1, ElementOfSeq
        <5>3. r.outBuf[w][1][1] \in 1 .. Len(work) /\ work[r.outBuf[w][1][1]].vn = w
          BY <1>3, <1>10, <5>1, <5>2 DEF QueuesWhole, SentFlit
        <5>4. QED
          BY <2>1, <2>3, <5>3
      <4>3. QED
        BY <4>2
    <3>2. QED
      BY <2>1, <2>2, <2>3, <3>1 DEF StampsOf
  <2>4. CASE w = vn
    <3>1. StampsOf(s, q, vn) /\ q # <<>>
      BY DEF Sound, StampsKept
    <3> HIDE DEF q, t, f
    <3>2. ~IsHead(f) => i \in s.headInjectCycle
      BY <1>2, <3>1 DEF StampsOf
    <3>3. t # <<>> /\ ~IsHead(t[1]) => t[1][1] \in r.headInjectCycle
      <4>1. CASE IsTail(f)
        BY <1>2, <4>1
      <4>2. CASE ~IsTail(f)
        <5>1. t[1][1] = i
          BY <1>2, <4>2
        <5>2. i \in r.headInjectCycle
          BY <1>6, <1>7, <1>8, <3>2, <4>2
        <5>3. QED
          BY <5>1, <5>2
      <4>3. QED
        BY <4>1, <4>2
    <3>4. ASSUME NEW k \in 1 .. r.todo - 1, work[k].vn = vn, \A a \in 1 .. Len(t) : t[a][1] # k
          PROVE  k \in r.stamp[k]
      <4>1. CASE k = i
        <5>1. IsTail(f)
          <6>1. ASSUME ~IsTail(f) PROVE FALSE
            <7>1. t # <<>> /\ t[1][1] = i
              BY <1>2, <6>1
            <7>2. 1 \in 1 .. Len(t)
              BY <1>2, <7>1, EmptySeq
            <7>3. QED
              BY <3>4, <4>1, <7>1, <7>2
          <6>2. QED
            BY <6>1
        <5>2. ~IsHead(f)
          BY <1>2, <5>1
        <5>3. r.stamp = [s.stamp EXCEPT ![i] = s.headInjectCycle]
          BY <1>6, <1>8, <5>1, <5>2
        <5> HIDE DEF i
        <5>4. r.stamp[i] = s.headInjectCycle
          BY <1>1, <1>3, <5>3
        <5>5. QED
          BY <3>2, <4>1, <5>2, <5>4
      <4>2. CASE k # i
        <5>1. \A a \in 1 .. Len(q) : q[a][1] # k
          BY <1>2, <3>4, <4>2
        <5>2. k \in s.stamp[k]
          BY <1>6, <1>8, <3>1, <3>4, <5>1 DEF StampsOf
        <5>3. r.stamp[k] = s.stamp[k]
          <6> HIDE DEF i
          <6>1. k \in DOMAIN work
            BY <1>3, <2>2
          <6>2. QED
            BY <1>1, <1>6, <1>8, <4>2, <6>1
        <5>4. QED
          BY <5>2, <5>3
      <4>3. QED
        BY <4>1, <4>2
    <3>5. QED
      BY <1>9, <2>4, <3>3, <3>4 DEF StampsOf
  <2>5. QED
    BY <2>3, <2>4
<1>12. Sound(r)
  BY <1>8, <1>10, <1>11 DEF Sound
<1>13. QED
  BY <1>2, <1>6, <1>8, <1>12 DEF r, p

LEMMA PutOnLinkKeeps ==
  ASSUME Given, NEW s, NicInv(s), NEW vn \in VN, CanSend(s, vn)
  PROVE  NicInv(PutOnLink(s, vn))
<1> DEFINE f == Head(s.outBuf[vn])
           p == Stamped([s EXCEPT !.outBuf[vn] = Tail(@)], f)
           u == IF IsTail(f) THEN SendFunctor(p) ELSE p
           r == PutOnLink(s, vn)
<1>1. s \in NicState /\ Sound(s) /\ s.outBuf[vn] # <<>> /\ s.rtrCredits[vn] > 0
  BY DEF NicInv, Sound, CanSend
<1>2. s.outBuf \in [VN -> Seq(SentFlit)] /\ s.outbufCredits \in [VN -> Nat]
      /\ s.rtrCredits \in [VN -> Nat]
  BY <1>1 DEF NicState
<1>3. /\ f \in SentFlit /\ Sound(p)
      /\ p.outBuf = [s.outBuf EXCEPT ![vn] = Tail(@)]
      /\ p.outbufCredits = s.outbufCredits /\ p.rtrCredits = s.rtrCredits /\ p.onLink = s.onLink
      /\ p.portCredits = s.portCredits /\ p.inReturnCredits = s.inReturnCredits
  BY <1>1, TakeFlit
<1> HIDE DEF p
<1>4. Sound(u) /\ OnlySends(p, u) /\ Sums(p, u)
  <2>1. CASE IsTail(f)
    BY <1>3, <2>1, SendFunctorKeeps
  <2>2. CASE ~IsTail(f)
    BY <1>3, <2>2 DEF OnlySends, Sums
  <2>3. QED
    BY <2>1, <2>2
<1>5. r = [u EXCEPT !.rtrCredits[vn] = @ - 1, !.outbufCredits[vn] = @ + 1,
                    !.onLink = Append(@, f)]
  BY DEF PutOnLink, u, p
<1> HIDE DEF u, r, f
<1>6. /\ u \in NicState /\ u.rtrCredits = s.rtrCredits /\ u.outbufCredits \in [VN -> Nat]
      /\ u.onLink \in Seq(SentFlit) /\ u.outBuf \in [VN -> Seq(SentFlit)]
  BY <1>3, <1>4 DEF Sound, NicState, OnlySends
<1>7. /\ [u.rtrCredits EXCEPT ![vn] = @ - 1] \in [VN -> Nat]
      /\ [u.outbufCredits EXCEPT ![vn] = @ + 1] \in [VN -> Nat]
      /\ Append(u.onLink, f) \in Seq(SentFlit)
  <2>1. s.rtrCredits[vn] - 1 \in Nat /\ u.outbufCredits[vn] + 1 \in Nat
    BY <1>1, <1>2, <1>6
  <2>2. QED
    BY <1>2, <1>3, <1>6, <2>1, AppendProperties
<1>8. /\ r \in NicState /\ r.outBuf = u.outBuf /\ r.todo = u.todo
      /\ r.headInjectCycle = u.headInjectCycle /\ r.stamp = u.stamp
      /\ r.outbufCredits = [u.outbufCredits EXCEPT ![vn] = @ + 1]
      /\ r.portCredits = u.portCredits /\ r.inReturnCredits = u.inReturnCredits
  <2>1. r = [u EXCEPT !.rtrCredits = [u.rtrCredits EXCEPT ![vn] = @ - 1],
                      !.outbufCredits = [u.outbufCredits EXCEPT ![vn] = @ + 1],
                      !.onLink = Append(u.onLink, f)]
    BY <1>5, <1>6 DEF NicState
  <2>2. QED
    BY <1>6, <1>7, <2>1 DEF NicState
<1>9. Sound(r)
  BY <1>4, <1>8, SameQueues
<1>10. CreditsKept(r)
  BY <1>3, <1>4, <1>8 DEF NicInv, CreditsKept, OnlySends
<1>11. SpaceKept(r)
  <2> SUFFICES ASSUME NEW w \in VN PROVE r.outbufCredits[w] + Len(r.outBuf[w]) = OutBuf
    BY DEF SpaceKept
  <2>1. /\ u.outbufCredits[w] + Len(u.outBuf[w]) = s.outbufCredits[w] + Len(p.outBuf[w])
        /\ s.outbufCredits[w] + Len(s.outBuf[w]) = OutBuf
    BY <1>3, <1>4 DEF NicInv, SpaceKept, Sums
  <2>2. /\ u.outbufCredits[w] \in Nat /\ s.outbufCredits[w] \in Nat
        /\ Len(u.outBuf[w]) \in Nat /\ Len(s.outBuf[w]) \in Nat
    BY <1>2, <1>6, LenProperties
  <2>3. CASE w = vn
    <3>1. Len(p.outBuf[w]) = Len(s.outBuf[w]) - 1
      BY <1>1, <1>2, <1>3, <2>3, HeadTailProperties
    <3>2. r.outbufCredits[w] = u.outbufCredits[w] + 1 /\ r.outBuf[w] = u.outBuf[w]
      BY <1>6, <1>8, <2>3
    <3> DEFINE c == u.outbufCredits[w]
               l == Len(u.outBuf[w])
               d == s.outbufCredits[w]
               m == Len(s.outBuf[w])
    <3>3. /\ c \in Nat /\ l \in Nat /\ d \in Nat /\ m \in Nat /\ OutBuf \in Nat
          /\ c + l = d + (m - 1) /\ d + m = OutBuf
      BY <2>1, <2>2, <3>1, SizesAssumption
    <3>4. r.outbufCredits[w] = c + 1 /\ Len(r.outBuf[w]) = l
      BY <3>2
    <3> HIDE DEF c, l, d, m
    <3>5. QED
      BY <3>3, <3>4
  <2>4. CASE w # vn
    <3>1. p.outBuf[w] = s.outBuf[w]
      BY <1>2, <1>3, <2>4
    <3>2. r.outbufCredits[w] = u.outbufCredits[w] /\ r.outBuf[w] = u.outBuf[w]
      BY <1>6, <1>8, <2>4
    <3>3. QED
      BY <2>1, <3>1, <3>2
  <2>5. QED
    BY <2>3, <2>4
<1>12. QED
  BY <1>9, <1>10, <1>11 DEF NicInv, r

LEMMA SendFlitKeeps ==
  ASSUME Given, NEW s, NicInv(s), NEW vn \in VN
  PROVE  NicInv(SendFlit(s, vn))
BY PutOnLinkKeeps DEF SendFlit

LEMMA ReturnCreditKeeps ==
  ASSUME NEW s, NicInv(s)
  PROVE  NicInv(ReturnCredit(s))
<1> DEFINE owing == {w \in VN : s.inReturnCredits[w] > 0}
           vn    == CHOOSE w \in owing : \A x \in owing : w <= x
           given == s.portCredits[vn] + s.inReturnCredits[vn]
           r     == [s EXCEPT !.portCredits = [s.portCredits EXCEPT ![vn] = given],
                              !.inReturnCredits = [s.inReturnCredits EXCEPT ![vn] = 0]]
<1>1. /\ s \in NicState /\ s.portCredits \in [VN -> Nat] /\ s.inReturnCredits \in [VN -> Nat]
      /\ Sound(s) /\ SpaceKept(s) /\ CreditsKept(s)
  BY DEF NicInv, Sound, NicState
<1>2. CASE owing = {}
  <2>1. ReturnCredit(s) = s
    BY <1>2 DEF ReturnCredit
  <2>2. QED
    BY <2>1
<1>3. CASE owing # {}
  <2>1. vn \in owing
    <3>1. owing \in SUBSET Nat
      BY SizesAssumption DEF VN
    <3> HIDE DEF owing
    <3>2. \E w \in owing : \A x \in owing : w <= x
      BY <1>3, <3>1, LeastNumber
    <3>3. QED
      BY <3>2
  <2>2. ReturnCredit(s) = r
    <3> HIDE DEF given
    <3>1. ReturnCredit(s) = [s EXCEPT !.portCredits[vn] = @ + s.inReturnCredits[vn],
                                      !.inReturnCredits[vn] = 0]
      BY <1>3 DEF ReturnCredit
    <3> HIDE DEF vn, owing
    <3>2. QED
      BY <1>1, <3>1 DEF NicState, given
  <2>3. vn \in VN
    BY <2>1
  <2> HIDE DEF vn, owing
  <2>4. /\ given \in Nat /\ given = InBuf
        /\ [s.portCredits EXCEPT ![vn] = given] \in [VN -> Nat]
        /\ [s.inReturnCredits EXCEPT ![vn] = 0] \in [VN -> Nat]
    BY <1>1, <2>3 DEF CreditsKept
  <2> HIDE DEF given
  <2>5. /\ r \in NicState /\ r.outBuf = s.outBuf /\ r.todo = s.todo
        /\ r.headInjectCycle = s.headInjectCycle /\ r.stamp = s.stamp
        /\ r.outbufCredits = s.outbufCredits
        /\ r.portCredits = [s.portCredits EXCEPT ![vn] = given]
        /\ r.inReturnCredits = [s.inReturnCredits EXCEPT ![vn] = 0]
    BY <1>1, <2>4 DEF NicState
  <2> HIDE DEF r
  <2>6. Sound(r)
    BY <1>1, <2>5, SameQueues
  <2>7. SpaceKept(r)
    BY <1>1, <2>5 DEF SpaceKept
  <2>8. CreditsKept(r)
    <3> SUFFICES ASSUME NEW w \in VN PROVE r.portCredits[w] + r.inReturnCredits[w] = InBuf
      BY DEF CreditsKept
    <3>1. CASE w = vn
      BY <1>1, <2>4, <2>5, <3>1
    <3>2. CASE w # vn
      BY <1>1, <2>5, <3>2 DEF CreditsKept
    <3>3. QED
      BY <3>1, <3>2
  <2>9. QED
    BY <2>2, <2>6, <2>7, <2>8 DEF NicInv
<1>4. QED
  BY <1>2, <1>3

-----------------------------------------------------------------------------
(* The actions.                                                            *)

Inv == Given /\ NicInv(State)

LEMMA Becomes ==
  ASSUME NEW s \in NicState, Become(s)
  PROVE  State' = s
<1>1. s = [todo |-> s.todo, asleep |-> s.asleep, outBuf |-> s.outBuf,
           outbufCredits |-> s.outbufCredits, rtrCredits |-> s.rtrCredits,
           headInjectCycle |-> s.headInjectCycle, stamp |-> s.stamp, onLink |-> s.onLink,
           toCome |-> s.toCome, portCredits |-> s.portCredits,
           inReturnCredits |-> s.inReturnCredits, inBuf |-> s.inBuf, received |-> s.received]
  BY DEF NicState
<1>2. QED
  BY <1>1 DEF Become, State

\* A step to a state with the invariant, which speaks of nothing else that changes.
LEMMA InvStep ==
  ASSUME Given, NEW s, NicInv(s), Become(s)
  PROVE  Inv'
<1>1. work' = work /\ requests' = requests /\ polls' = polls
  BY DEF Become, constant
<1>2. State' = s
  BY Becomes DEF NicInv, Sound
<1>3. NicState' = NicState
  BY <1>1 DEF NicState, SentFlit, ReceivedFlit
<1>4. /\ OneVn' = OneVn
      /\ \A f : IsTail(f)' = IsTail(f)
  BY <1>1 DEF OneVn, IsTail
<1>5. QueuesWhole(State)'
  BY <1>1, <1>2 DEF NicInv, Sound, QueuesWhole, Whole, IsTail, IsHead
<1>6. StampsKept(State)'
  BY <1>1, <1>2, <1>4 DEF NicInv, Sound, StampsKept, StampsOf, IsHead
<1>7. SpaceKept(State)' /\ CreditsKept(State)'
  BY <1>2 DEF NicInv, SpaceKept, CreditsKept
<1>8. (State \in NicState)'
  BY <1>2, <1>3 DEF NicInv, Sound
<1>9. QED
  BY <1>1, <1>5, <1>6, <1>7, <1>8 DEF Inv, Given, NicInv, Sound

\* The sums that the endpoint does not change.
LEMMA SumsKeep ==
  ASSUME NEW s, NicInv(s), NEW r, Sound(r), Sums(s, r)
  PROVE  NicInv(r)
<1>1. SpaceKept(r)
  BY DEF NicInv, SpaceKept, Sums
<1>2. CreditsKept(r)
  BY DEF NicInv, CreditsKept, Sums
<1>3. QED
  BY <1>1, <1>2 DEF NicInv

LEMMA EndpointSendsInv ==
  ASSUME Inv, EndpointSends
  PROVE  Inv'
<1> DEFINE r == TrySend(State)
<1>1. Given /\ NicInv(State) /\ Sound(State)
  BY DEF Inv, NicInv
<1>2. Become(r)
  BY DEF EndpointSends
<1>3. Sound(r) /\ Sums(State, r)
  BY <1>1, TrySendKeeps
<1> HIDE DEF r
<1>4. QED
  BY <1>1, <1>2, <1>3, SumsKeep, InvStep

LEMMA EndpointReceivesInv ==
  ASSUME Inv, EndpointReceives
  PROVE  Inv'
<1>1. Given /\ NicInv(State) /\ Sound(State)
  BY DEF Inv, NicInv
<1>2. PICK vn \in VN : Become(Recv(State, vn))
  BY DEF EndpointReceives
<1> DEFINE r == Recv(State, vn)
<1>3. Sound(r) /\ Sums(State, r)
  BY <1>1, RecvKeeps
<1> HIDE DEF r
<1>4. Become(r)
  BY <1>2 DEF r
<1>5. QED
  BY <1>1, <1>3, <1>4, SumsKeep, InvStep

LEMMA RouterReturnsCreditInv ==
  ASSUME Inv, RouterReturnsCredit
  PROVE  Inv'
<1>1. Given /\ NicInv(State) /\ Sound(State) /\ State \in NicState
  BY DEF Inv, NicInv, Sound
<1>2. PICK vn \in VN : Become([State EXCEPT !.rtrCredits[vn] = @ + 1])
  BY DEF RouterReturnsCredit
<1> DEFINE s == State
           r == [s EXCEPT !.rtrCredits[vn] = @ + 1]
<1>3. Become(r)
  BY <1>2
<1> HIDE DEF s
<1>4. s \in NicState /\ s.rtrCredits \in [VN -> Nat] /\ Sound(s) /\ NicInv(s)
  BY <1>1 DEF NicState, s
<1>5. r = [s EXCEPT !.rtrCredits = [s.rtrCredits EXCEPT ![vn] = @ + 1]]
      /\ [s.rtrCredits EXCEPT ![vn] = @ + 1] \in [VN -> Nat]
  BY <1>4 DEF NicState
<1>6. /\ r \in NicState /\ r.outBuf = s.outBuf /\ r.todo = s.todo
      /\ r.headInjectCycle = s.headInjectCycle /\ r.stamp = s.stamp
      /\ r.outbufCredits = s.outbufCredits
      /\ r.portCredits = s.portCredits /\ r.inReturnCredits = s.inReturnCredits
  BY <1>4, <1>5 DEF NicState
<1> HIDE DEF r
<1>7. Sound(r) /\ Sums(s, r)
  BY <1>4, <1>6, SameQueues DEF Sums
<1>8. QED
  BY <1>1, <1>3, <1>4, <1>7, SumsKeep, InvStep

LEMMA ReceiveFlitInv ==
  ASSUME Inv, NEW vn \in VN, ReceiveFlit(vn)
  PROVE  Inv'
<1> DEFINE z      == State
           f      == Head(z.toCome[vn])
           s      == [z EXCEPT !.toCome[vn] = Tail(@), !.portCredits[vn] = @ - 1]
           queued == [s EXCEPT !.inBuf[vn] = Append(@, f[1])]
           told   == IF EndsRequest(f) THEN ReceiveFunctor(queued, vn) ELSE s
           r      == [told EXCEPT !.inReturnCredits[vn] = @ + 1]
<1>1. /\ Given /\ NicInv(z) /\ Sound(z) /\ z \in NicState
      /\ z.toCome[vn] # <<>> /\ z.portCredits[vn] > 0
  BY DEF Inv, NicInv, Sound, ReceiveFlit, State
<1>2. Become(r)
  BY DEF ReceiveFlit, State
<1> HIDE DEF z
<1>3. /\ z.toCome \in [VN -> Seq(ReceivedFlit)] /\ z.portCredits \in [VN -> Nat]
      /\ z.inBuf \in [VN -> Seq(DOMAIN requests)]
  BY <1>1 DEF NicState
<1>4. /\ f \in ReceivedFlit /\ Tail(z.toCome[vn]) \in Seq(ReceivedFlit)
      /\ z.portCredits[vn] - 1 \in Nat
  BY <1>1, <1>3, HeadTailProperties
<1>5. f[1] \in DOMAIN requests
  BY <1>4 DEF ReceivedFlit
<1>6. /\ s = [z EXCEPT !.toCome = [z.toCome EXCEPT ![vn] = Tail(@)],
                       !.portCredits = [z.portCredits EXCEPT ![vn] = @ - 1]]
      /\ [z.toCome EXCEPT ![vn] = Tail(@)] \in [VN -> Seq(ReceivedFlit)]
      /\ [z.portCredits EXCEPT ![vn] = @ - 1] \in [VN -> Nat]
  BY <1>1, <1>3, <1>4 DEF NicState
<1>7. /\ s \in NicState /\ s.outBuf = z.outBuf /\ s.todo = z.todo
      /\ s.headInjectCycle = z.headInjectCycle /\ s.stamp = z.stamp
      /\ s.outbufCredits = z.outbufCredits /\ s.inBuf = z.inBuf
      /\ s.portCredits = [z.portCredits EXCEPT ![vn] = @ - 1]
      /\ s.inReturnCredits = z.inReturnCredits
  BY <1>1, <1>6 DEF NicState
<1> HIDE DEF s, f
<1>8. Sound(s)
  BY <1>1, <1>7, SameQueues
<1>9. /\ queued = [s EXCEPT !.inBuf = [s.inBuf EXCEPT ![vn] = Append(@, f[1])]]
      /\ [s.inBuf EXCEPT ![vn] = Append(@, f[1])] \in [VN -> Seq(DOMAIN requests)]
  <2>1. Append(s.inBuf[vn], f[1]) \in Seq(DOMAIN requests)
    BY <1>3, <1>5, <1>7, AppendProperties
  <2>2. QED
    BY <1>3, <1>7, <2>1 DEF NicState
<1>10. /\ queued \in NicState /\ queued.outBuf = s.outBuf /\ queued.todo = s.todo
       /\ queued.headInjectCycle = s.headInjectCycle /\ queued.stamp = s.stamp
       /\ queued.outbufCredits = s.outbufCredits
       /\ queued.portCredits = s.portCredits /\ queued.inReturnCredits = s.inReturnCredits
  BY <1>7, <1>9 DEF NicState
<1> HIDE DEF queued
<1>11. Sound(queued) /\ Sums(s, queued)
  BY <1>8, <1>10, SameQueues DEF Sums
<1>12. /\ Sound(told) /\ Sums(s, told)
       /\ told.portCredits = s.portCredits /\ told.inReturnCredits = s.inReturnCredits
  <2>1. CASE EndsRequest(f)
    <3>1. LET x == ReceiveFunctor(queued, vn)
          IN  /\ Sound(x) /\ Sums(queued, x)
              /\ x.portCredits = queued.portCredits
              /\ x.inReturnCredits = queued.inReturnCredits
      BY <1>1, <1>11, ReceiveFunctorKeeps
    <3>2. QED
      BY <1>10, <1>11, <2>1, <3>1 DEF Sums
  <2>2. CASE ~EndsRequest(f)
    BY <1>8, <2>2 DEF Sums
  <2>3. QED
    BY <2>1, <2>2
<1> HIDE DEF told
<1>13. told \in NicState /\ told.inReturnCredits \in [VN -> Nat]
  BY <1>12 DEF Sound, NicState
<1>14. /\ r = [told EXCEPT !.inReturnCredits = [told.inReturnCredits EXCEPT ![vn] = @ + 1]]
       /\ [told.inReturnCredits EXCEPT ![vn] = @ + 1] \in [VN -> Nat]
  BY <1>13 DEF NicState
<1>15. /\ r \in NicState /\ r.outBuf = told.outBuf /\ r.todo = told.todo
       /\ r.headInjectCycle = told.headInjectCycle /\ r.stamp = told.stamp
       /\ r.outbufCredits = told.outbufCredits /\ r.portCredits = told.portCredits
       /\ r.inReturnCredits = [told.inReturnCredits EXCEPT ![vn] = @ + 1]
  BY <1>13, <1>14 DEF NicState
<1> HIDE DEF r
<1>16. Sound(r)
  BY <1>12, <1>15, SameQueues
<1>17. SpaceKept(r)
  BY <1>1, <1>7, <1>12, <1>15 DEF NicInv, SpaceKept, Sums
<1>18. CreditsKept(r)
  <2> SUFFICES ASSUME NEW w \in VN PROVE r.portCredits[w] + r.inReturnCredits[w] = InBuf
    BY DEF CreditsKept
  <2>1. /\ z.portCredits[w] + z.inReturnCredits[w] = InBuf
        /\ z.portCredits[w] \in Nat /\ z.inReturnCredits[w] \in Nat
    BY <1>1 DEF NicInv, CreditsKept, NicState
  <2>2. /\ r.portCredits[w] = IF w = vn THEN z.portCredits[w] - 1 ELSE z.portCredits[w]
        /\ r.inReturnCredits[w] = IF w = vn THEN z.inReturnCredits[w] + 1
                                  ELSE z.inReturnCredits[w]
    BY <1>3, <1>7, <1>12, <1>13, <1>15
  <2>3. QED
    BY <2>1, <2>2
<1>19. NicInv(r)
  BY <1>16, <1>17, <1>18 DEF NicInv
<1>20. QED
  BY <1>1, <1>2, <1>19, InvStep

LEMMA ClockTickInv ==
  ASSUME Inv, ClockTick
  PROVE  Inv'
<1> DEFINE start == [State EXCEPT !.onLink = <<>>]
           after == CHOOSE f : f = [n \in 0 .. NumVns |-> IF n = 0 THEN start
                                                         ELSE SendFlit(f[n - 1], n - 1)]
           s == after[NumVns]
           S == {u \in NicState : NicInv(u)}
<1>1. Given /\ NicInv(State) /\ NumVns \in Nat
  BY SizesAssumption DEF Inv
<1>2. Become(IF s.onLink = <<>> THEN ReturnCredit(s) ELSE s)
  BY Zenon DEF ClockTick
<1>3. start \in S
  <2> DEFINE z == State
  <2>1. z \in NicState /\ Sound(z) /\ NicInv(z)
    BY <1>1 DEF NicInv, Sound
  <2> HIDE DEF z
  <2> DEFINE r == [z EXCEPT !.onLink = <<>>]
  <2>2. /\ r \in NicState /\ r.outBuf = z.outBuf /\ r.todo = z.todo
        /\ r.headInjectCycle = z.headInjectCycle /\ r.stamp = z.stamp
        /\ r.outbufCredits = z.outbufCredits
        /\ r.portCredits = z.portCredits /\ r.inReturnCredits = z.inReturnCredits
    BY <2>1, EmptySeq DEF NicState
  <2>3. start = r
    BY DEF z
  <2> HIDE DEF r
  <2>4. Sound(r) /\ Sums(z, r)
    BY <2>1, <2>2, SameQueues DEF Sums
  <2>5. NicInv(r)
    BY <2>1, <2>4, SumsKeep
  <2>6. QED
    BY <2>2, <2>3, <2>5
<1> HIDE DEF start
<1>4. \A u \in S, n \in 1 .. NumVns : SendFlit(u, n - 1) \in S
  <2> SUFFICES ASSUME NEW u \in S, NEW n \in 1 .. NumVns PROVE SendFlit(u, n - 1) \in S
    OBVIOUS
  <2>1. n - 1 \in VN
    BY <1>1 DEF VN
  <2>2. NicInv(SendFlit(u, n - 1))
    BY <1>1, <2>1, SendFlitKeeps
  <2>3. QED
    BY <2>2 DEF NicInv, Sound
<1> HIDE DEF S
<1>5. after = [n \in 0 .. NumVns |-> IF n = 0 THEN start ELSE SendFlit(after[n - 1], n - 1)]
  <2> DEFINE g == [n \in 1 .. NumVns |-> [u \in S |-> SendFlit(u, n - 1)]]
  <2>1. g \in [1 .. NumVns -> [S -> S]]
    BY <1>4
  <2>2. PICK f \in [0 .. NumVns -> S] : History(f, g, start, NumVns)
    <3> HIDE DEF g
    <3>1. QED
      BY <1>1, <1>3, <2>1, Iteration
  <2>3. ASSUME NEW n \in 0 .. NumVns
        PROVE  f[n] = IF n = 0 THEN start ELSE SendFlit(f[n - 1], n - 1)
    <3>1. CASE n = 0
      BY <2>2, <3>1 DEF History
    <3>2. CASE n # 0
      <4>1. n \in 1 .. NumVns /\ n - 1 \in 0 .. NumVns
        BY <1>1, <3>2
      <4>2. f[n - 1] \in S
        BY <4>1
      <4>3. QED
        BY <2>2, <3>2, <4>1, <4>2 DEF History
    <3>3. QED
      BY <3>1, <3>2
  <2>4. f = [n \in 0 .. NumVns |-> IF n = 0 THEN start ELSE SendFlit(f[n - 1], n - 1)]
    BY <2>3
  <2>5. QED
    BY <2>4, Zenon
<1> HIDE DEF after
<1>6. /\ after[0] = start
      /\ \A n \in 1 .. NumVns : after[n] = SendFlit(after[n - 1], n - 1)
  <2>1. 0 \in 0 .. NumVns /\ \A n \in 1 .. NumVns : n \in 0 .. NumVns /\ n # 0
    BY <1>1
  <2>2. QED
    BY <1>5, <2>1
<1>7. s \in S
  BY <1>1, <1>3, <1>4, <1>6, Preserved
<1>8. NicInv(s)
  BY <1>7 DEF S
<1> HIDE DEF s
<1>9. NicInv(IF s.onLink = <<>> THEN ReturnCredit(s) ELSE s)
  BY <1>8, ReturnCreditKeeps
<1>10. QED
  BY <1>1, <1>2, <1>9, InvStep

\* The flits of the requests that are still to arrive.
LEMMA FlitsOnType ==
  ASSUME requests \in Seq(Request), NEW vn \in VN
  PROVE  FlitsOn(vn) \in Seq(ReceivedFlit)
<1> DEFINE S == Seq(ReceivedFlit)
           N == Len(requests)
           New(r) == [j \in 1 .. requests[r].flits |-> <<r, j - 1>>]
           Next_(r, q) == IF requests[r].vn # vn THEN q ELSE q \o New(r)
           flits == CHOOSE f : f = [r \in 0 .. N |->
                      IF r = 0 THEN <<>>
                      ELSE IF requests[r].vn # vn THEN f[r - 1]
                      ELSE f[r - 1] \o [j \in 1 .. requests[r].flits |-> <<r, j - 1>>]]
<1>1. N \in Nat /\ DOMAIN requests = 1 .. N
  BY LenProperties
<1>2. FlitsOn(vn) = flits[N]
  BY Zenon DEF FlitsOn
<1>3. ASSUME NEW r \in 1 .. N PROVE New(r) \in S
  <2>1. requests[r] \in Request
    BY ElementOfSeq
  <2>2. requests[r].flits \in Nat
    BY <2>1 DEF Request
  <2>3. ASSUME NEW j \in 1 .. requests[r].flits PROVE <<r, j - 1>> \in ReceivedFlit
    <3>1. j - 1 \in Nat /\ j - 1 < requests[r].flits
      BY <2>2
    <3>2. <<r, j - 1>> \in (DOMAIN requests) \X Nat
      BY <1>1, <3>1
    <3>3. QED
      BY <3>1, <3>2 DEF ReceivedFlit
  <2>4. New(r) \in [1 .. requests[r].flits -> ReceivedFlit]
    BY <2>3
  <2> HIDE DEF New
  <2>5. QED
    BY <2>2, <2>4
<1>4. ASSUME NEW q \in S, NEW r \in 1 .. N PROVE Next_(r, q) \in S
  <2>1. New(r) \in S
    BY <1>3
  <2> HIDE DEF New
  <2>2. QED
    BY <2>1, ConcatProperties
<1>5. <<>> \in S
  BY EmptySeq
<1> HIDE DEF S
<1>6. flits = [r \in 0 .. N |-> IF r = 0 THEN <<>> ELSE Next_(r, flits[r - 1])]
  <2> DEFINE g == [r \in 1 .. N |-> [q \in S |-> Next_(r, q)]]
  <2> HIDE DEF Next_
  <2>1. g \in [1 .. N -> [S -> S]]
    BY <1>4
  <2>2. PICK f \in [0 .. N -> S] : History(f, g, <<>>, N)
    <3> HIDE DEF g
    <3>1. QED
      BY <1>1, <1>5, <2>1, Iteration
  <2>3. ASSUME NEW r \in 0 .. N
        PROVE  f[r] = IF r = 0 THEN <<>> ELSE Next_(r, f[r - 1])
    <3>1. CASE r = 0
      BY <2>2, <3>1 DEF History
    <3>2. CASE r # 0
      <4>1. r \in 1 .. N /\ r - 1 \in 0 .. N
        BY <1>1, <3>2
      <4>2. f[r - 1] \in S
        BY <4>1
      <4>3. QED
        BY <2>2, <3>2, <4>1, <4>2 DEF History
    <3>3. QED
      BY <3>1, <3>2
  <2>4. f = [r \in 0 .. N |-> IF r = 0 THEN <<>> ELSE Next_(r, f[r - 1])]
    BY <2>3
  <2>5. QED
    BY <2>4, Zenon DEF Next_
<1> HIDE DEF flits, Next_
<1>7. /\ flits[0] = <<>>
      /\ \A r \in 1 .. N : flits[r] = Next_(r, flits[r - 1])
  <2>1. 0 \in 0 .. N /\ \A r \in 1 .. N : r \in 0 .. N /\ r # 0
    BY <1>1
  <2>2. QED
    BY <1>6, <2>1
<1>8. flits[N] \in S
  <2> HIDE DEF N
  <2>1. QED
    BY <1>1, <1>4, <1>5, <1>7, Preserved
<1>9. QED
  BY <1>2, <1>8 DEF S

LEMMA InitInv ==
  ASSUME Init
  PROVE  Inv
<1>1. Given
  BY WorkloadAssumption DEF Init, Given
<1>2. DOMAIN work = 1 .. Len(work) /\ Len(work) \in Nat
  BY <1>1, LenProperties DEF Given
<1>3. /\ todo \in 1 .. Len(work) + 1 /\ asleep \in BOOLEAN
      /\ outBuf \in [VN -> Seq(SentFlit)] /\ onLink \in Seq(SentFlit)
      /\ outbufCredits \in [VN -> Nat] /\ rtrCredits \in [VN -> Nat]
      /\ headInjectCycle \in SUBSET DOMAIN work /\ stamp \in [DOMAIN work -> SUBSET DOMAIN work]
  <2>1. <<>> \in Seq(SentFlit) /\ OutBuf \in Nat /\ RtrBuf \in Nat
    BY SizesAssumption, EmptySeq
  <2>2. todo \in 1 .. Len(work) + 1 /\ asleep \in BOOLEAN
    <3>1. todo = 1 /\ asleep \in BOOLEAN
      BY DEF Init
    <3>2. QED
      BY <1>2, <3>1
  <2>3. outBuf \in [VN -> Seq(SentFlit)] /\ onLink \in Seq(SentFlit)
    BY <2>1 DEF Init
  <2>4. outbufCredits \in [VN -> Nat] /\ rtrCredits \in [VN -> Nat]
    BY <2>1 DEF Init
  <2>5. headInjectCycle \in SUBSET DOMAIN work /\ stamp \in [DOMAIN work -> SUBSET DOMAIN work]
    BY <1>2 DEF Init, Never
  <2>6. QED
    BY <2>2, <2>3, <2>4, <2>5
<1>4. /\ toCome \in [VN -> Seq(ReceivedFlit)] /\ portCredits \in [VN -> Nat]
      /\ inReturnCredits \in [VN -> Nat] /\ inBuf \in [VN -> Seq(DOMAIN requests)]
      /\ received \in Nat
  <2>1. \A vn \in VN : FlitsOn(vn) \in Seq(ReceivedFlit)
    BY <1>1, FlitsOnType DEF Given
  <2>2. QED
    BY <2>1, SizesAssumption, EmptySeq DEF Init
<1>5. State \in NicState
  BY <1>3, <1>4 DEF NicState, State
<1>6. \A vn \in VN : State.outBuf[vn] = <<>>
  BY DEF Init, State
<1>7. QueuesWhole(State)
  BY <1>6, EmptySeq DEF QueuesWhole, Whole
<1>8. StampsKept(State)
  <2>1. State.todo = 1
    BY DEF Init, State
  <2>2. 1 .. State.todo - 1 = {}
    BY <2>1
  <2>3. QED
    BY <1>6, <2>2 DEF StampsKept, StampsOf
<1>9. SpaceKept(State)
  BY SizesAssumption, EmptySeq DEF Init, State, SpaceKept
<1>10. CreditsKept(State)
  BY SizesAssumption DEF Init, State, CreditsKept
<1>11. QED
  BY <1>1, <1>5, <1>7, <1>8, <1>9, <1>10 DEF Inv, NicInv, Sound

LEMMA StutterInv ==
  ASSUME Inv, UNCHANGED vars
  PROVE  Inv'
<1>1. Become(State)
  BY DEF vars, Become, State
<1>2. QED
  BY <1>1, InvStep DEF Inv

LEMMA AlwaysInv == Spec => []Inv
<1>1. Inv /\ [Next]_vars => Inv'
  <2> SUFFICES ASSUME Inv, [Next]_vars PROVE Inv'
    OBVIOUS
  <2>1. CASE EndpointSends
    BY <2>1, EndpointSendsInv
  <2>2. CASE EndpointReceives
    BY <2>2, EndpointReceivesInv
  <2>3. CASE ClockTick
    BY <2>3, ClockTickInv
  <2>4. CASE RouterReturnsCredit
    BY <2>4, RouterReturnsCreditInv
  <2>5. CASE RouterSendsFlit
    BY <2>5, ReceiveFlitInv DEF RouterSendsFlit
  <2>6. CASE UNCHANGED vars
    BY <2>6, StutterInv
  <2>7. QED
    BY <2>1, <2>2, <2>3, <2>4, <2>5, <2>6 DEF Next
<1>2. QED
  BY <1>1, InitInv, PTL DEF Spec

\* The counters of a NIC never go negative and its queues hold flits of the packets
\* they are for, although the endpoint calls send() and recv() from inside the loops.
THEOREM TypeCorrect == Spec => []TypeOK
<1>1. Inv => TypeOK
  BY DEF Inv, Given, NicInv, Sound, TypeOK
<1>2. QED
  BY <1>1, AlwaysInv, PTL

\* Space in an output buffer is taken and given back exactly once per flit, in
\* whatever order notification, send() and the loop write the counter.
THEOREM SpaceCorrect == Spec => []SpaceExact
<1>1. Inv => SpaceExact
  BY DEF Inv, NicInv, SpaceKept, SpaceExact, State
<1>2. QED
  BY <1>1, AlwaysInv, PTL

\* Every credit of a virtual network is either with the router or owed to it.
THEOREM CreditsCorrect == Spec => []CreditsExact
<1>1. Inv => CreditsExact
  BY DEF Inv, NicInv, CreditsKept, CreditsExact, State
<1>2. QED
  BY <1>1, AlwaysInv, PTL

\* While one virtual network is in use, every TAIL carries the cycle in which the
\* HEAD of its own packet was put on the link.
THEOREM StampsCorrect == Spec => []StampExactOnOneVn
<1>1. Inv => StampExactOnOneVn
  <2> SUFFICES ASSUME Inv, \A i, j \in 1 .. Len(work) : work[i].vn = work[j].vn,
                      NEW i \in 1 .. Len(work), TailSent(i)
               PROVE  i \in stamp[i]
    BY DEF StampExactOnOneVn, HeadStampExact
  <2>1. /\ State.outBuf = outBuf /\ State.todo = todo /\ State.stamp = stamp
        /\ State \in NicState /\ StampsKept(State) /\ OneVn /\ Given
    BY DEF Inv, NicInv, Sound, State, OneVn
  <2>2. work[i].vn \in VN
    BY <2>1, NewFlitsFacts
  <2>3. i \in 1 .. todo - 1
    <3>1. todo \in 1 .. Len(work) + 1 /\ Len(work) \in Nat
      BY <2>1, LenProperties DEF NicState, Given
    <3>2. QED
      BY <3>1 DEF TailSent
  <2>4. QED
    BY <2>1, <2>2, <2>3 DEF StampsKept, StampsOf, TailSent
<1>2. QED
  BY <1>1, AlwaysInv, PTL
=============================================================================
