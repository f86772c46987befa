------------------------------ MODULE SeqFacts ------------------------------
(***************************************************************************)
(* Facts about sequences and natural numbers that the proofs about streams *)
(* and queues cite.                                                        *)
(***************************************************************************)
EXTENDS Integers, Sequences, SequenceTheorems, WellFoundedInduction, TLAPS

\* Induction over a set of numbers: one that holds 0 and, with each number, the next.
LEMMA SetInduction ==
  ASSUME NEW T, 0 \in T, \A n \in Nat : n \in T => n + 1 \in T
  PROVE  Nat \subseteq T
<1> DEFINE missing == {n \in Nat : n \notin T}
<1> SUFFICES ASSUME missing # {} PROVE FALSE
  OBVIOUS
<1>1. PICK m \in missing : \A y \in missing : ~(<<y, m>> \in OpToRel(<, Nat))
  BY NatLessThanWellFounded, WFMin
<1>2. \A y \in missing : ~(y < m)
  BY <1>1 DEF OpToRel
<1>3. m \in Nat /\ m \notin T
  OBVIOUS
<1>4. m # 0 /\ m - 1 \in Nat
  BY <1>3
<1>5. m - 1 \in T
  BY <1>2, <1>4
<1>6. m - 1 + 1 \in T
  BY <1>4, <1>5
<1>7. QED
  BY <1>3, <1>6

\* The element that moves from the front of one part of a sequence to the end of the
\* part before it stays where it is in the whole.
LEMMA MoveFront ==
  ASSUME NEW S, NEW s \in Seq(S), NEW t \in Seq(S), t # <<>>
  PROVE  Append(s, Head(t)) \o Tail(t) = s \o t
<1>1. Head(t) \in S /\ Tail(t) \in Seq(S) /\ Len(Tail(t)) = Len(t) - 1
      /\ \A i \in 1 .. Len(Tail(t)) : Tail(t)[i] = t[i + 1]
  BY HeadTailProperties
<1>2. <<Head(t)>> \o Tail(t) = t
  BY <1>1, ConcatProperties, SeqEqual
<1>3. QED
  BY <1>1, <1>2, AppendIsConcat, ConcatAssociative

\* The front of a concatenation is taken from its first part, and its end is added
\* to its last.
LEMMA TakeFromFirst ==
  ASSUME NEW S, NEW s \in Seq(S), NEW t \in Seq(S), s # <<>>
  PROVE  s \o t # <<>> /\ Head(s \o t) = Head(s) /\ Tail(s \o t) = Tail(s) \o t
<1> DEFINE r == Tail(s)
           h == Head(s)
<1>1. h \in S /\ r \in Seq(S) /\ <<h>> \in Seq(S)
  BY HeadTailProperties
<1>2. s = <<h>> \o r
  <2>1. <<>> \in Seq(S) /\ Append(<<>>, h) = <<h>> /\ <<>> \o s = s
    BY ConcatEmptySeq
  <2>2. QED
    BY <2>1, MoveFront
<1>3. s \o t = <<h>> \o (r \o t)
  BY <1>1, <1>2, ConcatAssociative
<1>4. r \o t \in Seq(S)
  BY <1>1, ConcatProperties
<1> HIDE DEF r, h
<1>5. /\ <<h>> \o (r \o t) # <<>> /\ Head(<<h>> \o (r \o t)) = h
      /\ Tail(<<h>> \o (r \o t)) = r \o t
  BY <1>1, <1>4
<1>6. QED
  BY <1>3, <1>5 DEF r, h

LEMMA AddToLast ==
  ASSUME NEW S, NEW s \in Seq(S), NEW t \in Seq(S), NEW e \in S
  PROVE  s \o Append(t, e) = Append(s \o t, e)
<1>1. <<e>> \in Seq(S) /\ s \o t \in Seq(S)
  BY ConcatProperties
<1>2. QED
  BY <1>1, AppendIsConcat, ConcatAssociative

\* Where the second part of a concatenation begins.
LEMMA ConcatFront ==
  ASSUME NEW S, NEW s \in Seq(S), NEW t \in Seq(S), t # <<>>
  PROVE  /\ Len(s) \in Nat /\ Len(s) + 1 \in 1 .. Len(s \o t)
         /\ (s \o t)[Len(s) + 1] = Head(t)
<1>1. Len(s) \in Nat /\ Len(t) \in Nat \ {0} /\ Head(t) = t[1]
  BY LenProperties, EmptySeq
<1>2. /\ Len(s \o t) = Len(s) + Len(t)
      /\ \A i \in 1 .. Len(s) + Len(t) : (s \o t)[i] = IF i <= Len(s) THEN s[i] ELSE t[i - Len(s)]
  BY ConcatProperties
<1> DEFINE n == Len(s)
           w == s \o t
<1>3. n \in Nat /\ Len(t) \in Nat \ {0} /\ Len(w) = n + Len(t)
      /\ \A i \in 1 .. n + Len(t) : w[i] = IF i <= n THEN s[i] ELSE t[i - n]
  BY <1>1, <1>2
<1> HIDE DEF n, w
<1>4. n + 1 \in 1 .. Len(w) /\ ~(n + 1 <= n) /\ (n + 1) - n = 1
  BY <1>3
<1>5. w[n + 1] = t[1]
  BY <1>3, <1>4
<1>6. QED
  BY <1>1, <1>3, <1>4, <1>5 DEF n, w

\* An element of a sequence with one more at its end.
LEMMA InAppend ==
  ASSUME NEW S, NEW s \in Seq(S), NEW e \in S, NEW i \in 1 .. Len(Append(s, e))
  PROVE  /\ Len(s) \in Nat /\ i \in Nat /\ Len(Append(s, e)) = Len(s) + 1
         /\ \/ i \in 1 .. Len(s) /\ Append(s, e)[i] = s[i]
            \/ i = Len(s) + 1 /\ Append(s, e)[i] = e
<1>1. Len(s) \in Nat /\ Len(Append(s, e)) = Len(s) + 1
  BY LenProperties, AppendProperties
<1>2. i \in 1 .. Len(s) \/ i = Len(s) + 1
  BY <1>1
<1>3. QED
  BY <1>1, <1>2, AppendProperties

\* An element of a concatenation.
LEMMA InConcat ==
  ASSUME NEW S, NEW s \in Seq(S), NEW t \in Seq(S), NEW i \in 1 .. Len(s \o t)
  PROVE  \/ i \in 1 .. Len(s) /\ (s \o t)[i] = s[i]
         \/ i - Len(s) \in 1 .. Len(t) /\ (s \o t)[i] = t[i - Len(s)]
<1>1. Len(s) \in Nat /\ Len(t) \in Nat /\ Len(s \o t) = Len(s) + Len(t)
  BY LenProperties, ConcatProperties
<1>2. (s \o t)[i] = IF i <= Len(s) THEN s[i] ELSE t[i - Len(s)]
  BY <1>1, ConcatProperties
<1>3. QED
  BY <1>1, <1>2

\* f is the history of a loop that starts with a, of N rounds g.
History(f, g, a, N) == f[0] = a /\ \A n \in 1 .. N : f[n] = g[n][f[n - 1]]

\* A loop of N rounds, each a function on S, has a history.
LEMMA Iteration ==
  ASSUME NEW S, NEW N \in Nat, NEW a \in S, NEW g \in [1 .. N -> [S -> S]]
  PROVE  \E f \in [0 .. N -> S] : History(f, g, a, N)
<1> DEFINE T == {n \in Nat : n <= N => \E f \in [0 .. n -> S] : History(f, g, a, n)}
<1>1. 0 \in T
  <2> DEFINE f == [m \in 0 .. 0 |-> a]
  <2>1. f \in [0 .. 0 -> S] /\ History(f, g, a, 0)
    BY DEF History
  <2>2. QED
    BY <2>1
<1>2. ASSUME NEW n \in Nat, n \in T PROVE n + 1 \in T
  <2> SUFFICES ASSUME n + 1 <= N PROVE \E f \in [0 .. n + 1 -> S] : History(f, g, a, n + 1)
    OBVIOUS
  <2>1. PICK f \in [0 .. n -> S] : History(f, g, a, n)
    BY <1>2
  <2> DEFINE h == [m \in 0 .. n + 1 |-> IF m = n + 1 THEN g[n + 1][f[n]] ELSE f[m]]
  <2>2. g[n + 1] \in [S -> S] /\ f[n] \in S
    OBVIOUS
  <2>3. h \in [0 .. n + 1 -> S]
    BY <2>2
  <2>4. h[0] = a
    BY <2>1 DEF History
  <2>5. ASSUME NEW m \in 1 .. n + 1 PROVE h[m] = g[m][h[m - 1]]
    <3>1. CASE m = n + 1
      BY <3>1
    <3>2. CASE m # n + 1
      <4>1. m \in 1 .. n /\ m \in 0 .. n + 1 /\ m - 1 \in 0 .. n + 1 /\ m - 1 # n + 1
        BY <3>2
      <4>2. QED
        BY <2>1, <4>1 DEF History
    <3>3. QED
      BY <3>1, <3>2
  <2>6. QED
    BY <2>3, <2>4, <2>5 DEF History
<1>3. N \in T
  <2> HIDE DEF T
  <2>1. QED
    BY <1>1, <1>2, SetInduction
<1>4. QED
  BY <1>3

\* What each of N rounds preserves holds to the end.
LEMMA Preserved ==
  ASSUME NEW S, NEW N \in Nat, NEW f, f[0] \in S,
         \A n \in 1 .. N : f[n - 1] \in S => f[n] \in S
  PROVE  f[N] \in S
<1> DEFINE T == {n \in Nat : n <= N => f[n] \in S}
<1>1. 0 \in T
  OBVIOUS
<1>2. ASSUME NEW n \in Nat, n \in T PROVE n + 1 \in T
  <2> SUFFICES ASSUME n + 1 <= N PROVE f[n + 1] \in S
    OBVIOUS
  <2>1. n + 1 \in 1 .. N /\ n + 1 - 1 = n /\ f[n] \in S
    BY <1>2
  <2>2. QED
    BY <2>1
<1>3. N \in T
  <2> HIDE DEF T
  <2>1. QED
    BY <1>1, <1>2, SetInduction
<1>4. QED
  BY <1>3

\* A set of numbers that is not empty has a least one.
LEMMA LeastNumber ==
  ASSUME NEW T \in SUBSET Nat, T # {}
  PROVE  \E m \in T : \A n \in T : m <= n
<1>1. PICK m \in T : \A y \in T : ~(<<y, m>> \in OpToRel(<, Nat))
  BY NatLessThanWellFounded, WFMin
<1>2. \A y \in T : ~(y < m)
  BY <1>1 DEF OpToRel
<1>3. QED
  BY <1>2

\* Induction over sequences: a set that holds the empty one and, with each, those
\* with one more element at the end.
LEMMA SeqInduction ==
  ASSUME NEW S, NEW T, <<>> \in T,
         \A s \in Seq(S), e \in S : s \in T => Append(s, e) \in T
  PROVE  Seq(S) \subseteq T
<1> DEFINE L == {n \in Nat : \A s \in Seq(S) : Len(s) = n => s \in T}
<1>1. 0 \in L
  BY EmptySeq
<1>2. ASSUME NEW n \in Nat, n \in L PROVE n + 1 \in L
  <2> SUFFICES ASSUME NEW s \in Seq(S), Len(s) = n + 1 PROVE s \in T
    OBVIOUS
  <2> DEFINE r == [i \in 1 .. n |-> s[i]]
  <2>1. /\ \A i \in 1 .. n + 1 : s[i] \in S
        /\ n + 1 \in 1 .. n + 1
    BY ElementOfSeq
  <2>2. r \in Seq(S) /\ Len(r) = n
    BY <2>1
  <2>3. s = Append(r, s[n + 1])
    <3>1. /\ Append(r, s[n + 1]) \in Seq(S) /\ Len(Append(r, s[n + 1])) = n + 1
          /\ \A i \in 1 .. n + 1 : Append(r, s[n + 1])[i] = IF i <= n THEN r[i] ELSE s[n + 1]
      <4> HIDE DEF r
      <4>1. QED
        BY <2>1, <2>2, AppendProperties
    <3>2. \A i \in 1 .. n + 1 : Append(r, s[n + 1])[i] = s[i]
      <4> TAKE i \in 1 .. n + 1
      <4>1. i \in 1 .. n \/ i = n + 1
        OBVIOUS
      <4>2. QED
        BY <3>1, <4>1
    <3>3. QED
      BY <3>1, <3>2, SeqEqual
  <2>4. r \in T
    BY <1>2, <2>2
  <2>5. QED
    BY <2>1, <2>2, <2>3, <2>4
<1>3. ASSUME NEW s \in Seq(S) PROVE s \in T
  <2> HIDE DEF L
  <2>1. Len(s) \in L
    BY <1>1, <1>2, SetInduction
  <2>2. QED
    BY <2>1 DEF L
<1>4. QED
  BY <1>3

\* f follows step along the sequence q, from a.
Rounds(f, q, step, a) == f[0] = a /\ \A i \in 1 .. Len(q) : f[i] = step[<<f[i - 1], q[i]>>]

\* ... and ends in x.
Reaches(q, step, a, x) == \E f : Rounds(f, q, step, a) /\ f[Len(q)] = x

LEMMA RoundsExist ==
  ASSUME NEW S, NEW M, NEW q \in Seq(M), NEW a \in S, NEW step \in [S \X M -> S]
  PROVE  \E f \in [0 .. Len(q) -> S] : Rounds(f, q, step, a)
<1> DEFINE g == [n \in 1 .. Len(q) |-> [x \in S |-> step[<<x, q[n]>>]]]
<1>1. Len(q) \in Nat /\ \A n \in 1 .. Len(q) : q[n] \in M
  BY LenProperties, ElementOfSeq
<1>2. g \in [1 .. Len(q) -> [S -> S]]
  BY <1>1
<1>3. PICK f \in [0 .. Len(q) -> S] : History(f, g, a, Len(q))
  <2> HIDE DEF g
  <2>1. QED
    BY <1>1, <1>2, Iteration
<1>4. ASSUME NEW i \in 1 .. Len(q) PROVE f[i] = step[<<f[i - 1], q[i]>>]
  <2>1. i - 1 \in 0 .. Len(q)
    BY <1>1
  <2>2. f[i - 1] \in S
    BY <2>1
  <2>3. QED
    BY <1>3, <2>2 DEF History
<1>5. QED
  BY <1>3, <1>4 DEF Rounds, History

LEMMA ReachesEmpty ==
  ASSUME NEW step, NEW a, NEW x, Reaches(<<>>, step, a, x)
  PROVE  x = a
BY DEF Reaches, Rounds

LEMMA ReachesAppend ==
  ASSUME NEW M, NEW q \in Seq(M), NEW e \in M, NEW step, NEW a, NEW x, NEW y,
         Reaches(q, step, a, x), Reaches(Append(q, e), step, a, y)
  PROVE  y = step[<<x, e>>]
<1> DEFINE N == Len(q)
           w == Append(q, e)
<1>1. N \in Nat /\ Len(w) = N + 1 /\ (\A i \in 1 .. N : w[i] = q[i]) /\ w[N + 1] = e
  BY LenProperties, AppendProperties
<1>2. PICK f : Rounds(f, q, step, a) /\ f[N] = x
  BY DEF Reaches
<1> HIDE DEF w
<1>3. PICK h : Rounds(h, w, step, a) /\ h[N + 1] = y
  BY <1>1 DEF Reaches, w
<1> DEFINE T == {n \in Nat : n <= N => h[n] = f[n]}
<1>4. 0 \in T
  BY <1>2, <1>3 DEF Rounds
<1>5. ASSUME NEW n \in Nat, n \in T PROVE n + 1 \in T
  <2> SUFFICES ASSUME n + 1 <= N PROVE h[n + 1] = f[n + 1]
    OBVIOUS
  <2>1. n + 1 \in 1 .. N /\ n + 1 \in 1 .. Len(w) /\ n + 1 - 1 = n /\ h[n] = f[n]
    BY <1>1, <1>5
  <2>2. f[n + 1] = step[<<f[n], q[n + 1]>>] /\ h[n + 1] = step[<<h[n], w[n + 1]>>]
    BY <1>2, <1>3, <2>1 DEF Rounds
  <2>3. QED
    BY <1>1, <2>1, <2>2
<1>6. h[N] = f[N]
  <2> HIDE DEF T
  <2>1. N \in T
    BY <1>1, <1>4, <1>5, SetInduction
  <2>2. QED
    BY <2>1 DEF T
<1>7. h[N + 1] = step[<<h[N], w[N + 1]>>]
  <2>1. N + 1 \in 1 .. Len(w) /\ N + 1 - 1 = N
    BY <1>1
  <2>2. QED
    BY <1>3, <2>1 DEF Rounds
<1>8. QED
  BY <1>1, <1>2, <1>3, <1>6, <1>7

\* Which number has quotient d and remainder r.
LEMMA QuotientUnique ==
  ASSUME NEW b \in Nat \ {0}, NEW a \in Int, NEW d \in Int, NEW r \in 0 .. b - 1
  PROVE  (a \div b = d /\ a % b = r) <=> a = (b * d) + r
<1> DEFINE d2 == a \div b
           r2 == a % b
<1>1. d2 \in Int /\ r2 \in 0 .. b - 1 /\ a = (b * d2) + r2
  OBVIOUS
<1> HIDE DEF d2, r2
<1>2. ASSUME NEW x \in Int, NEW y \in Int, x < y
      PROVE  (b * x) + b <= b * y
  <2>1. b * (x + 1) <= b * y
    BY <1>2
  <2>2. b * (x + 1) = (b * x) + b
    OBVIOUS
  <2>3. QED
    BY <2>1, <2>2
<1>3. ASSUME (b * d) + r = (b * d2) + r2 PROVE d = d2 /\ r = r2
  <2>1. ~(d < d2)
    BY <1>1, <1>2, <1>3
  <2>2. ~(d2 < d)
    BY <1>1, <1>2, <1>3
  <2>3. d = d2
    BY <1>1, <2>1, <2>2
  <2>4. QED
    BY <1>1, <1>3, <2>3
<1>4. QED
  BY <1>1, <1>3 DEF d2, r2
=============================================================================
