------------------------- MODULE BuildScript_proofs -------------------------
(***************************************************************************)
(* Proofs about the simulation scripts, whatever the sizes they are called *)
(* with.  A script is first reduced to the set of calls it makes, each of  *)
(* them once, and to what is known of their order: no component is linked  *)
(* before it is made.                                                      *)
(***************************************************************************)
EXTENDS BuildScript, NetworkScripts, SeqFacts, FiniteSetTheorems

\* A call that gives a link an end.
LinkCall(c) == c.call \in {"addLink", "addNextLink"}

\* s makes the calls of T, each of them once.
Lists(s, T) ==
  /\ s \in Seq(T)
  /\ \A c \in T : \E i \in 1 .. Len(s) : s[i] = c
  /\ \A i, j \in 1 .. Len(s) : s[i] = s[j] => i = j

\* What s links is in R or was made by s before.
Heralded(s, R) ==
  \A i \in 1 .. Len(s) : LinkCall(s[i]) =>
    \/ s[i].name \in R
    \/ \E j \in 1 .. i - 1 : s[j].call = "Component" /\ s[j].name = s[i].name

Makes(s, T, R) == Lists(s, T) /\ Heralded(s, R)

-----------------------------------------------------------------------------
(* Calls one after the other.                                              *)

LEMMA MakesNothing == ASSUME NEW R PROVE Makes(<<>>, {}, R)
  BY DEF Makes, Lists, Heralded

LEMMA MakesOne ==
  ASSUME NEW c, NEW R, LinkCall(c) => c.name \in R
  PROVE  Makes(<<c>>, {c}, R)
<1>1. <<c>> \in Seq({c}) /\ Len(<<c>>) = 1 /\ <<c>>[1] = c
  OBVIOUS
<1>2. QED
  BY <1>1 DEF Makes, Lists, Heralded

LEMMA FirstCall == ASSUME NEW s, NEW T, NEW R, Makes(s, T, R), s # <<>> PROVE s[1] \in T
<1>1. s \in Seq(T)
  BY DEF Makes, Lists
<1>2. QED
  BY <1>1

LEMMA MakesConcat ==
  ASSUME NEW s, NEW t, NEW A, NEW B, NEW R, Makes(s, A, R), Makes(t, B, R), A \cap B = {}
  PROVE  Makes(s \o t, A \cup B, R)
<1> DEFINE w == s \o t
           m == Len(s)
<1>1. s \in Seq(A) /\ t \in Seq(B) /\ s \in Seq(A \cup B) /\ t \in Seq(A \cup B)
  BY DEF Makes, Lists
<1>2. /\ w \in Seq(A \cup B) /\ Len(w) = m + Len(t) /\ m \in Nat /\ Len(t) \in Nat
      /\ \A i \in 1 .. m : w[i] = s[i] /\ s[i] \in A
      /\ \A i \in 1 .. Len(t) : w[i + m] = t[i] /\ t[i] \in B
  BY <1>1
<1>3. \A i \in 1 .. Len(w) : i \notin 1 .. m =>
        i - m \in 1 .. Len(t) /\ w[i] = t[i - m] /\ t[i - m] \in B
  <2> TAKE i \in 1 .. Len(w)
  <2> HAVE i \notin 1 .. m
  <2>1. i - m \in 1 .. Len(t) /\ (i - m) + m = i
    BY <1>2
  <2>2. QED
    BY <1>2, <2>1
<1> HIDE DEF w, m
<1>4. ASSUME NEW c \in A \cup B PROVE \E i \in 1 .. Len(w) : w[i] = c
  <2>1. CASE c \in A
    <3>1. PICK i \in 1 .. Len(s) : s[i] = c
      BY <2>1 DEF Makes, Lists
    <3>2. i \in 1 .. m /\ i \in 1 .. Len(w)
      BY <1>2, <3>1 DEF m
    <3>3. QED
      BY <1>2, <3>1, <3>2
  <2>2. CASE c \in B
    <3>1. PICK i \in 1 .. Len(t) : t[i] = c
      BY <2>2 DEF Makes, Lists
    <3>2. i + m \in 1 .. Len(w)
      BY <1>2
    <3>3. QED
      BY <1>2, <3>1, <3>2
  <2>3. QED
    BY <2>1, <2>2
<1>5. ASSUME NEW i \in 1 .. Len(w), NEW j \in 1 .. Len(w), w[i] = w[j] PROVE i = j
  <2>1. CASE i \in 1 .. m /\ j \in 1 .. m
    BY <1>2, <1>5, <2>1 DEF Makes, Lists, m
  <2>2. CASE i \notin 1 .. m /\ j \notin 1 .. m
    <3>1. i - m \in 1 .. Len(t) /\ j - m \in 1 .. Len(t) /\ t[i - m] = t[j - m]
      BY <1>3, <1>5, <2>2
    <3>2. i - m = j - m
      BY <3>1 DEF Makes, Lists
    <3>3. QED
      BY <1>2, <3>2
  <2>3. QED
    BY <1>2, <1>3, <1>5, <2>1, <2>2
<1>6. ASSUME NEW i \in 1 .. Len(w), LinkCall(w[i]), w[i].name \notin R
      PROVE  \E j \in 1 .. i - 1 : w[j].call = "Component" /\ w[j].name = w[i].name
  <2>1. CASE i \in 1 .. m
    <3>1. PICK j \in 1 .. i - 1 : s[j].call = "Component" /\ s[j].name = s[i].name
      BY <1>2, <1>6, <2>1 DEF Makes, Heralded, m
    <3>2. j \in 1 .. m
      BY <1>2, <2>1
    <3>3. QED
      BY <1>2, <2>1, <3>1, <3>2
  <2>2. CASE i \notin 1 .. m
    <3>1. PICK j \in 1 .. i - m - 1 : t[j].call = "Component" /\ t[j].name = t[i - m].name
      BY <1>3, <1>6, <2>2 DEF Makes, Heralded
    <3>2. j + m \in 1 .. i - 1 /\ j \in 1 .. Len(t)
      BY <1>2, <1>3, <2>2
    <3>3. QED
      BY <1>2, <1>3, <2>2, <3>1, <3>2, ZenonT(30)
  <2>3. QED
    BY <2>1, <2>2
<1>7. Lists(w, A \cup B)
  BY <1>2, <1>4, <1>5 DEF Lists
<1>8. Heralded(w, R)
  BY <1>6 DEF Heralded
<1>9. QED
  BY <1>7, <1>8 DEF Makes, w

\* A component that is made first may be linked after that.
LEMMA MakesFirst ==
  ASSUME NEW c, NEW t, NEW A, NEW R, c.call = "Component", c \notin A, Makes(t, A, R \cup {c.name})
  PROVE  Makes(<<c>> \o t, {c} \cup A, R)
<1> DEFINE w == <<c>> \o t
<1>1. Makes(<<c>>, {c}, R \cup {c.name})
  BY MakesOne DEF LinkCall
<1>2. Makes(w, {c} \cup A, R \cup {c.name})
  BY <1>1, MakesConcat
<1>3. w[1] = c /\ Len(w) \in Nat
  <2>1. <<c>> \in Seq({c} \cup A) /\ t \in Seq({c} \cup A) /\ Len(<<c>>) = 1 /\ <<c>>[1] = c
    BY DEF Makes, Lists
  <2>2. QED
    BY <2>1
<1> HIDE DEF w
<1>4. ASSUME NEW i \in 1 .. Len(w), LinkCall(w[i]), w[i].name = c.name
      PROVE  \E j \in 1 .. i - 1 : w[j].call = "Component" /\ w[j].name = w[i].name
  <2>1. i # 1
    BY <1>3, <1>4 DEF LinkCall
  <2>2. 1 \in 1 .. i - 1
    BY <1>3, <2>1
  <2>3. QED
    BY <1>3, <1>4, <2>2
<1>5. QED
  BY <1>2, <1>4 DEF Makes, Heralded, w

LEMMA MakesWhen ==
  ASSUME NEW cond \in BOOLEAN, NEW s, NEW A, NEW R, cond => Makes(s, A, R)
  PROVE  Makes(When(cond, s), IF cond THEN A ELSE {}, R)
  BY MakesNothing DEF When

\* The loops of the scripts, round by round.
\* f[i] is the first i sequences of ss, one after the other.
Cumulates(f, ss, n) == f[1] = ss[1] /\ \A i \in 1 .. n : i # 1 => f[i] = f[i - 1] \o ss[i]

LEMMA Flattened ==
  ASSUME NEW n \in Nat, n # 0, NEW S, NEW ss \in [1 .. n -> Seq(S)]
  PROVE  \E f : Cumulates(f, ss, n) /\ FlattenSeq(ss) = f[n]
<1> DEFINE g == [i \in 1 .. n |-> [s \in Seq(S) |-> s \o ss[i]]]
           flat(f) == [i \in 1 .. n |-> IF i = 1 THEN ss[i] ELSE f[i - 1] \o ss[i]]
<1>1. <<>> \in Seq(S) /\ g \in [1 .. n -> [Seq(S) -> Seq(S)]]
  OBVIOUS
<1>2. PICK h \in [0 .. n -> Seq(S)] : History(h, g, <<>>, n)
  <2> HIDE DEF g
  <2>1. QED
    BY <1>1, Iteration
<1>3. h[0] = <<>> /\ \A i \in 1 .. n : h[i] = g[i][h[i - 1]]
  BY <1>2 DEF History
<1>4. \A i \in 1 .. n : i - 1 \in 0 .. n /\ h[i - 1] \in Seq(S)
  OBVIOUS
<1>5. \A i \in 1 .. n : h[i] = h[i - 1] \o ss[i]
  BY <1>3, <1>4
<1>6. h[1] = ss[1]
  <2>1. 1 \in 1 .. n /\ 1 - 1 = 0 /\ ss[1] \in Seq(S)
    OBVIOUS
  <2>2. h[1] = <<>> \o ss[1]
    BY <1>3, <1>5, <2>1
  <2>3. QED
    BY <2>1, <2>2, ConcatEmptySeq
<1> DEFINE f0 == [i \in 1 .. n |-> h[i]]
           f  == CHOOSE x : x = flat(x)
<1> HIDE DEF g
<1>7. f0 = flat(f0)
  <2>1. ASSUME NEW i \in 1 .. n PROVE h[i] = IF i = 1 THEN ss[i] ELSE f0[i - 1] \o ss[i]
    <3>1. i # 1 => i - 1 \in 1 .. n
      OBVIOUS
    <3>2. QED
      BY <1>5, <1>6, <3>1
  <2>2. QED
    BY <2>1
<1>8. f = flat(f)
  <2> HIDE DEF f0, flat
  <2>1. QED
    BY <1>7
<1>9. FlattenSeq(ss) = f[n]
  <2>1. Len(ss) = n
    OBVIOUS
  <2>2. QED
    BY <2>1 DEF FlattenSeq
<1> HIDE DEF f
<1>10. \A i \in 1 .. n : f[i] = IF i = 1 THEN ss[i] ELSE f[i - 1] \o ss[i]
  BY <1>8
<1>11. 1 \in 1 .. n
  OBVIOUS
<1>12. f[1] = ss[1] /\ \A i \in 1 .. n : i # 1 => f[i] = f[i - 1] \o ss[i]
  <2> HIDE DEF flat, f0
  <2>1. QED
    BY <1>10, <1>11
<1>13. QED
  BY <1>9, <1>12 DEF Cumulates

LEMMA MakesAll ==
  ASSUME NEW n \in Nat, NEW S, NEW ss \in [1 .. n -> Seq(S)], NEW A, NEW R,
         \A i \in 1 .. n : Makes(ss[i], A[i], R),
         \A i, j \in 1 .. n : i # j => A[i] \cap A[j] = {},
         NEW B, \A i \in 1 .. n : A[i] \subseteq B, \A c \in B : \E i \in 1 .. n : c \in A[i]
  PROVE  Makes(FlattenSeq(ss), B, R)
<1>1. CASE n = 0
  <2>1. ss = <<>> /\ Len(ss) = 0
    BY <1>1
  <2>2. FlattenSeq(ss) = <<>>
    BY <2>1 DEF FlattenSeq
  <2>3. B = {}
    BY <1>1
  <2>4. Makes(<<>>, {}, R)
    BY MakesNothing
  <2>5. QED
    BY <2>2, <2>3, <2>4
<1>2. CASE n # 0
  <2>1. PICK f : Cumulates(f, ss, n) /\ FlattenSeq(ss) = f[n]
    BY <1>2, Flattened, Zenon
  <2>2. FlattenSeq(ss) = f[n] /\ f[1] = ss[1] /\ \A i \in 1 .. n : i # 1 => f[i] = f[i - 1] \o ss[i]
    BY <2>1 DEF Cumulates
  <2> DEFINE before(i) == UNION {A[j] : j \in 1 .. i}
             T == {i \in Nat : i + 1 <= n => Makes(f[i + 1], before(i + 1), R)}
  <2>3. 0 \in T
    <3>1. 1 \in 1 .. n /\ before(1) = A[1]
      BY <1>2
    <3> HIDE DEF before
    <3>2. Makes(f[1], before(1), R)
      BY <2>2, <3>1
    <3>3. QED
      BY <3>2
  <2>4. ASSUME NEW i \in Nat, i \in T PROVE i + 1 \in T
    <3> SUFFICES ASSUME i + 1 + 1 <= n PROVE Makes(f[i + 1 + 1], before(i + 1 + 1), R)
      OBVIOUS
    <3> DEFINE k == i + 1 + 1
    <3>1. k \in 1 .. n /\ k # 1 /\ k - 1 = i + 1 /\ i + 1 <= n
      OBVIOUS
    <3>2. Makes(f[i + 1], before(i + 1), R)
      BY <2>4, <3>1
    <3>3. before(k) = before(i + 1) \cup A[k]
      <4>1. 1 .. k = (1 .. i + 1) \cup {k}
        OBVIOUS
      <4>2. QED
        BY <4>1
    <3>4. before(i + 1) \cap A[k] = {}
      <4>1. \A j \in 1 .. i + 1 : j \in 1 .. n /\ j # k
        BY <3>1
      <4>2. QED
        BY <3>1, <4>1
    <3> HIDE DEF before, k
    <3>5. f[k] = f[i + 1] \o ss[k] /\ Makes(ss[k], A[k], R)
      BY <2>2, <3>1
    <3>6. Makes(f[i + 1] \o ss[k], before(i + 1) \cup A[k], R)
      BY <3>2, <3>4, <3>5, MakesConcat
    <3>7. QED
      BY <3>3, <3>5, <3>6 DEF k
  <2>5. n - 1 \in T
    <3>1. n - 1 \in Nat
      BY <1>2
    <3> HIDE DEF T
    <3>2. QED
      BY <2>3, <2>4, <3>1, SetInduction
  <2>6. n - 1 + 1 = n /\ before(n) = B
    OBVIOUS
  <2> HIDE DEF before
  <2>7. Makes(f[n], before(n), R)
    <3>1. PICK k : k = n - 1
      OBVIOUS
    <3>2. k + 1 = n /\ k + 1 <= n
      BY <3>1
    <3>3. k \in T
      BY <2>5, <3>1
    <3>4. Makes(f[k + 1], before(k + 1), R)
      BY <3>2, <3>3
    <3>5. QED
      BY <3>2, <3>4
  <2>8. QED
    BY <2>2, <2>6, <2>7
<1>3. QED
  BY <1>1, <1>2

-----------------------------------------------------------------------------
(* What sst has made of the calls executed so far.                         *)

Made      == {Calls[i] : i \in 1 .. pc}
LinksMade == {c \in Made : LinkCall(c)}

\* A script of these calls only; the others join two components by one call.
Simple(T) == \A c \in T : c.call = "Component" \/ LinkCall(c)

Drawable(s) == \E T : Makes(s, T, {}) /\ Simple(T)

\* The ends that link call c may give a link.
Ends(c) ==
  IF c.call = "addLink" THEN {<<c.name, c.port>>}
  ELSE {<<c.name, <<c.portName, n>>>> : n \in Nat}

AnyEnd == UNION {Ends(c) : c \in {Calls[i] : i \in 1 .. Len(Calls)}}

\* The components are those declared, with the parameters they were declared with.
Declared ==
  /\ \A c \in Made : c.call = "Component" => c.name \in Components
  /\ \A n \in Components : \E c \in Made :
       c.call = "Component" /\ c.name = n /\ c.params = net.params[n]

\* maker tells which call made an end: every link call made one, of its link, at its
\* component; those that take the next port took different ones.
Joined(maker) ==
  /\ maker \in [LinkEnds -> LinksMade]
  /\ \A x, y \in LinkEnds : maker[x] = maker[y] => x = y
  /\ \A c \in LinksMade : \E x \in LinkEnds : maker[x] = c
  /\ \A x \in LinkEnds : x[1] = maker[x].link /\ EndAt(x) \in Ends(maker[x])
  /\ \A x \in LinkEnds : maker[x].call = "addNextLink" =>
       /\ EndAt(x)[2][2] < getNextTopoPort(net, maker[x].name)
       /\ \A y \in LinkEnds \ {x} :
            maker[y].call = "addNextLink" /\ maker[y].name = maker[x].name
              => EndAt(x)[2][2] # EndAt(y)[2][2]

Drawn ==
  /\ pc \in 0 .. Len(Calls)
  /\ net = [params |-> net.params, links |-> net.links, rtr_port_nums |-> net.rtr_port_nums]
  /\ \A l \in Links : net.links[l] \in Seq(AnyEnd) /\ net.links[l] # <<>>
  /\ \A n : getNextTopoPort(net, n) \in Nat
  /\ Declared
  /\ \E maker : Joined(maker)

DrawnInv == Drawable(Calls) => Drawn

LEMMA CallsMade ==
  ASSUME NEW T, Makes(Calls, T, {}), pc \in 0 .. Len(Calls)
  PROVE  /\ Len(Calls) \in Nat
         /\ \A i \in 1 .. Len(Calls) : Calls[i] \in T
         /\ \A c \in T : \E i \in 1 .. Len(Calls) : Calls[i] = c
         /\ \A i, j \in 1 .. Len(Calls) : Calls[i] = Calls[j] => i = j
         /\ Made \subseteq T
         /\ Done => Made = T
<1> DEFINE s == Calls
<1>1. /\ s \in Seq(T)
      /\ \A c \in T : \E i \in 1 .. Len(s) : s[i] = c
      /\ \A i, j \in 1 .. Len(s) : s[i] = s[j] => i = j
  BY DEF Makes, Lists
<1>2. Len(s) \in Nat /\ \A i \in 1 .. Len(s) : s[i] \in T
  BY <1>1, LenProperties, ElementOfSeq
<1>3. Made = {s[i] : i \in 1 .. pc}
  BY DEF Made
<1>4. Done => pc = Len(s)
  BY DEF Done
<1>5. pc \in Nat /\ pc <= Len(s)
  BY <1>2
<1> HIDE DEF s
<1>6. Made \subseteq T
  BY <1>2, <1>3, <1>5
<1>7. Done => Made = T
  BY <1>1, <1>2, <1>3, <1>4, <1>5
<1>8. QED
  BY <1>1, <1>2, <1>6, <1>7 DEF s

LEMMA DrawnInit == Init => DrawnInv
<1> SUFFICES ASSUME Init, Drawable(Calls) PROVE Drawn
  BY DEF DrawnInv
<1>1. PICK T : Makes(Calls, T, {})
  BY DEF Drawable
<1>2. Len(Calls) \in Nat
  BY <1>1, LenProperties DEF Makes, Lists
<1>3. /\ pc = 0 /\ net = [params |-> << >>, links |-> << >>, rtr_port_nums |-> << >>]
      /\ DOMAIN << >> = {}
  BY DEF Init, Empty
<1>4. /\ net.params = << >> /\ net.links = << >> /\ net.rtr_port_nums = << >>
      /\ Components = {} /\ Links = {} /\ Made = {} /\ LinksMade = {}
  BY <1>3 DEF Components, Links, Made, LinksMade
<1>5. LinkEnds = {}
  BY <1>4 DEF LinkEnds
<1>6. Joined(<<>>)
  BY <1>3, <1>4, <1>5 DEF Joined
<1>7. \A n : getNextTopoPort(net, n) \in Nat
  BY <1>3, <1>4 DEF getNextTopoPort, Find
<1>8. Declared
  BY <1>4 DEF Declared
<1>9. QED
  BY <1>2, <1>3, <1>4, <1>6, <1>7, <1>8 DEF Drawn

\* One more end, made by the next call.
LEMMA OneMoreEnd ==
  ASSUME Drawn, NEW T, Makes(Calls, T, {}), pc < Len(Calls),
         NEW c, c = Calls[pc + 1], LinkCall(c), NEW e \in Ends(c),
         script' = script, pc' = pc + 1,
         net'.links = Put(net.links, c.link, getLink(net, c.link) \o <<e>>)
  PROVE  /\ \A l \in Links' : net'.links[l] \in Seq(AnyEnd') /\ net'.links[l] # <<>>
         /\ \E x : /\ x \notin LinkEnds /\ LinkEnds' = LinkEnds \cup {x}
                   /\ x[1] = c.link /\ EndAt(x)' = e
                   /\ \A y \in LinkEnds : EndAt(y)' = EndAt(y)
<1> DEFINE q == getLink(net, c.link)
           n == Len(q)
           x == <<c.link, n + 1>>
<1>1. Calls' = Calls /\ AnyEnd' = AnyEnd
  BY DEF Calls, AnyEnd
<1>2. pc + 1 \in 1 .. Len(Calls) /\ e \in AnyEnd
  <2>1. Len(Calls) \in Nat /\ pc \in Nat
    BY CallsMade DEF Drawn
  <2>2. QED
    BY <2>1 DEF AnyEnd
<1>3. q \in Seq(AnyEnd)
  <2>1. <<>> \in Seq(AnyEnd)
    OBVIOUS
  <2>2. QED
    BY <2>1 DEF Drawn, getLink, Find, Links
<1>4. n \in Nat /\ q \o <<e>> \in Seq(AnyEnd) /\ Len(q \o <<e>>) = n + 1
      /\ (q \o <<e>>)[n + 1] = e /\ \A i \in 1 .. n : (q \o <<e>>)[i] = q[i]
  BY <1>2, <1>3
<1> DEFINE w == q \o <<e>>
<1>5. /\ Links' = Links \cup {c.link}
      /\ net'.links[c.link] = w
      /\ \A l \in Links : l # c.link => net'.links[l] = net.links[l]
  BY DEF Put, Links
<1>6. c.link \in Links => q = net.links[c.link]
  BY DEF getLink, Find, Links
<1>7. c.link \notin Links => q = <<>> /\ n = 0
  BY DEF getLink, Find, Links
<1> HIDE DEF w, n, q
<1>8. \A l \in Links' : net'.links[l] \in Seq(AnyEnd') /\ net'.links[l] # <<>>
  <2>1. w # <<>>
    BY <1>4 DEF w
  <2>2. w \in Seq(AnyEnd)
    BY <1>4 DEF w
  <2>3. QED
    BY <1>1, <1>5, <2>1, <2>2 DEF Drawn
<1>9. \A y : y \in LinkEnds <=> \E l \in Links : \E i \in 1 .. Len(net.links[l]) : y = <<l, i>>
  BY DEF LinkEnds
<1>10. \A y : y \in LinkEnds' <=> \E l \in Links' : \E i \in 1 .. Len(net'.links[l]) : y = <<l, i>>
  BY DEF LinkEnds
<1>11. x \notin LinkEnds
  <2> SUFFICES ASSUME x \in LinkEnds PROVE FALSE
    OBVIOUS
  <2>1. PICK l \in Links : \E i \in 1 .. Len(net.links[l]) : x = <<l, i>>
    BY <1>9
  <2>2. c.link \in Links /\ n + 1 \in 1 .. Len(net.links[c.link])
    BY <2>1
  <2>3. n + 1 \in 1 .. n
    BY <1>6, <2>2 DEF n
  <2>4. QED
    BY <1>4, <2>3
<1>12. LinkEnds' = LinkEnds \cup {x}
  <2>1. ASSUME NEW y \in LinkEnds PROVE y \in LinkEnds'
    <3>1. PICK l \in Links : \E i \in 1 .. Len(net.links[l]) : y = <<l, i>>
      BY <1>9
    <3>2. PICK i \in 1 .. Len(net.links[l]) : y = <<l, i>>
      BY <3>1
    <3>3. l \in Links'
      BY <1>5
    <3>4. i \in 1 .. Len(net'.links[l])
      <4>1. CASE l = c.link
        <5>1. i \in 1 .. n /\ Len(net'.links[l]) = n + 1
          BY <1>4, <1>5, <1>6, <4>1 DEF n, w
        <5>2. QED
          BY <1>4, <5>1
      <4>2. CASE l # c.link
        BY <1>5, <4>2
      <4>3. QED
        BY <4>1, <4>2
    <3>5. QED
      BY <1>10, <3>2, <3>3, <3>4
  <2>2. x \in LinkEnds'
    <3>1. c.link \in Links' /\ Len(net'.links[c.link]) = n + 1
      BY <1>4, <1>5 DEF w
    <3>2. n + 1 \in 1 .. n + 1
      BY <1>4
    <3>3. QED
      BY <1>10, <3>1, <3>2
  <2>3. ASSUME NEW y \in LinkEnds', y # x PROVE y \in LinkEnds
    <3>1. PICK l \in Links' : \E i \in 1 .. Len(net'.links[l]) : y = <<l, i>>
      BY <1>10
    <3>2. PICK i \in 1 .. Len(net'.links[l]) : y = <<l, i>>
      BY <3>1
    <3>3. CASE l = c.link
      <4>1. i \in 1 .. n + 1 /\ i # n + 1
        BY <1>4, <1>5, <2>3, <3>2, <3>3 DEF w
      <4>2. i \in 1 .. n
        BY <1>4, <4>1
      <4>3. n # 0
        BY <4>2
      <4>4. l \in Links /\ i \in 1 .. Len(net.links[l])
        BY <1>6, <1>7, <3>3, <4>2, <4>3 DEF n
      <4>5. QED
        BY <1>9, <3>2, <4>4
    <3>4. CASE l # c.link
      <4>1. l \in Links /\ i \in 1 .. Len(net.links[l])
        BY <1>5, <3>2, <3>4
      <4>2. QED
        BY <1>9, <3>2, <4>1
    <3>5. QED
      BY <3>3, <3>4
  <2>4. QED
    BY <2>1, <2>2, <2>3
<1> PICK z : z = x
  OBVIOUS
<1>13. z[1] = c.link /\ EndAt(z)' = e
  <2>1. z[1] = c.link /\ z[2] = n + 1
    OBVIOUS
  <2>2. EndAt(z)' = net'.links[c.link][n + 1]
    BY <2>1 DEF EndAt
  <2>3. w[n + 1] = e
    BY <1>4 DEF w
  <2>4. QED
    BY <1>5, <2>1, <2>2, <2>3
<1>14. ASSUME NEW y \in LinkEnds PROVE EndAt(y)' = EndAt(y)
  <2>1. PICK l \in Links : \E i \in 1 .. Len(net.links[l]) : y = <<l, i>>
    BY <1>9
  <2>2. PICK i \in 1 .. Len(net.links[l]) : y = <<l, i>>
    BY <2>1
  <2>3. EndAt(y) = net.links[l][i] /\ EndAt(y)' = net'.links[l][i]
    BY <2>2 DEF EndAt
  <2>4. CASE l = c.link
    <3>1. i \in 1 .. n /\ net.links[l] = q
      BY <1>6, <2>4 DEF n
    <3>2. w[i] = q[i]
      BY <1>4, <3>1 DEF w
    <3>3. QED
      BY <1>5, <2>3, <2>4, <3>1, <3>2
  <2>5. CASE l # c.link
    BY <1>5, <2>3, <2>5
  <2>6. QED
    BY <2>4, <2>5
<1>15. z \notin LinkEnds /\ LinkEnds' = LinkEnds \cup {z}
  BY <1>11, <1>12
<1>16. QED
  BY <1>8, <1>13, <1>14, <1>15

LEMMA OneMoreCall ==
  ASSUME NEW T, Makes(Calls, T, {}), pc \in 0 .. Len(Calls), ~Done,
         script' = script, pc' = pc + 1, NEW c, c = Calls[pc + 1]
  PROVE  /\ pc < Len(Calls) /\ Calls' = Calls /\ pc' \in 0 .. Len(Calls')
         /\ c \in T /\ c \notin Made /\ Made' = Made \cup {c}
<1>1. /\ Len(Calls) \in Nat
      /\ \A i \in 1 .. Len(Calls) : Calls[i] \in T
      /\ \A i, j \in 1 .. Len(Calls) : Calls[i] = Calls[j] => i = j
  BY CallsMade
<1>2. Calls' = Calls
  BY DEF Calls
<1>3. pc \in Nat /\ pc < Len(Calls)
  BY <1>1 DEF Done
<1>4. pc + 1 \in 1 .. Len(Calls) /\ \A i \in 1 .. pc : i \in 1 .. Len(Calls) /\ i # pc + 1
  BY <1>1, <1>3
<1>5. c \in T /\ c \notin Made
  BY <1>1, <1>4 DEF Made
<1>6. 1 .. pc + 1 = (1 .. pc) \cup {pc + 1}
  BY <1>3
<1>7. Made' = {Calls[i] : i \in 1 .. pc + 1}
  BY <1>2 DEF Made
<1>8. Made' = Made \cup {c}
  BY <1>6, <1>7 DEF Made
<1>9. pc' \in 0 .. Len(Calls')
  BY <1>1, <1>2, <1>3
<1>10. QED
  BY <1>2, <1>3, <1>5, <1>8, <1>9

LEMMA DrawnComponent ==
  ASSUME Drawn, NEW T, Makes(Calls, T, {}), NewComponent
  PROVE  Drawn'
<1> DEFINE c == Calls[pc + 1]
<1>1. /\ ~Done /\ c.call = "Component" /\ script' = script /\ pc' = pc + 1
      /\ net' = [net EXCEPT !.params = Put(@, c.name, c.params)]
  BY DEF NewComponent, Call, Execute, Executed
<1>2. PICK d : d = c
  OBVIOUS
<1>3. /\ Calls' = Calls /\ pc' \in 0 .. Len(Calls') /\ Made' = Made \cup {d}
  BY <1>1, <1>2, OneMoreCall DEF Drawn
<1>4. net = [params |-> net.params, links |-> net.links, rtr_port_nums |-> net.rtr_port_nums]
  BY DEF Drawn
<1>5. net' = [params |-> Put(net.params, d.name, d.params), links |-> net.links,
              rtr_port_nums |-> net.rtr_port_nums]
  BY <1>1, <1>2, <1>4
<1> HIDE DEF c
<1>6. /\ net'.params = Put(net.params, d.name, d.params)
      /\ net'.links = net.links /\ net'.rtr_port_nums = net.rtr_port_nums
      /\ net' = [params |-> net'.params, links |-> net'.links, rtr_port_nums |-> net'.rtr_port_nums]
  BY <1>5
<1>7. /\ Links' = Links /\ LinkEnds' = LinkEnds /\ AnyEnd' = AnyEnd
      /\ (\A x : EndAt(x)' = EndAt(x))
      /\ \A n : getNextTopoPort(net, n)' = getNextTopoPort(net, n)
  BY <1>3, <1>6 DEF Links, LinkEnds, AnyEnd, EndAt, getNextTopoPort
<1>8. LinksMade' = LinksMade
  <2>1. ~LinkCall(d)
    BY <1>1, <1>2 DEF LinkCall
  <2>2. QED
    BY <1>3, <2>1 DEF LinksMade
<1>9. Declared'
  <2>1. /\ Components' = Components \cup {d.name}
        /\ net'.params[d.name] = d.params
        /\ \A n \in Components : n # d.name => net'.params[n] = net.params[n]
    BY <1>6 DEF Components, Put
  <2>2. d.call = "Component"
    BY <1>1, <1>2
  <2>3. ASSUME NEW e \in Made', e.call = "Component" PROVE e.name \in Components'
    BY <1>3, <2>1, <2>3 DEF Drawn, Declared
  <2>4. ASSUME NEW n \in Components'
        PROVE  \E e \in Made' : e.call = "Component" /\ e.name = n /\ e.params = net'.params[n]
    <3>1. CASE n = d.name
      BY <1>3, <2>1, <2>2, <3>1
    <3>2. CASE n # d.name
      <4>1. n \in Components /\ net'.params[n] = net.params[n]
        BY <2>1, <3>2
      <4>2. PICK e \in Made : e.call = "Component" /\ e.name = n /\ e.params = net.params[n]
        BY <4>1 DEF Drawn, Declared
      <4>3. QED
        BY <1>3, <4>1, <4>2
    <3>3. QED
      BY <3>1, <3>2
  <2>5. QED
    BY <2>3, <2>4 DEF Declared
<1>10. \E maker : Joined(maker)'
  <2>1. PICK maker : Joined(maker)
    BY DEF Drawn
  <2>2. Joined(maker)'
    BY <2>1, <1>7, <1>8 DEF Joined
  <2>3. QED
    BY <2>2
<1>11. QED
  BY <1>3, <1>6, <1>7, <1>9, <1>10 DEF Drawn

\* What both ways of adding an end to a link have in common.
LEMMA DrawnEnd ==
  ASSUME Drawn, NEW T, Makes(Calls, T, {}), ~Done, script' = script, pc' = pc + 1,
         NEW c, c = Calls[pc + 1], LinkCall(c), NEW e \in Ends(c),
         NEW nums,
         net' = [params |-> net.params, rtr_port_nums |-> nums,
                 links |-> Put(net.links, c.link, getLink(net, c.link) \o <<e>>)],
         \A n : getNextTopoPort(net', n) \in Nat /\ getNextTopoPort(net, n) <= getNextTopoPort(net', n),
         c.call = "addNextLink" =>
           e[2][2] = getNextTopoPort(net, c.name) /\ e[2][2] < getNextTopoPort(net', c.name)
  PROVE  Drawn'
<1>1. /\ pc < Len(Calls) /\ Calls' = Calls /\ pc' \in 0 .. Len(Calls')
      /\ c \notin Made /\ Made' = Made \cup {c}
  BY OneMoreCall DEF Drawn
<1>2. /\ net'.params = net.params
      /\ net'.links = Put(net.links, c.link, getLink(net, c.link) \o <<e>>)
      /\ net' = [params |-> net'.params, links |-> net'.links, rtr_port_nums |-> net'.rtr_port_nums]
  OBVIOUS
<1>3. /\ \A l \in Links' : net'.links[l] \in Seq(AnyEnd') /\ net'.links[l] # <<>>
      /\ \E x : /\ x \notin LinkEnds /\ LinkEnds' = LinkEnds \cup {x}
                /\ x[1] = c.link /\ EndAt(x)' = e
                /\ \A y \in LinkEnds : EndAt(y)' = EndAt(y)
  BY <1>1, <1>2, OneMoreEnd
<1>4. PICK x : /\ x \notin LinkEnds /\ LinkEnds' = LinkEnds \cup {x}
               /\ x[1] = c.link /\ EndAt(x)' = e
               /\ \A y \in LinkEnds : EndAt(y)' = EndAt(y)
  BY <1>3
<1>5. LinksMade' = LinksMade \cup {c} /\ c \notin LinksMade
  BY <1>1 DEF LinksMade
<1>6. Declared'
  <2>1. c.call # "Component" /\ Components' = Components
    BY <1>2 DEF LinkCall, Components
  <2>2. QED
    BY <1>1, <1>2, <2>1 DEF Declared, Drawn
<1>7. PICK maker : Joined(maker)
  BY DEF Drawn
<1> DEFINE made == [y \in LinkEnds \cup {x} |-> IF y = x THEN c ELSE maker[y]]
<1>8. PICK m : m = made
  OBVIOUS
<1>9. /\ m[x] = c /\ (\A y \in LinkEnds : m[y] = maker[y] /\ maker[y] \in LinksMade /\ y # x)
      /\ m \in [LinkEnds' -> LinksMade']
  BY <1>4, <1>5, <1>7, <1>8 DEF Joined
<1> HIDE DEF made
<1>10. Joined(m)'
  <2>1. \A y, z \in LinkEnds' : m[y] = m[z] => y = z
    BY <1>4, <1>5, <1>7, <1>9 DEF Joined
  <2>2. ASSUME NEW d \in LinksMade' PROVE \E y \in LinkEnds' : m[y] = d
    BY <1>4, <1>5, <1>7, <1>9 DEF Joined
  <2>3. ASSUME NEW y \in LinkEnds' PROVE y[1] = m[y].link /\ EndAt(y)' \in Ends(m[y])
    BY <1>4, <1>7, <1>9 DEF Joined
  <2>4. ASSUME NEW y \in LinkEnds', m[y].call = "addNextLink"
        PROVE  EndAt(y)'[2][2] < getNextTopoPort(net', m[y].name)
    <3>1. CASE y = x
      BY <1>4, <1>9, <2>4, <3>1
    <3>2. CASE y # x
      <4>1. y \in LinkEnds /\ m[y] = maker[y] /\ EndAt(y)' = EndAt(y)
        BY <1>4, <1>9, <3>2
      <4>2. EndAt(y)[2][2] < getNextTopoPort(net, m[y].name)
        BY <1>7, <2>4, <4>1 DEF Joined
      <4>3. EndAt(y)[2][2] \in Nat
        <5>1. EndAt(y) \in Ends(m[y])
          BY <1>7, <4>1 DEF Joined
        <5>2. QED
          BY <2>4, <5>1 DEF Ends
      <4>4. getNextTopoPort(net, m[y].name) \in Nat
        BY DEF Drawn
      <4>5. QED
        BY <4>1, <4>2, <4>3, <4>4
    <3>3. QED
      BY <3>1, <3>2
  <2>5. ASSUME NEW y \in LinkEnds', NEW z \in LinkEnds' \ {y}, m[y].call = "addNextLink",
               m[z].call = "addNextLink", m[z].name = m[y].name
        PROVE  EndAt(y)'[2][2] # EndAt(z)'[2][2]
    <3>1. ASSUME NEW u \in LinkEnds, maker[u].call = "addNextLink", c.call = "addNextLink",
                 maker[u].name = c.name
          PROVE  EndAt(u)'[2][2] # e[2][2]
      <4>1. EndAt(u)' = EndAt(u) /\ EndAt(u)[2][2] < getNextTopoPort(net, c.name)
        BY <1>4, <1>7, <3>1 DEF Joined
      <4>2. e[2][2] = getNextTopoPort(net, c.name) /\ getNextTopoPort(net, c.name) \in Nat
        BY <3>1 DEF Drawn
      <4>3. QED
        BY <4>1, <4>2
    <3>2. CASE y = x
      <4>1. z \in LinkEnds /\ m[z] = maker[z] /\ m[y] = c /\ EndAt(y)' = e
        BY <1>4, <1>9, <3>2
      <4>2. QED
        BY <2>5, <3>1, <4>1
    <3>3. CASE z = x
      <4>1. y \in LinkEnds /\ m[y] = maker[y] /\ m[z] = c /\ EndAt(z)' = e
        BY <1>4, <1>9, <3>3
      <4>2. QED
        BY <2>5, <3>1, <4>1
    <3>4. CASE y # x /\ z # x
      <4>1. /\ y \in LinkEnds /\ m[y] = maker[y] /\ EndAt(y)' = EndAt(y)
            /\ z \in LinkEnds \ {y} /\ m[z] = maker[z] /\ EndAt(z)' = EndAt(z)
        BY <1>4, <1>9, <3>4
      <4>2. QED
        BY <1>7, <2>5, <4>1 DEF Joined
    <3>5. QED
      BY <3>2, <3>3, <3>4
  <2>6. QED
    BY <1>9, <2>1, <2>2, <2>3, <2>4, <2>5 DEF Joined
<1>11. \A n : getNextTopoPort(net, n)' \in Nat
  BY DEF getNextTopoPort
<1>12. QED
  BY <1>1, <1>2, <1>3, <1>6, <1>10, <1>11 DEF Drawn

LEMMA DrawnAddLink ==
  ASSUME Drawn, NEW T, Makes(Calls, T, {}), AddLink
  PROVE  Drawn'
<1> DEFINE c == Calls[pc + 1]
           e == <<c.name, c.port>>
<1>1. /\ ~Done /\ c.call = "addLink" /\ script' = script /\ pc' = pc + 1
      /\ net' = [net EXCEPT !.links = Put(@, c.link, getLink(net, c.link) \o <<e>>)]
  BY DEF AddLink, Call, Execute, Executed, Attach
<1>2. PICK d : d = c
  OBVIOUS
<1>3. LinkCall(d) /\ <<d.name, d.port>> \in Ends(d)
  BY <1>1, <1>2 DEF LinkCall, Ends
<1>4. net = [params |-> net.params, links |-> net.links, rtr_port_nums |-> net.rtr_port_nums]
  BY DEF Drawn
<1>5. net' = [params |-> net.params, rtr_port_nums |-> net.rtr_port_nums,
              links |-> Put(net.links, d.link, getLink(net, d.link) \o << <<d.name, d.port>> >>)]
  BY <1>1, <1>2, <1>4
<1>6. \A n : getNextTopoPort(net', n) = getNextTopoPort(net, n)
  BY <1>5 DEF getNextTopoPort
<1>7. \A n : /\ getNextTopoPort(net', n) \in Nat
             /\ getNextTopoPort(net, n) <= getNextTopoPort(net', n)
  BY <1>6 DEF Drawn
<1>8. d.call # "addNextLink"
  BY <1>1, <1>2
<1>9. d = Calls[pc + 1]
  BY <1>2
<1> HIDE DEF c, e
<1>10. QED
  BY <1>1, <1>3, <1>5, <1>7, <1>8, <1>9, DrawnEnd

LEMMA DrawnAddNextLink ==
  ASSUME Drawn, NEW T, Makes(Calls, T, {}), AddNextLink
  PROVE  Drawn'
<1> DEFINE c == Calls[pc + 1]
<1>1. /\ ~Done /\ c.call = "addNextLink" /\ script' = script /\ pc' = pc + 1
      /\ net' = TakePorts(Attach(net, c.link, <<NextEnd(net, c.name, c.portName)>>), {c.name})
  BY DEF AddNextLink, Call, Execute, Executed
<1>2. PICK d : d = c
  OBVIOUS
<1> DEFINE old == net.rtr_port_nums
           n0  == getNextTopoPort(net, d.name)
<1>3. PICK e : e = <<d.name, <<d.portName, n0>>>>
  OBVIOUS
<1>4. n0 \in Nat
  BY DEF Drawn
<1>5. LinkCall(d) /\ e \in Ends(d) /\ e[2][2] = n0
  BY <1>1, <1>2, <1>3, <1>4 DEF LinkCall, Ends
<1>6. net = [params |-> net.params, links |-> net.links, rtr_port_nums |-> net.rtr_port_nums]
  BY DEF Drawn
<1> DEFINE mid == Attach(net, d.link, <<e>>)
<1>7. mid = [params |-> net.params, rtr_port_nums |-> net.rtr_port_nums,
             links |-> Put(net.links, d.link, getLink(net, d.link) \o <<e>>)]
  BY <1>6 DEF Attach
<1>8. net' = TakePorts(mid, {d.name})
  BY <1>1, <1>2, <1>3 DEF NextEnd
<1>9. \A n : getNextTopoPort(mid, n) = getNextTopoPort(net, n)
  BY <1>7 DEF getNextTopoPort
<1> DEFINE nums == [x \in {d.name} \cup DOMAIN old |->
                      getNextTopoPort(net, x) + (IF x \in {d.name} THEN 1 ELSE 0)]
<1>10. net' = [mid EXCEPT !.rtr_port_nums = nums]
  <2>1. mid.rtr_port_nums = old
    BY <1>7
  <2>2. net' = [mid EXCEPT !.rtr_port_nums =
                  [x \in {d.name} \cup DOMAIN @ |->
                     getNextTopoPort(mid, x) + (IF x \in {d.name} THEN 1 ELSE 0)]]
    BY <1>8 DEF TakePorts
  <2> HIDE DEF mid
  <2>3. QED
    BY <1>9, <2>1, <2>2
<1>11. net' = [params |-> net.params, rtr_port_nums |-> nums,
               links |-> Put(net.links, d.link, getLink(net, d.link) \o <<e>>)]
  <2> HIDE DEF mid, nums
  <2>1. QED
    BY <1>7, <1>10
<1>12. PICK m : m = nums
  OBVIOUS
<1>13. net' = [params |-> net.params, rtr_port_nums |-> m,
               links |-> Put(net.links, d.link, getLink(net, d.link) \o <<e>>)]
  BY <1>11, <1>12
<1>14. \A n : getNextTopoPort(net', n) = IF n \in {d.name} \cup DOMAIN old THEN m[n] ELSE 0
  <2>1. net'.rtr_port_nums = m /\ DOMAIN m = {d.name} \cup DOMAIN old
    BY <1>12, <1>13
  <2>2. QED
    BY <2>1 DEF getNextTopoPort, Find
<1>15. \A n : getNextTopoPort(net', n) = getNextTopoPort(net, n) + IF n = d.name THEN 1 ELSE 0
  <2> TAKE n
  <2>1. CASE n \in {d.name} \cup DOMAIN old
    BY <1>12, <1>14, <2>1
  <2>2. CASE n \notin {d.name} \cup DOMAIN old
    BY <1>14, <2>2 DEF getNextTopoPort, Find
  <2>3. QED
    BY <2>1, <2>2
<1>16. \A n : /\ getNextTopoPort(net', n) \in Nat
              /\ getNextTopoPort(net, n) <= getNextTopoPort(net', n)
  BY <1>15 DEF Drawn
<1>17. e[2][2] = getNextTopoPort(net, d.name) /\ e[2][2] < getNextTopoPort(net', d.name)
  BY <1>4, <1>5, <1>15
<1>18. d = Calls[pc + 1]
  BY <1>2
<1> HIDE DEF c, old, n0, mid, nums
<1>19. QED
  BY <1>1, <1>5, <1>13, <1>16, <1>17, <1>18, DrawnEnd

LEMMA DrawnStep == DrawnInv /\ [Next]_vars => DrawnInv'
<1> SUFFICES ASSUME DrawnInv, [Next]_vars, Drawable(Calls)' PROVE Drawn'
  BY DEF DrawnInv
<1>1. script' = script
  BY DEF Next, NewComponent, AddLink, AddNextLink, CreateLink, Connect, ConnectNext, Execute, vars
<1>2. Calls' = Calls /\ Drawable(Calls)
  BY <1>1 DEF Calls, Drawable, Makes, Lists, Heralded, Simple
<1>3. Drawn
  BY <1>2 DEF DrawnInv
<1>4. PICK T : Makes(Calls, T, {}) /\ Simple(T)
  BY <1>2 DEF Drawable
<1>5. CASE NewComponent
  BY <1>3, <1>4, <1>5, DrawnComponent
<1>6. CASE AddLink
  BY <1>3, <1>4, <1>6, DrawnAddLink
<1>7. CASE AddNextLink
  BY <1>3, <1>4, <1>7, DrawnAddNextLink
<1>8. ~(CreateLink \/ Connect \/ ConnectNext)
  <2> SUFFICES ASSUME CreateLink \/ Connect \/ ConnectNext PROVE FALSE
    OBVIOUS
  <2>1. ~Done /\ Calls[pc + 1].call \in {"create_link", "connect", "connectNext"}
    BY DEF CreateLink, Connect, ConnectNext, Call
  <2>2. PICK c : c = Calls[pc + 1]
    OBVIOUS
  <2>3. c \in T
    <3>1. Len(Calls) \in Nat /\ \A i \in 1 .. Len(Calls) : Calls[i] \in T
      BY <1>3, <1>4, CallsMade DEF Drawn
    <3>2. pc + 1 \in 1 .. Len(Calls)
      BY <1>3, <2>1, <3>1 DEF Drawn, Done
    <3>3. QED
      BY <2>2, <3>1, <3>2
  <2>4. QED
    BY <1>4, <2>1, <2>2, <2>3 DEF Simple, LinkCall
<1>9. CASE UNCHANGED vars
  <2>1. script' = script /\ pc' = pc /\ net' = net
    BY <1>9 DEF vars
  <2>2. /\ Links' = Links /\ LinkEnds' = LinkEnds /\ AnyEnd' = AnyEnd /\ Components' = Components
        /\ (\A x : EndAt(x)' = EndAt(x))
        /\ (\A n : getNextTopoPort(net, n)' = getNextTopoPort(net, n))
        /\ Made' = Made /\ LinksMade' = LinksMade
    BY <1>2, <2>1 DEF Links, LinkEnds, AnyEnd, Components, EndAt, getNextTopoPort, Made, LinksMade
  <2>3. Declared'
    BY <1>3, <2>1, <2>2 DEF Drawn, Declared
  <2>4. \E maker : Joined(maker)'
    <3>1. PICK maker : Joined(maker)
      BY <1>3 DEF Drawn
    <3>2. Joined(maker)'
      BY <2>2, <3>1 DEF Joined
    <3>3. QED
      BY <3>2
  <2>5. QED
    BY <1>2, <1>3, <2>1, <2>2, <2>3, <2>4 DEF Drawn
<1>10. QED
  BY <1>5, <1>6, <1>7, <1>8, <1>9 DEF Next

\* The components and links that were made are those of the calls made.
LEMMA AlwaysDrawn == Spec => []DrawnInv
BY DrawnInit, DrawnStep, PTL DEF Spec

-----------------------------------------------------------------------------
(* Counting.                                                               *)

LEMMA CountImage ==
  ASSUME NEW S, IsFiniteSet(S), NEW f, f = [x \in S |-> f[x]],
         \A x, y \in S : f[x] = f[y] => x = y
  PROVE  Cardinality({f[x] : x \in S}) = Cardinality(S)
<1> DEFINE T == {f[x] : x \in S}
<1>1. f \in [S -> T]
  OBVIOUS
<1>2. f \in Bijection(S, T)
  BY <1>1 DEF Bijection, Injection, Surjection, IsInjective
<1>3. ExistsBijection(S, T)
  BY <1>2 DEF ExistsBijection
<1> HIDE DEF T
<1>4. Cardinality(T) = Cardinality(S)
  BY <1>3, FS_Bijection
<1>5. QED
  BY <1>4 DEF T

LEMMA CountWithin ==
  ASSUME NEW S, NEW T, IsFiniteSet(T), NEW f \in [S -> T], \A x, y \in S : f[x] = f[y] => x = y
  PROVE  IsFiniteSet(S) /\ Cardinality(S) \in Nat /\ Cardinality(S) <= Cardinality(T)
<1>1. f \in Injection(S, T)
  BY DEF Injection, IsInjective
<1>2. IsFiniteSet(S) /\ Cardinality(S) <= Cardinality(T)
  BY <1>1, FS_Injection
<1>3. QED
  BY <1>2, FS_CardinalityType

LEMMA FiniteLinkEnds ==
  ASSUME Drawn, NEW T, Makes(Calls, T, {})
  PROVE  IsFiniteSet(Made) /\ IsFiniteSet(LinkEnds) /\ IsFiniteSet(Components) /\ IsFiniteSet(Links)
<1>1. pc \in Nat /\ IsFiniteSet(1 .. pc)
  <2>1. Len(Calls) \in Nat
    BY CallsMade DEF Drawn
  <2>2. pc \in Nat
    BY <2>1 DEF Drawn
  <2>3. QED
    BY <2>2, FS_Interval
<1>2. IsFiniteSet(Made)
  <2> DEFINE index(c) == CHOOSE i \in 1 .. pc : Calls[i] = c
             f == [c \in Made |-> index(c)]
  <2>1. \A c \in Made : index(c) \in 1 .. pc /\ Calls[index(c)] = c
    BY DEF Made
  <2> HIDE DEF index
  <2>2. f \in [Made -> 1 .. pc] /\ \A c, d \in Made : f[c] = f[d] => c = d
    BY <2>1
  <2> HIDE DEF f
  <2>3. QED
    BY <1>1, <2>2, CountWithin
<1>3. IsFiniteSet(LinkEnds)
  <2>1. PICK maker : Joined(maker)
    BY DEF Drawn
  <2>2. maker \in [LinkEnds -> Made] /\ \A x, y \in LinkEnds : maker[x] = maker[y] => x = y
    BY <2>1 DEF Joined, LinksMade
  <2>3. QED
    BY <1>2, <2>2, CountWithin
<1>4. IsFiniteSet(Components)
  <2> DEFINE source(n) == CHOOSE c \in Made : c.name = n
             f == [n \in Components |-> source(n)]
  <2>1. \A n \in Components : source(n) \in Made /\ source(n).name = n
    BY DEF Drawn, Declared
  <2> HIDE DEF source
  <2>2. f \in [Components -> Made] /\ \A m, n \in Components : f[m] = f[n] => m = n
    BY <2>1
  <2> HIDE DEF f
  <2>3. QED
    BY <1>2, <2>2, CountWithin
<1>5. IsFiniteSet(Links)
  <2> DEFINE f == [l \in Links |-> <<l, 1>>]
  <2>1. ASSUME NEW l \in Links PROVE <<l, 1>> \in LinkEnds
    <3>1. net.links[l] \in Seq(AnyEnd) /\ net.links[l] # <<>>
      BY DEF Drawn
    <3>2. Len(net.links[l]) \in Nat \ {0}
      BY <3>1, LenProperties, EmptySeq
    <3>3. QED
      BY <3>2 DEF LinkEnds
  <2>2. f \in [Links -> LinkEnds] /\ \A l, m \in Links : f[l] = f[m] => l = m
    BY <2>1
  <2> HIDE DEF f
  <2>3. QED
    BY <1>3, <2>2, CountWithin
<1>6. QED
  BY <1>2, <1>3, <1>4, <1>5

-----------------------------------------------------------------------------
(* What the calls of a script have to be like.                             *)

\* Each link is given two ends.
Paired(T) ==
  \A c \in T : LinkCall(c) =>
    \E d \in T \ {c} : /\ LinkCall(d) /\ d.link = c.link
                       /\ \A e \in T : LinkCall(e) /\ e.link = c.link => e \in {c, d}

\* No port is given to two links.
OncePerPort(T) ==
  \A c, d \in T : LinkCall(c) /\ LinkCall(d) /\ c # d /\ c.name = d.name =>
    c.call = d.call /\ (c.call = "addLink" => c.port # d.port)

\* A component has the ports that links are given.
PortsFit(T) ==
  \A c, d \in T : LinkCall(c) /\ d.call = "Component" /\ c.name = d.name =>
    /\ "num_ports" \in DOMAIN d.params => c.call = "addLink" /\ c.port[2] < d.params.num_ports
    /\ "local_ports" \in DOMAIN d.params => c.call = "addLink" /\ c.port[2] < d.params.local_ports

IsRouter(T, n) == \E d \in T : d.call = "Component" /\ d.name = n /\ d.params.kind = "router"

\* Two links of routers do not join the same two.
SingleTrunks(T) ==
  \A b, c, d, e \in T :
    /\ \A f \in {b, c, d, e} : LinkCall(f) /\ IsRouter(T, f.name)
    /\ b # c /\ b.link = c.link /\ d # e /\ d.link = e.link /\ {b.name, c.name} = {d.name, e.name}
    => b.link = d.link

LEMMA EndMaker ==
  ASSUME NEW maker, Joined(maker), NEW x \in LinkEnds
  PROVE  /\ maker[x] \in LinksMade /\ LinkCall(maker[x]) /\ maker[x] \in Made
         /\ x[1] = maker[x].link /\ EndAt(x)[1] = maker[x].name
         /\ maker[x].call = "addLink" => EndAt(x)[2] = maker[x].port
         /\ x[1] \in Links /\ x[2] \in 1 .. Len(net.links[x[1]]) /\ x = <<x[1], x[2]>>
<1>1. /\ maker[x] \in LinksMade /\ x[1] = maker[x].link /\ EndAt(x) \in Ends(maker[x])
  BY DEF Joined
<1>2. PICK l \in Links : \E i \in 1 .. Len(net.links[l]) : x = <<l, i>>
  BY DEF LinkEnds
<1>3. PICK i \in 1 .. Len(net.links[l]) : x = <<l, i>>
  BY <1>2
<1>4. QED
  BY <1>1, <1>3 DEF LinksMade, Ends

LEMMA PairsOfEnds ==
  ASSUME Drawn, NEW T, Makes(Calls, T, {}), Paired(T)
  PROVE  LinksPaired
<1>1. PICK maker : Joined(maker)
  BY DEF Drawn
<1>2. Made \subseteq T /\ (Done => Made = T)
  BY CallsMade DEF Drawn
<1>3. \A l \in Links : Len(net.links[l]) \in Nat \ {0}
  BY LenProperties, EmptySeq DEF Drawn
<1>4. ASSUME NEW l \in Links PROVE Len(net.links[l]) <= 2
  <2> SUFFICES ASSUME Len(net.links[l]) > 2 PROVE FALSE
    BY <1>3
  <2>1. {<<l, 1>>, <<l, 2>>, <<l, 3>>} \subseteq LinkEnds
    <3>1. 1 \in 1 .. Len(net.links[l]) /\ 2 \in 1 .. Len(net.links[l]) /\ 3 \in 1 .. Len(net.links[l])
      BY <1>3
    <3>2. QED
      BY <3>1 DEF LinkEnds
  <2> DEFINE c == maker[<<l, 1>>]
             d == maker[<<l, 2>>]
             e == maker[<<l, 3>>]
  <2>2. c # d /\ c # e /\ d # e
    BY <1>1, <2>1 DEF Joined
  <2>3. \A f \in {c, d, e} : f \in T /\ LinkCall(f) /\ f.link = l
    <3>1. ASSUME NEW x \in {<<l, 1>>, <<l, 2>>, <<l, 3>>}
          PROVE  maker[x] \in T /\ LinkCall(maker[x]) /\ maker[x].link = l
      <4>1. x \in LinkEnds /\ x[1] = l
        BY <2>1
      <4>2. QED
        BY <1>1, <1>2, <4>1, EndMaker
    <3>2. QED
      BY <3>1
  <2> HIDE DEF c, d, e
  <2>4. QED
    BY <2>2, <2>3 DEF Paired
<1>5. ASSUME Done, NEW l \in Links PROVE Len(net.links[l]) = 2
  <2>1. <<l, 1>> \in LinkEnds
    BY <1>3 DEF LinkEnds
  <2>2. PICK x : x = <<l, 1>>
    OBVIOUS
  <2>3. maker[x] \in T /\ LinkCall(maker[x]) /\ maker[x].link = l
    BY <1>1, <1>2, <2>1, <2>2, EndMaker
  <2>4. PICK d \in T \ {maker[x]} : LinkCall(d) /\ d.link = l
    BY <2>3 DEF Paired
  <2>5. d \in LinksMade
    BY <1>2, <1>5, <2>4 DEF LinksMade
  <2>6. PICK y \in LinkEnds : maker[y] = d
    BY <1>1, <2>5 DEF Joined
  <2>7. y # x /\ y[1] = l /\ y[2] \in 1 .. Len(net.links[l]) /\ y = <<y[1], y[2]>>
    BY <1>1, <2>4, <2>6, EndMaker
  <2>8. y[2] # 1
    BY <2>2, <2>7
  <2>9. Len(net.links[l]) \in Nat /\ Len(net.links[l]) <= 2
    BY <1>3, <1>4
  <2>10. y[2] \in 1 .. Len(net.links[l])
    BY <2>7
  <2>11. PICK n, k : n = Len(net.links[l]) /\ k = y[2]
    OBVIOUS
  <2>12. n \in Nat /\ n <= 2 /\ k \in 1 .. n /\ k # 1
    BY <2>8, <2>9, <2>10, <2>11
  <2>13. n = 2
    BY <2>12
  <2>14. QED
    BY <2>11, <2>13
<1>6. QED
  BY <1>4, <1>5 DEF LinksPaired

\* What is linked has been made before.
LEMMA EndAtComponent ==
  ASSUME Drawn, NEW T, Makes(Calls, T, {}), NEW maker, Joined(maker), NEW x \in LinkEnds
  PROVE  EndAt(x)[1] \in Components
<1> DEFINE m == maker[x]
<1>1. m \in Made /\ LinkCall(m) /\ EndAt(x)[1] = m.name
  BY EndMaker
<1> HIDE DEF m
<1>2. PICK i \in 1 .. pc : Calls[i] = m
  BY <1>1 DEF Made
<1>3. Len(Calls) \in Nat /\ pc \in Nat /\ pc <= Len(Calls)
  <2>1. Len(Calls) \in Nat
    BY CallsMade DEF Drawn
  <2>2. QED
    BY <2>1 DEF Drawn
<1>4. i \in 1 .. Len(Calls)
  BY <1>3
<1>5. PICK j \in 1 .. i - 1 : Calls[j].call = "Component" /\ Calls[j].name = m.name
  BY <1>1, <1>2, <1>4 DEF Makes, Heralded
<1>6. j \in 1 .. pc
  BY <1>3
<1>7. Calls[j] \in Made
  BY <1>6 DEF Made
<1>8. QED
  BY <1>1, <1>5, <1>7 DEF Drawn, Declared

LEMMA PortsOfEnds ==
  ASSUME Drawn, NEW T, Makes(Calls, T, {}), OncePerPort(T), PortsFit(T)
  PROVE  PortsWired
<1>1. PICK maker : Joined(maker)
  BY DEF Drawn
<1>2. Made \subseteq T
  BY CallsMade DEF Drawn
<1>3. ASSUME NEW x \in LinkEnds, NEW y \in LinkEnds, x # y PROVE EndAt(x) # EndAt(y)
  <2> SUFFICES ASSUME EndAt(x) = EndAt(y) PROVE FALSE
    OBVIOUS
  <2>1. /\ maker[x] \in T /\ LinkCall(maker[x]) /\ EndAt(x)[1] = maker[x].name
        /\ maker[x].call = "addLink" => EndAt(x)[2] = maker[x].port
    BY <1>1, <1>2, EndMaker
  <2>2. /\ maker[y] \in T /\ LinkCall(maker[y]) /\ EndAt(y)[1] = maker[y].name
        /\ maker[y].call = "addLink" => EndAt(y)[2] = maker[y].port
    BY <1>1, <1>2, EndMaker
  <2>3. maker[x] # maker[y]
    BY <1>1, <1>3 DEF Joined
  <2>4. maker[x].call = maker[y].call /\ (maker[x].call = "addLink" => maker[x].port # maker[y].port)
        /\ maker[x].name = maker[y].name
    BY <2>1, <2>2, <2>3 DEF OncePerPort
  <2>5. maker[x].call = "addNextLink"
    BY <2>1, <2>2, <2>4 DEF LinkCall
  <2>6. EndAt(x)[2][2] # EndAt(y)[2][2]
    BY <1>1, <1>3, <2>4, <2>5 DEF Joined
  <2>7. QED
    BY <2>6
<1>4. Cardinality({EndAt(x) : x \in LinkEnds}) = Cardinality(LinkEnds)
  <2> DEFINE f == [x \in LinkEnds |-> EndAt(x)]
  <2>1. IsFiniteSet(LinkEnds)
    BY FiniteLinkEnds
  <2>2. f = [x \in LinkEnds |-> f[x]] /\ \A x, y \in LinkEnds : f[x] = f[y] => x = y
    BY <1>3
  <2>3. {EndAt(x) : x \in LinkEnds} = {f[x] : x \in LinkEnds}
    OBVIOUS
  <2> HIDE DEF f
  <2>4. QED
    BY <2>1, <2>2, <2>3, CountImage
<1>5. ASSUME NEW x \in LinkEnds
      PROVE  LET c == EndAt(x)[1] number == EndAt(x)[2][2]
             IN  /\ c \in Components
                 /\ Has(c, "num_ports") => number < net.params[c].num_ports
                 /\ Has(c, "local_ports") => number < net.params[c].local_ports
  <2> DEFINE m == maker[x]
             c == EndAt(x)[1]
  <2>1. /\ m \in Made /\ m \in T /\ LinkCall(m) /\ c = m.name
        /\ m.call = "addLink" => EndAt(x)[2] = m.port
    BY <1>1, <1>2, EndMaker
  <2> HIDE DEF m, c
  <2>2. c \in Components
    BY <1>1, EndAtComponent DEF c
  <2>3. PICK d \in Made : d.call = "Component" /\ d.name = c /\ d.params = net.params[c]
    BY <2>2 DEF Drawn, Declared
  <2>4. /\ "num_ports" \in DOMAIN d.params => m.call = "addLink" /\ m.port[2] < d.params.num_ports
        /\ "local_ports" \in DOMAIN d.params => m.call = "addLink" /\ m.port[2] < d.params.local_ports
    BY <1>2, <2>1, <2>3 DEF PortsFit
  <2>5. QED
    BY <2>1, <2>2, <2>3, <2>4 DEF Has, c
<1>6. QED
  BY <1>4, <1>5 DEF PortsWired

LEMMA KindOf ==
  ASSUME Drawn, NEW T, Makes(Calls, T, {}), NEW n \in Components
  PROVE  \E c \in T : c.call = "Component" /\ c.name = n /\ c.params = net.params[n]
BY CallsMade DEF Drawn, Declared

LEMMA EndOfLink ==
  ASSUME NEW l \in Links, NEW i \in 1 .. Len(net.links[l])
  PROVE  <<l, i>> \in LinkEnds
BY DEF LinkEnds

LEMMA TrunksOfEnds ==
  ASSUME Drawn, NEW T, Makes(Calls, T, {}), SingleTrunks(T)
  PROVE  NoDoubleLinks
<1> DEFINE routers == OfKind("router")
           trunks  == {l \in Links : Len(net.links[l]) = 2 /\ Joins(l) \subseteq routers}
           f       == [l \in trunks |-> Joins(l)]
<1>1. PICK maker : Joined(maker)
  BY DEF Drawn
<1>2. Made \subseteq T
  BY CallsMade DEF Drawn
<1>3. ASSUME NEW n \in routers PROVE IsRouter(T, n)
  <2>1. n \in Components /\ net.params[n].kind = "router"
    BY DEF OfKind
  <2>2. QED
    BY <2>1, KindOf DEF IsRouter
<1>4. ASSUME NEW l \in trunks
      PROVE  \E b, c \in T : /\ LinkCall(b) /\ LinkCall(c) /\ b # c /\ b.link = l /\ c.link = l
                             /\ Joins(l) = {b.name, c.name}
                             /\ IsRouter(T, b.name) /\ IsRouter(T, c.name)
  <2>1. l \in Links /\ Len(net.links[l]) = 2 /\ Joins(l) \subseteq routers
    OBVIOUS
  <2> DEFINE x == <<l, 1>>
             y == <<l, 2>>
  <2>2. x \in LinkEnds /\ y \in LinkEnds /\ x # y
    <3>1. 1 \in 1 .. Len(net.links[l]) /\ 2 \in 1 .. Len(net.links[l])
      BY <2>1
    <3>2. \A i \in 1 .. Len(net.links[l]) : <<l, i>> \in LinkEnds
      BY <2>1, EndOfLink
    <3>3. x # y
      OBVIOUS
    <3>4. QED
      BY <3>1, <3>2, <3>3
  <2>3. /\ maker[x] \in T /\ LinkCall(maker[x]) /\ maker[x].link = l
        /\ net.links[l][1][1] = maker[x].name
    <3>1. x[1] = l /\ EndAt(x) = net.links[l][1]
      BY DEF EndAt
    <3> HIDE DEF x
    <3>2. QED
      BY <1>1, <1>2, <2>2, <3>1, EndMaker
  <2>4. /\ maker[y] \in T /\ LinkCall(maker[y]) /\ maker[y].link = l
        /\ net.links[l][2][1] = maker[y].name
    <3>1. y[1] = l /\ EndAt(y) = net.links[l][2]
      BY DEF EndAt
    <3> HIDE DEF y
    <3>2. QED
      BY <1>1, <1>2, <2>2, <3>1, EndMaker
  <2>5. maker[x] # maker[y]
    BY <1>1, <2>2 DEF Joined
  <2>6. Joins(l) = {net.links[l][1][1], net.links[l][2][1]}
    <3>1. 1 .. Len(net.links[l]) = {1, 2}
      BY <2>1
    <3>2. QED
      BY <3>1 DEF Joins
  <2> HIDE DEF x, y
  <2>7. Joins(l) = {maker[x].name, maker[y].name}
    BY <2>3, <2>4, <2>6
  <2>8. IsRouter(T, maker[x].name) /\ IsRouter(T, maker[y].name)
    BY <1>3, <2>1, <2>7
  <2>9. QED
    BY <2>3, <2>4, <2>5, <2>7, <2>8
<1>5. ASSUME NEW l \in trunks, NEW m \in trunks, Joins(l) = Joins(m) PROVE l = m
  <2>1. PICK b, c \in T : /\ LinkCall(b) /\ LinkCall(c) /\ b # c /\ b.link = l /\ c.link = l
                          /\ Joins(l) = {b.name, c.name}
                          /\ IsRouter(T, b.name) /\ IsRouter(T, c.name)
    BY <1>4
  <2>2. PICK d, e \in T : /\ LinkCall(d) /\ LinkCall(e) /\ d # e /\ d.link = m /\ e.link = m
                          /\ Joins(m) = {d.name, e.name}
                          /\ IsRouter(T, d.name) /\ IsRouter(T, e.name)
    BY <1>4
  <2>3. /\ \A g \in {b, c, d, e} : LinkCall(g) /\ IsRouter(T, g.name)
        /\ b # c /\ b.link = c.link /\ d # e /\ d.link = e.link /\ {b.name, c.name} = {d.name, e.name}
    BY <1>5, <2>1, <2>2
  <2>4. b.link = d.link
    BY <2>3 DEF SingleTrunks
  <2>5. QED
    BY <2>1, <2>2, <2>4
<1>6. IsFiniteSet(trunks)
  <2>1. trunks \in SUBSET Links
    OBVIOUS
  <2> HIDE DEF trunks
  <2>2. QED
    BY <2>1, FiniteLinkEnds, FS_Subset
<1>7. f = [l \in trunks |-> f[l]] /\ \A l, m \in trunks : f[l] = f[m] => l = m
  <2> HIDE DEF trunks
  <2>1. QED
    BY <1>5
<1>8. {Joins(l) : l \in trunks} = {f[l] : l \in trunks}
  OBVIOUS
<1> HIDE DEF f
<1>9. Cardinality({f[l] : l \in trunks}) = Cardinality(trunks)
  <2> HIDE DEF trunks
  <2>1. QED
    BY <1>6, <1>7, CountImage
<1>10. QED
  BY <1>8, <1>9 DEF NoDoubleLinks

\* The calls that make endpoints which know how many there are, and those of them that
\* are numbered.
Peers(T) == {c \in T : /\ c.call = "Component" /\ c.params.kind = "endpoint"
                       /\ "num_peers" \in DOMAIN c.params}
NumberedPeers(T) == {c \in Peers(T) : "id" \in DOMAIN c.params}

\* number tells them apart with the numbers below N, which is what they are told; it is
\* what the numbered ones are called, and if there is one all are.
PeersFit(T, N, number) ==
  /\ N \in Nat /\ number \in [Peers(T) -> 0 .. N - 1]
  /\ \A c, d \in Peers(T) : number[c] = number[d] => c = d
  /\ \A c \in Peers(T) : c.params.num_peers \in Nat /\ N <= c.params.num_peers
  /\ \A c \in NumberedPeers(T) : c.params.id = number[c]
  /\ NumberedPeers(T) # {} => \A k \in 0 .. N - 1 : \E c \in NumberedPeers(T) : number[c] = k
  /\ \A c, d \in T : c.call = "Component" /\ d.call = "Component" /\ c.name = d.name => c = d

LEMMA PeersOfCalls ==
  ASSUME Drawn, NEW T, Makes(Calls, T, {}), NEW N, NEW number, PeersFit(T, N, number)
  PROVE  PeersCovered
<1> DEFINE eps == {c \in OfKind("endpoint") : Has(c, "num_peers")}
           numbered == {c \in eps : Has(c, "id")}
           source(n) == CHOOSE c \in T : c.call = "Component" /\ c.name = n /\ c.params = net.params[n]
<1>1. \A n \in Components : /\ source(n) \in T /\ source(n).call = "Component"
                            /\ source(n).name = n /\ source(n).params = net.params[n]
  BY KindOf
<1>2. \A n \in eps : n \in Components /\ net.params[n].kind = "endpoint"
                     /\ "num_peers" \in DOMAIN net.params[n]
  BY DEF OfKind, Has
<1> HIDE DEF source
<1>3. \A n \in eps : source(n) \in Peers(T) /\ source(n).name = n
                     /\ source(n).params = net.params[n]
  BY <1>1, <1>2 DEF Peers
<1>4. \A n \in numbered : n \in eps /\ source(n) \in NumberedPeers(T)
  BY <1>3 DEF NumberedPeers, Has
<1> HIDE DEF eps, numbered
<1> DEFINE f == [n \in eps |-> number[source(n)]]
<1>5. f \in [eps -> 0 .. N - 1] /\ \A m, n \in eps : f[m] = f[n] => m = n
  <2>1. \A n \in eps : number[source(n)] \in 0 .. N - 1
    BY <1>3 DEF PeersFit
  <2>2. \A m, n \in eps : number[source(m)] = number[source(n)] => m = n
    BY <1>3 DEF PeersFit
  <2>3. QED
    BY <2>1, <2>2
<1>6. N \in Nat /\ IsFiniteSet(0 .. N - 1) /\ Cardinality(0 .. N - 1) = N
  <2>1. N \in Nat /\ N - 1 \in Int
    BY DEF PeersFit
  <2>2. QED
    BY <2>1, FS_Interval
<1>7. IsFiniteSet(eps) /\ Cardinality(eps) \in Nat /\ Cardinality(eps) <= N
  <2> HIDE DEF f
  <2>1. QED
    BY <1>5, <1>6, CountWithin
<1>8. \A n \in eps : Cardinality(eps) <= net.params[n].num_peers
  <2> TAKE n \in eps
  <2>1. net.params[n].num_peers \in Nat /\ N <= net.params[n].num_peers
    BY <1>3 DEF PeersFit
  <2>2. QED
    BY <1>6, <1>7, <2>1
<1>9. \A n \in numbered : /\ net.params[n].id = f[n] /\ net.params[n].id \in 0 .. N - 1
                          /\ N <= net.params[n].num_peers /\ net.params[n].num_peers \in Nat
  BY <1>3, <1>4, <1>5 DEF PeersFit
<1>10. IsFiniteSet(numbered)
  <2>1. numbered \in SUBSET eps
    BY <1>4
  <2>2. QED
    BY <1>7, <2>1, FS_Subset
<1> DEFINE g == [n \in numbered |-> net.params[n].id]
<1>11. Cardinality({net.params[n].id : n \in numbered}) = Cardinality(numbered)
  <2>1. \A m, n \in numbered : g[m] = g[n] => m = n
    BY <1>4, <1>5, <1>9
  <2>2. g = [n \in numbered |-> g[n]] /\ {net.params[n].id : n \in numbered} = {g[n] : n \in numbered}
    OBVIOUS
  <2> HIDE DEF g, f
  <2>3. QED
    BY <1>10, <2>1, <2>2, CountImage
<1>12. \A n \in numbered : net.params[n].id < net.params[n].num_peers
  <2> TAKE n \in numbered
  <2>1. PICK i, k : i = net.params[n].id /\ k = net.params[n].num_peers
    OBVIOUS
  <2>2. i \in 0 .. N - 1 /\ N <= k /\ k \in Nat
    BY <1>9, <2>1
  <2>3. i < k
    BY <1>6, <2>2
  <2>4. QED
    BY <2>1, <2>3
<1>13. ASSUME Done, NEW n \in numbered PROVE net.params[n].id < Cardinality(numbered)
  <2>1. Made = T
    BY <1>13, CallsMade DEF Drawn
  <2>2. NumberedPeers(T) # {}
    BY <1>4
  <2>3. ASSUME NEW k \in 0 .. N - 1 PROVE \E m \in numbered : g[m] = k
    <3>1. PICK c \in NumberedPeers(T) : number[c] = k
      BY <2>2 DEF PeersFit
    <3>2. c \in T /\ c.call = "Component" /\ c.params.kind = "endpoint"
          /\ "num_peers" \in DOMAIN c.params /\ "id" \in DOMAIN c.params /\ c.params.id = k
      BY <3>1 DEF NumberedPeers, Peers, PeersFit
    <3>3. c.name \in Components
      BY <2>1, <3>2 DEF Drawn, Declared
    <3>4. source(c.name) = c
      BY <1>1, <3>2, <3>3 DEF PeersFit
    <3>5. net.params[c.name] = c.params
      BY <1>1, <3>3, <3>4
    <3>6. c.name \in numbered
      BY <3>2, <3>3, <3>5 DEF numbered, eps, OfKind, Has
    <3>7. QED
      BY <3>2, <3>5, <3>6
  <2> DEFINE h == [k \in 0 .. N - 1 |-> CHOOSE m \in numbered : g[m] = k]
  <2>4. \A k \in 0 .. N - 1 : h[k] \in numbered /\ g[h[k]] = k
    <3> HIDE DEF g
    <3>1. QED
      BY <2>3
  <2>5. h \in [0 .. N - 1 -> numbered] /\ \A j, k \in 0 .. N - 1 : h[j] = h[k] => j = k
    <3>1. h \in [0 .. N - 1 -> numbered]
      <4>1. h = [k \in 0 .. N - 1 |-> h[k]]
        OBVIOUS
      <4> HIDE DEF h, g
      <4>2. QED
        BY <2>4, <4>1
    <3> HIDE DEF h, g
    <3>2. QED
      BY <2>4, <3>1
  <2>6. Cardinality(0 .. N - 1) <= Cardinality(numbered)
    <3> HIDE DEF h, g
    <3>1. QED
      BY <1>10, <2>5, CountWithin
  <2>7. Cardinality(numbered) \in Nat
    BY <1>10, FS_CardinalityType
  <2>8. net.params[n].id \in 0 .. N - 1
    BY <1>9
  <2>9. QED
    BY <1>6, <2>6, <2>7, <2>8
<1>14. QED
  BY <1>8, <1>11, <1>12, <1>13 DEF PeersCovered, eps, numbered

-----------------------------------------------------------------------------
(* Networks in one piece.                                                  *)

\* f adds to a set by m until nothing is added.
Repeats(f, m, C) == f = [S \in SUBSET C |-> IF m[S] = S THEN S ELSE f[m[S]]]

LEMMA CanRepeat ==
  ASSUME NEW C, NEW m \in [SUBSET C -> SUBSET C], \A S \in SUBSET C : S \subseteq m[S],
         \A S, X \in SUBSET C : S \subseteq X => m[S] \subseteq m[X]
  PROVE  \E f : Repeats(f, m, C)
<1> DEFINE Around(S) == {X \in SUBSET C : S \subseteq X /\ m[X] = X}
           f == [S \in SUBSET C |-> {c \in C : \A X \in Around(S) : c \in X}]
<1>1. ASSUME NEW S \in SUBSET C, m[S] = S PROVE f[S] = S
  <2>1. S \in Around(S)
    BY <1>1
  <2>2. QED
    BY <2>1
<1>2. ASSUME NEW S \in SUBSET C PROVE Around(m[S]) = Around(S)
  OBVIOUS
<1>3. ASSUME NEW S \in SUBSET C PROVE f[m[S]] = f[S]
  <2>1. m[S] \in SUBSET C
    OBVIOUS
  <2>2. Around(m[S]) = Around(S)
    BY <1>2
  <2> HIDE DEF Around
  <2>3. QED
    BY <2>1, <2>2
<1>4. f = [S \in SUBSET C |-> f[S]]
  OBVIOUS
<1> HIDE DEF f
<1>5. f = [S \in SUBSET C |-> IF m[S] = S THEN S ELSE f[m[S]]]
  BY <1>1, <1>3, <1>4
<1>6. QED
  BY <1>5 DEF Repeats

LEMMA RepeatsToEnd ==
  ASSUME NEW C, IsFiniteSet(C), NEW m \in [SUBSET C -> SUBSET C], \A S \in SUBSET C : S \subseteq m[S],
         NEW f, Repeats(f, m, C), NEW S0 \in SUBSET C
  PROVE  f[S0] \in SUBSET C /\ S0 \subseteq f[S0] /\ m[f[S0]] = f[S0]
<1> DEFINE P(S) == f[S] \in SUBSET C /\ S \subseteq f[S] /\ m[f[S]] = f[S]
           T == {i \in Nat : \A S \in SUBSET C : Cardinality(C \ S) <= i => P(S)}
<1>1. \A S \in SUBSET C : f[S] = IF m[S] = S THEN S ELSE f[m[S]]
  BY DEF Repeats
<1>2. \A S \in SUBSET C : IsFiniteSet(C \ S) /\ Cardinality(C \ S) \in Nat
  <2> TAKE S \in SUBSET C
  <2>1. IsFiniteSet(C \ S)
    BY FS_Difference
  <2>2. QED
    BY <2>1, FS_CardinalityType
<1>3. \A S \in SUBSET C : m[S] = S => P(S)
  BY <1>1
<1>4. ASSUME NEW S \in SUBSET C, m[S] # S
      PROVE  Cardinality(C \ m[S]) < Cardinality(C \ S)
  <2>1. PICK A, B : A = C \ m[S] /\ B = C \ S
    OBVIOUS
  <2>2. A \in SUBSET B /\ A # B
    BY <1>4, <2>1
  <2>3. IsFiniteSet(B) /\ Cardinality(A) \in Nat /\ Cardinality(B) \in Nat
    <3>1. m[S] \in SUBSET C
      OBVIOUS
    <3>2. QED
      BY <1>2, <2>1, <3>1
  <2>4. Cardinality(A) <= Cardinality(B) /\ Cardinality(A) # Cardinality(B)
    BY <2>2, <2>3, FS_Subset
  <2>5. QED
    BY <2>1, <2>3, <2>4
<1>5. 0 \in T
  <2> SUFFICES ASSUME NEW S \in SUBSET C, Cardinality(C \ S) <= 0 PROVE P(S)
    OBVIOUS
  <2>1. m[S] \in SUBSET C
    OBVIOUS
  <2>2. Cardinality(C \ S) \in Nat /\ Cardinality(C \ m[S]) \in Nat
    BY <1>2, <2>1
  <2>3. ~(Cardinality(C \ m[S]) < Cardinality(C \ S))
    BY <2>2
  <2>4. m[S] = S
    BY <1>4, <2>3
  <2>5. QED
    BY <1>3, <2>4
<1>6. ASSUME NEW i \in Nat, i \in T PROVE i + 1 \in T
  <2> SUFFICES ASSUME NEW S \in SUBSET C, Cardinality(C \ S) <= i + 1 PROVE P(S)
    OBVIOUS
  <2>1. CASE m[S] = S
    BY <1>3, <2>1
  <2>2. CASE m[S] # S
    <3>1. m[S] \in SUBSET C /\ S \subseteq m[S] /\ f[S] = f[m[S]]
      BY <1>1, <2>2
    <3>2. Cardinality(C \ m[S]) <= i
      <4>1. Cardinality(C \ S) \in Nat /\ Cardinality(C \ m[S]) \in Nat
        BY <1>2, <3>1
      <4>2. Cardinality(C \ m[S]) < Cardinality(C \ S)
        BY <1>4, <2>2
      <4>3. QED
        BY <4>1, <4>2
    <3>3. P(m[S])
      BY <1>6, <3>1, <3>2
    <3>4. QED
      BY <3>1, <3>3
  <2>3. QED
    BY <2>1, <2>2
<1>7. Cardinality(C \ S0) \in T
  <2>1. Cardinality(C \ S0) \in Nat
    BY <1>2
  <2> HIDE DEF T
  <2>2. QED
    BY <1>5, <1>6, <2>1, SetInduction
<1>8. P(S0)
  <2>1. PICK n \in Nat : n = Cardinality(C \ S0)
    BY <1>2
  <2>2. \A S \in SUBSET C : Cardinality(C \ S) <= n => P(S)
    BY <1>7, <2>1
  <2>3. Cardinality(C \ S0) <= n
    <3>1. n <= n
      OBVIOUS
    <3>2. QED
      BY <2>1, <3>1
  <2> HIDE DEF P
  <2>4. QED
    BY <2>2, <2>3
<1>9. QED
  BY <1>8

\* From any component the links of these calls lead to all.
InOnePiece(T) ==
  LET names == {c.name : c \in {d \in T : d.call = "Component"}}
  IN  /\ names # {}
      /\ \A S \in SUBSET names :
           (\A c, d \in T : LinkCall(c) /\ LinkCall(d) /\ c.link = d.link /\ c.name \in S => d.name \in S)
           => S = {} \/ S = names

LEMMA LinksOfCalls ==
  ASSUME Drawn, NEW T, Makes(Calls, T, {}), Done
  PROVE  /\ Components = {c.name : c \in {d \in T : d.call = "Component"}}
         /\ \A l \in Links : Joins(l) \subseteq Components
         /\ \A c \in T : LinkCall(c) => c.link \in Links /\ c.name \in Joins(c.link)
<1>1. PICK maker : Joined(maker)
  BY DEF Drawn
<1>2. Made = T
  BY CallsMade DEF Drawn
<1>3. Components = {c.name : c \in {d \in T : d.call = "Component"}}
  BY <1>2 DEF Drawn, Declared
<1>4. ASSUME NEW l \in Links PROVE Joins(l) \subseteq Components
  <2> SUFFICES ASSUME NEW i \in 1 .. Len(net.links[l]) PROVE net.links[l][i][1] \in Components
    BY DEF Joins
  <2>1. PICK x \in LinkEnds : x = <<l, i>>
    BY EndOfLink
  <2>2. EndAt(x)[1] \in Components
    BY <1>1, EndAtComponent
  <2>3. QED
    BY <2>1, <2>2 DEF EndAt
<1>5. ASSUME NEW c \in T, LinkCall(c) PROVE c.link \in Links /\ c.name \in Joins(c.link)
  <2>1. PICK x \in LinkEnds : maker[x] = c
    BY <1>1, <1>2, <1>5 DEF Joined, LinksMade
  <2>2. x[1] = c.link /\ EndAt(x)[1] = c.name /\ x[1] \in Links /\ x[2] \in 1 .. Len(net.links[x[1]])
    BY <1>1, <2>1, EndMaker
  <2>3. EndAt(x)[1] \in Joins(x[1])
    BY <2>2 DEF EndAt, Joins
  <2>4. QED
    BY <2>2, <2>3
<1>6. QED
  BY <1>3, <1>4, <1>5

LEMMA PieceOfCalls ==
  ASSUME Drawn, NEW T, Makes(Calls, T, {}), InOnePiece(T)
  PROVE  AllConnected
<1> SUFFICES ASSUME Done PROVE AllConnected
  BY DEF AllConnected
<1> DEFINE C == Components
           more(S) == S \cup UNION {Joins(l) : l \in {x \in Links : Joins(x) \cap S # {}}}
           m == [S \in SUBSET C |-> more(S)]
           g(f) == [S \in SUBSET C |-> IF more(S) = S THEN S ELSE f[more(S)]]
           grow == CHOOSE f : f = g(f)
<1>1. /\ C = {c.name : c \in {d \in T : d.call = "Component"}}
      /\ \A l \in Links : Joins(l) \subseteq C
      /\ \A c \in T : LinkCall(c) => c.link \in Links /\ c.name \in Joins(c.link)
  BY LinksOfCalls
<1>2. IsFiniteSet(C)
  BY FiniteLinkEnds
<1>3. \A S \in SUBSET C : more(S) \in SUBSET C /\ S \subseteq more(S)
  BY <1>1
<1>4. \A S, X \in SUBSET C : S \subseteq X => more(S) \subseteq more(X)
  OBVIOUS
<1>5. ASSUME NEW S \in SUBSET C, more(S) = S PROVE S = {} \/ S = C
  <2>1. ASSUME NEW c \in T, NEW d \in T, LinkCall(c), LinkCall(d), c.link = d.link, c.name \in S
        PROVE  d.name \in S
    <3>1. c.link \in Links /\ c.name \in Joins(c.link) /\ d.name \in Joins(c.link)
      BY <1>1, <2>1
    <3>2. d.name \in more(S)
      BY <2>1, <3>1
    <3>3. QED
      BY <1>5, <3>2
  <2> HIDE DEF more, C
  <2>2. QED
    BY <1>1, <2>1 DEF InOnePiece
<1>6. (CHOOSE c \in C : TRUE) \in C
  <2>1. C # {}
    BY <1>1 DEF InOnePiece
  <2>2. QED
    BY <2>1
<1>7. \A f : f = g(f) <=> Repeats(f, m, C)
  BY <1>3 DEF Repeats
<1>8. Repeats(grow, m, C)
  <2>1. m \in [SUBSET C -> SUBSET C] /\ (\A S \in SUBSET C : S \subseteq m[S])
        /\ \A S, X \in SUBSET C : S \subseteq X => m[S] \subseteq m[X]
    BY <1>3, <1>4
  <2> HIDE DEF m, g, C
  <2>2. \E f : Repeats(f, m, C)
    BY <2>1, CanRepeat
  <2>3. \E f : f = g(f)
    BY <1>7, <2>2
  <2>4. grow = g(grow)
    BY <2>3
  <2> HIDE DEF grow
  <2>5. QED
    BY <1>7, <2>4
<1> DEFINE S0 == {CHOOSE c \in C : TRUE}
<1>9. grow[S0] \in SUBSET C /\ S0 \subseteq grow[S0] /\ m[grow[S0]] = grow[S0]
  <2>1. m \in [SUBSET C -> SUBSET C] /\ (\A S \in SUBSET C : S \subseteq m[S]) /\ S0 \in SUBSET C
    BY <1>3, <1>6
  <2> HIDE DEF m, grow, C, S0
  <2>2. QED
    BY <1>2, <1>8, <2>1, RepeatsToEnd
<1>10. grow[S0] = C
  <2> HIDE DEF grow, more, C
  <2>1. more(grow[S0]) = grow[S0] /\ grow[S0] # {}
    BY <1>9
  <2>2. QED
    BY <1>5, <1>9, <2>1
<1>11. QED
  BY <1>10 DEF AllConnected

-----------------------------------------------------------------------------
(* Routers with trunks between them and endpoints at each, as most scripts *)
(* make them.  A trunk is seen from both its ends, each of them a node and *)
(* a port of its router; opp is the other one.                             *)

Local(F) == F.node \X (0 .. F.locals - 1)

EpLink(F, l) == <<F.name[l[1]], F.ep[l]>>

RouterCall(F, n) == Router(F.name[n], F.id[n], F.base + F.locals, F.locals)
TrunkCall(F, t)  == addLink(F.name[t[1]], F.link[t], port(t[2]))
EpCall(F, l)     == Component(F.ep[l], F.params[l])
EpCalls(F, l)    ==
  {EpCall(F, l), addLink(F.name[l[1]], EpLink(F, l), port(F.base + F.step * l[2])),
   addLink(F.ep[l], EpLink(F, l), <<F.nicPort, 0>>)}

\* The calls for node n, and for all nodes.
NodeCalls(F, n) ==
  {RouterCall(F, n)} \cup {TrunkCall(F, t) : t \in {u \in F.trunk : u[1] = n}}
    \cup UNION {EpCalls(F, l) : l \in {m \in Local(F) : m[1] = n}}

FabricCalls(F) == UNION {NodeCalls(F, n) : n \in F.node}

\* Names tell routers and endpoints apart, and endpoints have no ports of their own.
Named(F) ==
  /\ \A m, n \in F.node : F.name[m] = F.name[n] => m = n
  /\ \A l, m \in Local(F) : F.ep[l] = F.ep[m] => l = m
  /\ \A n \in F.node, l \in Local(F) : F.name[n] # F.ep[l]
  /\ \A l \in Local(F) : F.params[l].kind = "endpoint" /\ "num_peers" \in DOMAIN F.params[l]
                         /\ "num_ports" \notin DOMAIN F.params[l]
                         /\ "local_ports" \notin DOMAIN F.params[l]

Sized(F) ==
  /\ F.base \in Nat /\ F.locals \in Nat /\ F.step \in Nat \ {0}
  /\ F.trunk \subseteq F.node \X (0 .. F.base - 1)

Fabric(F) ==
  /\ Sized(F) /\ Named(F)
  /\ F.opp \in [F.trunk -> F.trunk] /\ \A t \in F.trunk : F.opp[t] # t
  /\ \A t, u \in F.trunk : F.link[t] = F.link[u] <=> u \in {t, F.opp[t]}
  /\ \A t \in F.trunk, l \in Local(F) : F.link[t] # EpLink(F, l)

LEMMA FabricCases ==
  ASSUME NEW F, Fabric(F), NEW c \in FabricCalls(F)
  PROVE  \/ \E n \in F.node : c = RouterCall(F, n)
         \/ \E t \in F.trunk : c = TrunkCall(F, t)
         \/ \E l \in Local(F) : c \in EpCalls(F, l)
BY DEF FabricCalls, NodeCalls

LEMMA FabricHas ==
  ASSUME NEW F, Fabric(F)
  PROVE  /\ \A n \in F.node : RouterCall(F, n) \in FabricCalls(F)
         /\ \A t \in F.trunk : TrunkCall(F, t) \in FabricCalls(F)
         /\ \A l \in Local(F) : EpCalls(F, l) \subseteq FabricCalls(F)
<1>1. ASSUME NEW n \in F.node PROVE RouterCall(F, n) \in FabricCalls(F)
  BY DEF FabricCalls, NodeCalls
<1>2. ASSUME NEW t \in F.trunk PROVE TrunkCall(F, t) \in FabricCalls(F)
  <2>1. t[1] \in F.node
    BY DEF Fabric, Sized, Named
  <2>2. TrunkCall(F, t) \in NodeCalls(F, t[1])
    BY DEF NodeCalls
  <2>3. QED
    BY <2>1, <2>2 DEF FabricCalls
<1>3. ASSUME NEW l \in Local(F) PROVE EpCalls(F, l) \subseteq FabricCalls(F)
  <2>1. l[1] \in F.node
    BY DEF Local
  <2>2. EpCalls(F, l) \subseteq NodeCalls(F, l[1])
    BY DEF NodeCalls
  <2>3. QED
    BY <2>1, <2>2 DEF FabricCalls
<1>4. QED
  BY <1>1, <1>2, <1>3

LEMMA FabricLinks ==
  ASSUME NEW F, Fabric(F), NEW c \in FabricCalls(F), LinkCall(c)
  PROVE  /\ c.call = "addLink"
         /\ \/ \E t \in F.trunk : /\ c = TrunkCall(F, t) /\ c.name = F.name[t[1]]
                                  /\ c.link = F.link[t] /\ c.port = <<"port", t[2]>>
            \/ \E l \in Local(F) :
                 /\ c = addLink(F.name[l[1]], EpLink(F, l), port(F.base + F.step * l[2]))
                 /\ c.name = F.name[l[1]] /\ c.link = EpLink(F, l)
                 /\ c.port = <<"port", F.base + F.step * l[2]>>
            \/ \E l \in Local(F) :
                 /\ c = addLink(F.ep[l], EpLink(F, l), <<F.nicPort, 0>>)
                 /\ c.name = F.ep[l] /\ c.link = EpLink(F, l) /\ c.port = <<F.nicPort, 0>>
<1>1. ASSUME NEW n \in F.node PROVE c # RouterCall(F, n)
  BY DEF LinkCall, RouterCall, Router, Component
<1>2. ASSUME NEW l \in Local(F) PROVE c # EpCall(F, l)
  BY DEF LinkCall, EpCall, Component
<1>3. CASE \E t \in F.trunk : c = TrunkCall(F, t)
  <2>1. PICK t \in F.trunk : c = TrunkCall(F, t)
    BY <1>3
  <2>2. /\ c.call = "addLink" /\ c.name = F.name[t[1]] /\ c.link = F.link[t]
        /\ c.port = <<"port", t[2]>>
    BY <2>1 DEF TrunkCall, addLink, port
  <2>3. QED
    BY <2>1, <2>2
<1>4. CASE \E l \in Local(F) : c \in EpCalls(F, l)
  <2>1. PICK l \in Local(F) : c \in EpCalls(F, l)
    BY <1>4
  <2>2. CASE c = addLink(F.name[l[1]], EpLink(F, l), port(F.base + F.step * l[2]))
    BY <2>2 DEF addLink, port
  <2>3. CASE c = addLink(F.ep[l], EpLink(F, l), <<F.nicPort, 0>>)
    BY <2>3 DEF addLink
  <2>4. QED
    BY <1>2, <2>1, <2>2, <2>3 DEF EpCalls
<1>5. QED
  BY <1>1, <1>3, <1>4, FabricCases

LEMMA FabricComponents ==
  ASSUME NEW F, Fabric(F), NEW c \in FabricCalls(F), c.call = "Component"
  PROVE  \/ \E n \in F.node : /\ c = RouterCall(F, n) /\ c.name = F.name[n]
                              /\ c.params.kind = "router"
                              /\ "num_ports" \in DOMAIN c.params /\ "local_ports" \notin DOMAIN c.params
                              /\ "num_peers" \notin DOMAIN c.params
                              /\ c.params.num_ports = F.base + F.locals
         \/ \E l \in Local(F) : c = EpCall(F, l) /\ c.name = F.ep[l] /\ c.params = F.params[l]
<1>1. ASSUME NEW t \in F.trunk PROVE c # TrunkCall(F, t)
  BY DEF TrunkCall, addLink
<1>2. CASE \E n \in F.node : c = RouterCall(F, n)
  BY <1>2 DEF RouterCall, Router, Component
<1>3. CASE \E l \in Local(F) : c \in EpCalls(F, l)
  <2>1. PICK l \in Local(F) : c \in EpCalls(F, l)
    BY <1>3
  <2>2. c = EpCall(F, l)
    BY <2>1 DEF EpCalls, addLink
  <2>3. QED
    BY <2>2 DEF EpCall, Component
<1>4. QED
  BY <1>1, <1>2, <1>3, FabricCases

\* The two ends of a trunk, and of the link of an endpoint.
LEMMA FabricPaired == ASSUME NEW F, Fabric(F) PROVE Paired(FabricCalls(F))
<1> DEFINE T == FabricCalls(F)
           Near(l) == addLink(F.name[l[1]], EpLink(F, l), port(F.base + F.step * l[2]))
           Away(l) == addLink(F.ep[l], EpLink(F, l), <<F.nicPort, 0>>)
<1> HIDE DEF T
<1>1. ASSUME NEW l \in Local(F)
      PROVE  /\ LinkCall(Near(l)) /\ LinkCall(Away(l)) /\ Near(l) # Away(l)
             /\ Near(l).link = EpLink(F, l) /\ Away(l).link = EpLink(F, l)
             /\ Near(l) \in T /\ Away(l) \in T
  <2>1. F.name[l[1]] # F.ep[l]
    BY DEF Fabric, Sized, Named, Local
  <2>2. Near(l).name = F.name[l[1]] /\ Away(l).name = F.ep[l]
    BY DEF addLink
  <2>3. Near(l) # Away(l)
    <3> HIDE DEF Near, Away
    <3>1. QED
      BY <2>1, <2>2
  <2>4. Near(l) \in T /\ Away(l) \in T
    BY FabricHas DEF EpCalls, T
  <2>5. /\ LinkCall(Near(l)) /\ LinkCall(Away(l))
        /\ Near(l).link = EpLink(F, l) /\ Away(l).link = EpLink(F, l)
    BY DEF addLink, LinkCall
  <2>6. QED
    BY <2>3, <2>4, <2>5
<1>2. ASSUME NEW t \in F.trunk
      PROVE  TrunkCall(F, t) \in T /\ LinkCall(TrunkCall(F, t)) /\ TrunkCall(F, t).link = F.link[t]
             /\ TrunkCall(F, t).name = F.name[t[1]] /\ TrunkCall(F, t).port = <<"port", t[2]>>
  BY FabricHas DEF TrunkCall, addLink, LinkCall, T, port
<1>3. ASSUME NEW l \in Local(F), NEW m \in Local(F), EpLink(F, l) = EpLink(F, m) PROVE l = m
  BY <1>3 DEF Fabric, Sized, Named, EpLink
<1> HIDE DEF Near, Away
<1>4. ASSUME NEW e \in T, LinkCall(e)
      PROVE  \/ \E t \in F.trunk : e = TrunkCall(F, t) /\ e.link = F.link[t]
             \/ \E l \in Local(F) : e \in {Near(l), Away(l)} /\ e.link = EpLink(F, l)
  <2>1. CASE \E t \in F.trunk : e = TrunkCall(F, t) /\ e.link = F.link[t]
    BY <2>1
  <2>2. CASE \E l \in Local(F) : e \in {Near(l), Away(l)} /\ e.link = EpLink(F, l)
    BY <2>2
  <2>3. QED
    BY <1>4, <2>1, <2>2, FabricLinks DEF T, Near, Away
<1>5. ASSUME NEW l \in Local(F), NEW c \in {Near(l), Away(l)}
      PROVE  \E d \in T \ {c} : /\ LinkCall(d) /\ d.link = c.link
                                /\ \A e \in T : LinkCall(e) /\ e.link = c.link => e \in {c, d}
  <2>1. PICK d : d \in {Near(l), Away(l)} /\ d # c
    BY <1>1
  <2>2. d \in T \ {c} /\ LinkCall(d) /\ d.link = EpLink(F, l) /\ c.link = EpLink(F, l)
        /\ {c, d} = {Near(l), Away(l)}
    BY <1>1, <2>1
  <2>3. ASSUME NEW e \in T, LinkCall(e), e.link = EpLink(F, l) PROVE e \in {Near(l), Away(l)}
    <3>1. \A t \in F.trunk : F.link[t] # EpLink(F, l)
      BY DEF Fabric, Sized, Named
    <3>2. QED
      BY <1>3, <1>4, <2>3, <3>1
  <2>4. QED
    BY <2>2, <2>3
<1>6. ASSUME NEW t \in F.trunk, NEW c, c = TrunkCall(F, t)
      PROVE  \E d \in T \ {c} : /\ LinkCall(d) /\ d.link = c.link
                                /\ \A e \in T : LinkCall(e) /\ e.link = c.link => e \in {c, d}
  <2> DEFINE u == F.opp[t]
             d == TrunkCall(F, u)
  <2>1. u \in F.trunk /\ u # t /\ F.link[t] = F.link[u]
    BY DEF Fabric, Sized, Named
  <2>2. d \in T /\ LinkCall(d) /\ d.link = c.link
    BY <1>2, <1>6, <2>1
  <2>3. d # c
    <3> SUFFICES ASSUME d = c PROVE FALSE
      OBVIOUS
    <3>1. F.name[t[1]] = F.name[u[1]] /\ <<"port", t[2]>> = <<"port", u[2]>>
      BY <1>2, <1>6, <2>1
    <3>2. t \in F.node \X (0 .. F.base - 1) /\ u \in F.node \X (0 .. F.base - 1)
      BY <2>1 DEF Fabric, Sized, Named
    <3>3. t[1] = u[1] /\ t[2] = u[2]
      BY <3>1, <3>2 DEF Fabric, Sized, Named
    <3>4. QED
      BY <2>1, <3>2, <3>3
  <2>4. ASSUME NEW e \in T, LinkCall(e), e.link = c.link PROVE e \in {c, d}
    <3>1. c.link = F.link[t]
      BY <1>2, <1>6
    <3>2. CASE \E s \in F.trunk : e = TrunkCall(F, s) /\ e.link = F.link[s]
      <4>1. PICK s \in F.trunk : e = TrunkCall(F, s) /\ F.link[s] = F.link[t]
        BY <2>4, <3>1, <3>2
      <4>2. s \in {t, u}
        BY <4>1 DEF Fabric, Sized, Named
      <4>3. QED
        BY <1>6, <4>1, <4>2
    <3>3. CASE \E l \in Local(F) : e.link = EpLink(F, l)
      BY <2>4, <3>1, <3>3 DEF Fabric, Sized, Named
    <3>4. QED
      BY <1>4, <2>4, <3>2, <3>3
  <2>5. QED
    BY <2>2, <2>3, <2>4
<1>7. QED
  BY <1>4, <1>5, <1>6 DEF Paired, T

\* Local ports come after those of the trunks.
LEMMA FabricPorts == ASSUME NEW F, Fabric(F) PROVE OncePerPort(FabricCalls(F))
<1> SUFFICES ASSUME NEW c \in FabricCalls(F), NEW d \in FabricCalls(F), LinkCall(c), LinkCall(d),
                    c # d, c.name = d.name
             PROVE  c.port # d.port
  BY FabricLinks DEF OncePerPort
<1> DEFINE Trunk(e, t) == t \in F.trunk /\ e = TrunkCall(F, t) /\ e.name = F.name[t[1]]
                          /\ e.port = <<"port", t[2]>>
           Near(e, l) == /\ l \in Local(F)
                         /\ e = addLink(F.name[l[1]], EpLink(F, l), port(F.base + F.step * l[2]))
                         /\ e.name = F.name[l[1]] /\ e.port = <<"port", F.base + F.step * l[2]>>
           Away(e, l) == /\ l \in Local(F) /\ e = addLink(F.ep[l], EpLink(F, l), <<F.nicPort, 0>>)
                         /\ e.name = F.ep[l]
<1>1. ASSUME NEW e \in FabricCalls(F), LinkCall(e)
      PROVE  (\E t : Trunk(e, t)) \/ (\E l : Near(e, l)) \/ (\E l : Away(e, l))
  BY <1>1, FabricLinks
<1>2. ASSUME NEW t \in F.trunk PROVE t[1] \in F.node /\ t[2] \in 0 .. F.base - 1 /\ t = <<t[1], t[2]>>
  BY DEF Fabric, Sized, Named
<1>3. ASSUME NEW l \in Local(F)
      PROVE  l[1] \in F.node /\ l[2] \in 0 .. F.locals - 1 /\ l = <<l[1], l[2]>>
  BY DEF Local
<1>4. /\ F.base \in Nat /\ F.locals \in Nat /\ F.step \in Nat \ {0}
      /\ \A m, n \in F.node : F.name[m] = F.name[n] => m = n
      /\ \A l, m \in Local(F) : F.ep[l] = F.ep[m] => l = m
      /\ \A n \in F.node, l \in Local(F) : F.name[n] # F.ep[l]
  BY DEF Fabric, Sized, Named
<1>5. ASSUME NEW t, NEW u, Trunk(c, t), Trunk(d, u) PROVE c.port # d.port
  <2>1. t[1] = u[1] /\ t # u
    BY <1>2, <1>4, <1>5
  <2>2. t[2] # u[2]
    BY <1>2, <1>5, <2>1
  <2>3. QED
    BY <1>5, <2>2
<1>6. ASSUME NEW l, NEW m, Near(c, l), Near(d, m) PROVE c.port # d.port
  <2>1. l[1] = m[1] /\ l # m
    BY <1>3, <1>4, <1>6
  <2>2. l[2] # m[2] /\ l[2] \in Nat /\ m[2] \in Nat
    BY <1>3, <1>4, <1>6, <2>1
  <2>3. PICK i, j, k : i = l[2] /\ j = m[2] /\ k = F.step
    OBVIOUS
  <2>4. F.base + k * i # F.base + k * j
    <3>1. i \in Nat /\ j \in Nat /\ k \in Nat \ {0} /\ i # j /\ F.base \in Nat
      BY <1>4, <2>2, <2>3
    <3>2. k * i # k * j
      <4>1. ASSUME NEW a \in Nat, NEW b \in Nat, a < b PROVE k * a # k * b
        <5>1. k * b = (k * a) + (k * (b - a))
          BY <3>1, <4>1
        <5>2. k * (b - a) > 0
          BY <3>1, <4>1
        <5>3. k * a \in Nat /\ k * (b - a) \in Int
          BY <3>1, <4>1
        <5>4. QED
          BY <5>1, <5>2, <5>3
      <4>2. i < j \/ j < i
        BY <3>1
      <4>3. QED
        BY <3>1, <4>1, <4>2
    <3>3. k * i \in Nat /\ k * j \in Nat
      BY <3>1
    <3>4. QED
      BY <3>1, <3>2, <3>3
  <2>5. QED
    BY <1>6, <2>3, <2>4
<1>7. ASSUME NEW a \in {c, d}, NEW b \in {c, d}, NEW t, NEW l, Trunk(a, t), Near(b, l)
      PROVE  a.port # b.port
  <2>1. t[2] < F.base /\ t[2] \in Nat /\ l[2] \in Nat
    BY <1>2, <1>3, <1>4, <1>7
  <2>2. F.step * l[2] \in Nat
    BY <1>4, <2>1
  <2>3. t[2] # F.base + F.step * l[2]
    BY <1>4, <2>1, <2>2
  <2>4. QED
    BY <1>7, <2>3
<1>8. ASSUME NEW a \in {c, d}, NEW b \in {c, d}, NEW l, Away(a, l), b # a PROVE Away(b, l)
  <2>1. ASSUME NEW t, Trunk(b, t) PROVE FALSE
    BY <1>2, <1>4, <1>8, <2>1
  <2>2. ASSUME NEW m, Near(b, m) PROVE FALSE
    BY <1>3, <1>4, <1>8, <2>2
  <2>3. PICK m : Away(b, m)
    BY <1>1, <2>1, <2>2
  <2>4. QED
    BY <1>4, <1>8, <2>3
<1>9. ASSUME NEW l, Away(c, l) PROVE FALSE
  <2>1. Away(d, l)
    BY <1>8, <1>9
  <2>2. QED
    BY <1>9, <2>1
<1>10. ASSUME NEW l, Away(d, l) PROVE FALSE
  <2>1. Away(c, l)
    BY <1>8, <1>10
  <2>2. QED
    BY <1>10, <2>1
<1> HIDE DEF Trunk, Near, Away
<1>11. QED
  BY <1>1, <1>5, <1>6, <1>7, <1>9, <1>10

LEMMA FabricPortsFit ==
  ASSUME NEW F, Fabric(F), F.step = 1 \/ F.locals <= 1
  PROVE  PortsFit(FabricCalls(F))
<1> SUFFICES ASSUME NEW c \in FabricCalls(F), NEW d \in FabricCalls(F), LinkCall(c),
                    d.call = "Component", c.name = d.name
             PROVE  /\ "num_ports" \in DOMAIN d.params =>
                         c.call = "addLink" /\ c.port[2] < d.params.num_ports
                    /\ "local_ports" \notin DOMAIN d.params
  BY DEF PortsFit
<1>1. CASE \E l \in Local(F) : d.params = F.params[l]
  BY <1>1 DEF Fabric, Sized, Named
<1>2. CASE \E n \in F.node : /\ d.name = F.name[n] /\ d.params.num_ports = F.base + F.locals
                             /\ "local_ports" \notin DOMAIN d.params
  <2>1. PICK n \in F.node : /\ d.name = F.name[n] /\ d.params.num_ports = F.base + F.locals
                            /\ "local_ports" \notin DOMAIN d.params
    BY <1>2
  <2>2. F.base \in Nat /\ F.locals \in Nat /\ F.step \in Nat
    BY DEF Fabric, Sized, Named
  <2>3. c.call = "addLink"
    BY FabricLinks
  <2>4. CASE \E t \in F.trunk : c.port = <<"port", t[2]>>
    <3>1. PICK t \in F.trunk : c.port = <<"port", t[2]>>
      BY <2>4
    <3>2. t[2] \in 0 .. F.base - 1
      BY DEF Fabric, Sized, Named
    <3>3. t[2] < F.base + F.locals
      BY <2>2, <3>2
    <3>4. QED
      BY <2>1, <2>3, <3>1, <3>3
  <2>5. CASE \E l \in Local(F) : c.port = <<"port", F.base + F.step * l[2]>>
    <3>1. PICK l \in Local(F) : c.port = <<"port", F.base + F.step * l[2]>>
      BY <2>5
    <3>2. PICK k : k = l[2]
      OBVIOUS
    <3>3. k \in 0 .. F.locals - 1
      BY <3>2 DEF Local
    <3>4. F.step * k = k
      <4>1. CASE F.step = 1
        BY <3>3, <4>1
      <4>2. CASE F.locals <= 1
        BY <2>2, <3>3, <4>2
      <4>3. QED
        BY <4>1, <4>2
    <3>5. F.base + F.step * k < F.base + F.locals
      BY <2>2, <3>3, <3>4
    <3>6. QED
      BY <2>1, <2>3, <3>1, <3>2, <3>5
  <2>6. CASE \E l \in Local(F) : c.name = F.ep[l]
    BY <2>1, <2>6 DEF Fabric, Sized, Named
  <2>7. QED
    BY <2>4, <2>5, <2>6, FabricLinks
<1>3. QED
  BY <1>1, <1>2, FabricComponents

LEMMA FabricSimple == ASSUME NEW F, Fabric(F) PROVE Simple(FabricCalls(F))
<1>1. ASSUME NEW c \in FabricCalls(F) PROVE c.call \in {"Component", "addLink"}
  <2>1. CASE \E n \in F.node : c = RouterCall(F, n)
    BY <2>1 DEF RouterCall, Router, Component
  <2>2. CASE \E t \in F.trunk : c = TrunkCall(F, t)
    BY <2>2 DEF TrunkCall, addLink
  <2>3. CASE \E l \in Local(F) : c \in EpCalls(F, l)
    BY <2>3 DEF EpCalls, EpCall, Component, addLink
  <2>4. QED
    BY <2>1, <2>2, <2>3, FabricCases
<1>2. QED
  BY <1>1 DEF Simple, LinkCall

\* Trunks that join the same two nodes are the same link.
Apart(F) ==
  \A t, u \in F.trunk : {t[1], F.opp[t][1]} = {u[1], F.opp[u][1]} => F.link[t] = F.link[u]

LEMMA FabricTrunks ==
  ASSUME NEW F, Fabric(F), Apart(F)
  PROVE  SingleTrunks(FabricCalls(F))
<1> DEFINE T == FabricCalls(F)
<1>1. /\ \A m, n \in F.node : F.name[m] = F.name[n] => m = n
      /\ \A n \in F.node, l \in Local(F) : F.name[n] # F.ep[l]
      /\ \A t \in F.trunk : F.opp[t] \in F.trunk /\ t[1] \in F.node
      /\ \A l, m \in Local(F) : F.ep[l] = F.ep[m] => l = m
      /\ \A t, u \in F.trunk : F.link[t] = F.link[u] <=> u \in {t, F.opp[t]}
      /\ \A t \in F.trunk, l \in Local(F) : F.link[t] # EpLink(F, l)
      /\ \A l \in Local(F) : F.params[l].kind = "endpoint"
  BY DEF Fabric, Sized, Named
<1>2. ASSUME NEW l \in Local(F) PROVE ~IsRouter(T, F.ep[l])
  <2> SUFFICES ASSUME NEW d \in T, d.call = "Component", d.name = F.ep[l], d.params.kind = "router"
               PROVE  FALSE
    BY DEF IsRouter
  <2>1. CASE \E n \in F.node : d.name = F.name[n]
    BY <1>1, <2>1
  <2>2. CASE \E m \in Local(F) : d.params = F.params[m]
    BY <1>1, <2>2
  <2>3. QED
    BY <2>1, <2>2, FabricComponents
<1> DEFINE Trunk(e, t) == t \in F.trunk /\ e = TrunkCall(F, t) /\ e.name = F.name[t[1]]
                          /\ e.link = F.link[t]
           Near(e, l) == /\ l \in Local(F)
                         /\ e = addLink(F.name[l[1]], EpLink(F, l), port(F.base + F.step * l[2]))
                         /\ e.link = EpLink(F, l)
<1>3. ASSUME NEW e \in T, LinkCall(e), IsRouter(T, e.name)
      PROVE  (\E t : Trunk(e, t)) \/ (\E l : Near(e, l))
  <2>1. CASE \E t \in F.trunk : e = TrunkCall(F, t) /\ e.name = F.name[t[1]] /\ e.link = F.link[t]
    BY <2>1
  <2>2. CASE \E l \in Local(F) :
               /\ e = addLink(F.name[l[1]], EpLink(F, l), port(F.base + F.step * l[2]))
               /\ e.link = EpLink(F, l)
    BY <2>2
  <2>3. CASE \E l \in Local(F) : e.name = F.ep[l]
    BY <1>2, <1>3, <2>3
  <2> HIDE DEF Trunk, Near
  <2>4. QED
    BY <1>3, <2>1, <2>2, <2>3, FabricLinks
<1> HIDE DEF T
<1>4. ASSUME NEW b \in T, NEW c \in T, LinkCall(b), LinkCall(c), b # c, b.link = c.link,
             IsRouter(T, b.name), IsRouter(T, c.name)
      PROVE  \E t \in F.trunk : /\ b.link = F.link[t]
                                /\ b.name = F.name[t[1]] /\ c.name = F.name[F.opp[t][1]]
  <2>1. ASSUME NEW l, Near(b, l) PROVE FALSE
    <3>1. \A t : ~Trunk(c, t)
      BY <1>1, <1>4, <2>1
    <3>2. PICK m : Near(c, m)
      BY <1>3, <1>4, <3>1
    <3>3. l = m
      <4>1. l \in Local(F) /\ m \in Local(F) /\ EpLink(F, l) = EpLink(F, m)
        BY <1>4, <2>1, <3>2
      <4>2. F.ep[l] = F.ep[m]
        BY <4>1 DEF EpLink
      <4>3. QED
        BY <1>1, <4>1, <4>2
    <3>4. QED
      BY <1>4, <2>1, <3>2, <3>3
  <2>2. PICK t : Trunk(b, t)
    BY <1>3, <1>4, <2>1
  <2>3. \A m : ~Near(c, m)
    BY <1>1, <1>4, <2>2
  <2>4. PICK u : Trunk(c, u)
    BY <1>3, <1>4, <2>3
  <2>5. u # t /\ u \in {t, F.opp[t]}
    BY <1>1, <1>4, <2>2, <2>4
  <2>6. QED
    BY <2>2, <2>4, <2>5
<1> SUFFICES ASSUME NEW b \in T, NEW c \in T, NEW d \in T, NEW e \in T,
                    \A f \in {b, c, d, e} : LinkCall(f) /\ IsRouter(T, f.name),
                    b # c, b.link = c.link, d # e, d.link = e.link,
                    {b.name, c.name} = {d.name, e.name}
             PROVE  b.link = d.link
  BY DEF SingleTrunks, T
<1>5. PICK t \in F.trunk : /\ b.link = F.link[t]
                           /\ b.name = F.name[t[1]] /\ c.name = F.name[F.opp[t][1]]
  BY <1>4
<1>6. PICK u \in F.trunk : /\ d.link = F.link[u]
                           /\ d.name = F.name[u[1]] /\ e.name = F.name[F.opp[u][1]]
  BY <1>4
<1>7. {t[1], F.opp[t][1]} = {u[1], F.opp[u][1]}
  <2>1. t[1] \in F.node /\ F.opp[t][1] \in F.node /\ u[1] \in F.node /\ F.opp[u][1] \in F.node
    BY <1>1
  <2>2. {F.name[t[1]], F.name[F.opp[t][1]]} = {F.name[u[1]], F.name[F.opp[u][1]]}
    BY <1>5, <1>6
  <2>3. \A i, k \in F.node : F.name[i] = F.name[k] => i = k
    BY <1>1
  <2> DEFINE i == t[1]
             j == F.opp[t][1]
             k == u[1]
             l == F.opp[u][1]
  <2> HIDE DEF i, j, k, l
  <2>4. i \in F.node /\ j \in F.node /\ k \in F.node /\ l \in F.node
    BY <2>1 DEF i, j, k, l
  <2>5. {F.name[i], F.name[j]} = {F.name[k], F.name[l]}
    BY <2>2 DEF i, j, k, l
  <2>6. \/ F.name[i] = F.name[k] /\ F.name[j] = F.name[l]
        \/ F.name[i] = F.name[l] /\ F.name[j] = F.name[k]
    BY <2>5
  <2>7. \/ i = k /\ j = l
        \/ i = l /\ j = k
    BY <2>3, <2>4, <2>6
  <2>8. {i, j} = {k, l}
    BY <2>7
  <2>9. QED
    BY <2>8 DEF i, j, k, l
<1>8. QED
  BY <1>5, <1>6, <1>7 DEF Apart

\* The endpoints are numbered by num with all the numbers below N, are told at least
\* that there are N, and either all have their number as a parameter or none has.
Numbers(F, N, num) ==
  /\ N \in Nat /\ num \in [Local(F) -> 0 .. N - 1]
  /\ \A l, m \in Local(F) : num[l] = num[m] => l = m
  /\ \A k \in 0 .. N - 1 : \E l \in Local(F) : num[l] = k
  /\ \A l \in Local(F) : F.params[l].num_peers \in Nat /\ N <= F.params[l].num_peers
  /\ \/ \A l \in Local(F) : "id" \in DOMAIN F.params[l] /\ F.params[l].id = num[l]
     \/ \A l \in Local(F) : "id" \notin DOMAIN F.params[l]

LEMMA FabricPeers ==
  ASSUME NEW F, Fabric(F), NEW N, NEW num, Numbers(F, N, num)
  PROVE  \E number : PeersFit(FabricCalls(F), N, number)
<1> DEFINE T == FabricCalls(F)
           at(c) == CHOOSE l \in Local(F) : c = EpCall(F, l)
           number == [c \in Peers(T) |-> num[at(c)]]
<1>1. ASSUME NEW c \in Peers(T)
      PROVE  at(c) \in Local(F) /\ c = EpCall(F, at(c)) /\ c.params = F.params[at(c)]
  <2>1. c \in T /\ c.call = "Component" /\ "num_peers" \in DOMAIN c.params
    BY DEF Peers
  <2>2. PICK l \in Local(F) : c = EpCall(F, l)
    BY <2>1, FabricComponents
  <2>3. at(c) \in Local(F) /\ c = EpCall(F, at(c))
    BY <2>2
  <2> HIDE DEF at
  <2>4. \A m : EpCall(F, m).params = F.params[m]
    BY DEF EpCall, Component
  <2>5. QED
    BY <2>3, <2>4
<1>2. ASSUME NEW l \in Local(F)
      PROVE  /\ EpCall(F, l) \in Peers(T) /\ EpCall(F, l).params = F.params[l]
             /\ at(EpCall(F, l)) = l
  <2>1. EpCall(F, l) \in T
    BY FabricHas DEF EpCalls
  <2>2. EpCall(F, l).call = "Component" /\ EpCall(F, l).params = F.params[l]
    BY DEF EpCall, Component
  <2>3. \A m \in Local(F) : EpCall(F, m).name = F.ep[m]
    BY DEF EpCall, Component
  <2>4. EpCall(F, l) \in Peers(T)
    BY <2>1, <2>2 DEF Peers, Fabric, Sized, Named
  <2>5. \A m \in Local(F) : EpCall(F, l) = EpCall(F, m) => l = m
    BY <2>3 DEF Fabric, Sized, Named
  <2>6. QED
    BY <2>2, <2>4, <2>5
<1> HIDE DEF at
<1>3. N \in Nat /\ number \in [Peers(T) -> 0 .. N - 1]
  BY <1>1 DEF Numbers
<1>4. \A c, d \in Peers(T) : number[c] = number[d] => c = d
  BY <1>1 DEF Numbers
<1>5. \A c \in Peers(T) : c.params.num_peers \in Nat /\ N <= c.params.num_peers
  BY <1>1 DEF Numbers
<1>6. \A c \in NumberedPeers(T) : c.params.id = number[c]
  BY <1>1 DEF Numbers, NumberedPeers
<1>7. ASSUME NumberedPeers(T) # {}, NEW k \in 0 .. N - 1
      PROVE  \E c \in NumberedPeers(T) : number[c] = k
  <2>1. \A l \in Local(F) : "id" \in DOMAIN F.params[l]
    BY <1>1, <1>7 DEF Numbers, NumberedPeers
  <2>2. PICK l \in Local(F) : num[l] = k
    BY DEF Numbers
  <2>3. EpCall(F, l) \in NumberedPeers(T) /\ number[EpCall(F, l)] = k
    BY <1>2, <2>1, <2>2 DEF NumberedPeers
  <2>4. QED
    BY <2>3
<1>8. ASSUME NEW c \in T, NEW d \in T, c.call = "Component", d.call = "Component", c.name = d.name
      PROVE  c = d
  <2> DEFINE Rtr0(e, n) == n \in F.node /\ e = RouterCall(F, n) /\ e.name = F.name[n]
             Ep0(e, l)  == l \in Local(F) /\ e = EpCall(F, l) /\ e.name = F.ep[l]
  <2>1. \A e \in {c, d} : (\E n : Rtr0(e, n)) \/ (\E l : Ep0(e, l))
    BY <1>8, FabricComponents
  <2>2. /\ \A m, n \in F.node : F.name[m] = F.name[n] => m = n
        /\ \A n \in F.node, l \in Local(F) : F.name[n] # F.ep[l]
        /\ \A l, m \in Local(F) : F.ep[l] = F.ep[m] => l = m
    BY DEF Fabric, Sized, Named
  <2>3. ASSUME NEW m, Rtr0(c, m) PROVE c = d
    <3>1. \A l : ~Ep0(d, l)
      BY <1>8, <2>2, <2>3
    <3>2. PICK n : Rtr0(d, n)
      BY <2>1, <3>1
    <3>3. QED
      BY <1>8, <2>2, <2>3, <3>2
  <2>4. ASSUME NEW l, Ep0(c, l) PROVE c = d
    <3>1. \A n : ~Rtr0(d, n)
      BY <1>8, <2>2, <2>4
    <3>2. PICK m : Ep0(d, m)
      BY <2>1, <3>1
    <3>3. QED
      BY <1>8, <2>2, <2>4, <3>2
  <2>5. QED
    BY <2>1, <2>3, <2>4
<1> HIDE DEF number
<1>9. PeersFit(T, N, number)
  BY <1>3, <1>4, <1>5, <1>6, <1>7, <1>8 DEF PeersFit
<1>10. QED
  BY <1>9

\* A link that leads from the trunk it starts with to the one opposite.
LEMMA HalfLinks ==
  ASSUME NEW trunk, NEW start, NEW opp \in [trunk -> trunk], NEW link,
         \A t \in trunk : opp[opp[t]] = t /\ (t \in start <=> opp[t] \notin start),
         \A t \in trunk : link[opp[t]] = link[t],
         \A t, u \in trunk \cap start : link[t] = link[u] => t = u
  PROVE  /\ \A t \in trunk : opp[t] # t
         /\ \A t, u \in trunk : link[t] = link[u] <=> u \in {t, opp[t]}
<1>1. \A t \in trunk : opp[t] # t
  OBVIOUS
<1>2. ASSUME NEW t \in trunk, NEW u \in trunk, link[t] = link[u] PROVE u \in {t, opp[t]}
  <2>1. CASE t \in start /\ u \in start
    BY <1>2, <2>1
  <2>2. CASE t \in start /\ u \notin start
    <3>1. opp[u] \in trunk \cap start /\ link[opp[u]] = link[t]
      BY <1>2, <2>2
    <3>2. opp[u] = t
      BY <2>2, <3>1
    <3>3. QED
      BY <3>2
  <2>3. CASE t \notin start /\ u \in start
    <3>1. opp[t] \in trunk \cap start /\ link[opp[t]] = link[u]
      BY <1>2, <2>3
    <3>2. QED
      BY <2>3, <3>1
  <2>4. CASE t \notin start /\ u \notin start
    <3>1. /\ opp[t] \in trunk \cap start /\ opp[u] \in trunk \cap start
          /\ link[opp[t]] = link[opp[u]]
      BY <1>2, <2>4
    <3>2. opp[t] = opp[u] /\ opp[opp[t]] = t /\ opp[opp[u]] = u
      BY <3>1
    <3>3. QED
      BY <3>2
  <2>5. QED
    BY <2>1, <2>2, <2>3, <2>4
<1>3. \A t, u \in trunk : u \in {t, opp[t]} => link[t] = link[u]
  OBVIOUS
<1>4. QED
  BY <1>1, <1>2, <1>3

\* A set of nodes that the trunks do not leave is empty or has all nodes.
Spanned(F) ==
  \A Q \in SUBSET F.node :
    (\A t \in F.trunk : t[1] \in Q => F.opp[t][1] \in Q) => Q = {} \/ Q = F.node

LEMMA FabricPiece ==
  ASSUME NEW F, Fabric(F), F.node # {}, Spanned(F)
  PROVE  InOnePiece(FabricCalls(F))
<1> DEFINE T == FabricCalls(F)
           names == {c.name : c \in {d \in T : d.call = "Component"}}
<1>1. ASSUME NEW n \in F.node PROVE F.name[n] \in names
  <2>1. RouterCall(F, n) \in T
    BY FabricHas
  <2>2. RouterCall(F, n).call = "Component" /\ RouterCall(F, n).name = F.name[n]
    BY DEF RouterCall, Router, Component
  <2> HIDE DEF T
  <2>3. QED
    BY <2>1, <2>2
<1>2. ASSUME NEW l \in Local(F) PROVE F.ep[l] \in names
  <2>1. EpCall(F, l) \in T
    BY FabricHas DEF EpCalls
  <2>2. EpCall(F, l).call = "Component" /\ EpCall(F, l).name = F.ep[l]
    BY DEF EpCall, Component
  <2> HIDE DEF T
  <2>3. QED
    BY <2>1, <2>2
<1>3. ASSUME NEW x \in names PROVE (\E n \in F.node : x = F.name[n]) \/ (\E l \in Local(F) : x = F.ep[l])
  <2>1. PICK c \in T : c.call = "Component" /\ x = c.name
    OBVIOUS
  <2>2. QED
    BY <2>1, FabricComponents
<1>4. names # {}
  BY <1>1
<1> HIDE DEF names
<1>5. ASSUME NEW S \in SUBSET names,
             \A c, d \in T : LinkCall(c) /\ LinkCall(d) /\ c.link = d.link /\ c.name \in S => d.name \in S
      PROVE  S = {} \/ S = names
  <2> DEFINE Q == {n \in F.node : F.name[n] \in S}
  <2>1. ASSUME NEW t \in F.trunk, t[1] \in Q PROVE F.opp[t][1] \in Q
    <3>1. F.opp[t] \in F.trunk /\ F.opp[t][1] \in F.node /\ F.link[F.opp[t]] = F.link[t]
      BY DEF Fabric, Sized
    <3>2. PICK u \in F.trunk : u = F.opp[t]
      BY <3>1
    <3>3. TrunkCall(F, t) \in T /\ TrunkCall(F, u) \in T
      BY FabricHas
    <3>4. /\ LinkCall(TrunkCall(F, t)) /\ LinkCall(TrunkCall(F, u))
          /\ TrunkCall(F, t).link = F.link[t] /\ TrunkCall(F, u).link = F.link[u]
          /\ TrunkCall(F, t).name = F.name[t[1]] /\ TrunkCall(F, u).name = F.name[u[1]]
      BY DEF LinkCall, TrunkCall, addLink
    <3>5. F.name[t[1]] \in S
      BY <2>1
    <3> HIDE DEF T, Q
    <3>6. F.name[u[1]] \in S
      BY <1>5, <3>1, <3>2, <3>3, <3>4, <3>5
    <3>7. QED
      BY <3>1, <3>2, <3>6 DEF Q
  <2>2. ASSUME NEW l \in Local(F) PROVE F.ep[l] \in S <=> F.name[l[1]] \in S
    <3> DEFINE c == addLink(F.name[l[1]], EpLink(F, l), port(F.base + F.step * l[2]))
               d == addLink(F.ep[l], EpLink(F, l), <<F.nicPort, 0>>)
    <3>1. c \in T /\ d \in T
      BY FabricHas DEF EpCalls
    <3>2. /\ LinkCall(c) /\ LinkCall(d) /\ c.link = d.link
          /\ c.name = F.name[l[1]] /\ d.name = F.ep[l]
      BY DEF LinkCall, addLink
    <3> HIDE DEF T, c, d
    <3>3. QED
      BY <1>5, <3>1, <3>2
  <2>3. Q = {} \/ Q = F.node
    <3>1. Q \in SUBSET F.node
      OBVIOUS
    <3> HIDE DEF Q
    <3>2. QED
      BY <2>1, <3>1 DEF Spanned
  <2>4. \A l \in Local(F) : l[1] \in F.node
    BY DEF Local
  <2>5. CASE Q = {}
    <3>1. \A n \in F.node : F.name[n] \notin S
      BY <2>5
    <3>2. \A l \in Local(F) : F.ep[l] \notin S
      BY <2>2, <2>4, <3>1
    <3>3. QED
      BY <1>3, <3>1, <3>2
  <2>6. CASE Q = F.node
    <3>1. \A n \in F.node : F.name[n] \in S
      BY <2>6
    <3>2. \A l \in Local(F) : F.ep[l] \in S
      BY <2>2, <2>4, <3>1
    <3>3. QED
      BY <1>3, <3>1, <3>2
  <2>7. QED
    BY <2>3, <2>5, <2>6
<1>6. QED
  BY <1>4, <1>5 DEF InOnePiece, names

-----------------------------------------------------------------------------
(* The calls for a node, and for all nodes in a grid.                      *)

\* What t links is in R or made by s.
LEMMA MakesMore ==
  ASSUME NEW s, NEW t, NEW A, NEW B, NEW R, NEW Q, Makes(s, A, R), Makes(t, B, Q), A \cap B = {},
         \A q \in Q : q \in R \/ \E c \in A : c.call = "Component" /\ c.name = q
  PROVE  Makes(s \o t, A \cup B, R)
<1> DEFINE w == s \o t
           m == Len(s)
<1>1. Makes(s, A, R \cup Q) /\ Makes(t, B, R \cup Q)
  BY DEF Makes, Heralded
<1>2. Makes(w, A \cup B, R \cup Q)
  BY <1>1, MakesConcat
<1>3. /\ Len(w) = m + Len(t) /\ m \in Nat /\ Len(t) \in Nat /\ s \in Seq(A) /\ t \in Seq(B)
      /\ \A i \in 1 .. m : w[i] = s[i] /\ s[i] \in A
  <2>1. s \in Seq(A) /\ t \in Seq(B) /\ s \in Seq(A \cup B) /\ t \in Seq(A \cup B)
    BY DEF Makes, Lists
  <2>2. QED
    BY <2>1
<1>4. \A c \in A : \E i \in 1 .. m : s[i] = c
  BY DEF Makes, Lists
<1> HIDE DEF w
<1>5. ASSUME NEW i \in 1 .. Len(w), LinkCall(w[i])
      PROVE  \/ w[i].name \in R
             \/ \E j \in 1 .. i - 1 : w[j].call = "Component" /\ w[j].name = w[i].name
  <2>1. CASE i \in 1 .. m
    <3>1. \/ s[i].name \in R
          \/ \E j \in 1 .. i - 1 : s[j].call = "Component" /\ s[j].name = s[i].name
      BY <1>3, <1>5, <2>1 DEF Makes, Heralded
    <3>2. \A j \in 1 .. i - 1 : j \in 1 .. m
      BY <1>3, <2>1
    <3>3. QED
      BY <1>3, <2>1, <3>1, <3>2
  <2>2. CASE i \notin 1 .. m
    <3>1. CASE w[i].name \in Q /\ w[i].name \notin R
      <4>1. PICK c \in A : c.call = "Component" /\ c.name = w[i].name
        BY <3>1
      <4>2. PICK j \in 1 .. m : s[j] = c
        BY <1>4
      <4>3. j \in 1 .. i - 1
        BY <1>3, <2>2
      <4>4. QED
        BY <1>3, <4>1, <4>2, <4>3
    <3>2. CASE ~(w[i].name \in Q /\ w[i].name \notin R)
      BY <1>2, <1>5, <3>2 DEF Makes, Heralded
    <3>3. QED
      BY <3>1, <3>2
  <2>3. QED
    BY <2>1, <2>2
<1>6. QED
  BY <1>2, <1>5 DEF Makes, Heralded, w

EpSeq(F, l) ==
  << EpCall(F, l), addLink(F.name[l[1]], EpLink(F, l), port(F.base + F.step * l[2])),
     addLink(F.ep[l], EpLink(F, l), <<F.nicPort, 0>>) >>

LEMMA EpMakes ==
  ASSUME NEW F, Fabric(F), NEW l \in Local(F)
  PROVE  Makes(EpSeq(F, l), EpCalls(F, l), {F.name[l[1]]})
<1> DEFINE a == EpCall(F, l)
           b == addLink(F.name[l[1]], EpLink(F, l), port(F.base + F.step * l[2]))
           c == addLink(F.ep[l], EpLink(F, l), <<F.nicPort, 0>>)
           s == <<a, b, c>>
<1>1. /\ a.call = "Component" /\ a.name = F.ep[l]
      /\ b.call = "addLink" /\ b.name = F.name[l[1]] /\ c.call = "addLink" /\ c.name = F.ep[l]
  BY DEF EpCall, Component, addLink
<1>2. F.name[l[1]] # F.ep[l]
  BY DEF Fabric, Sized, Named, Local
<1>3. s = EpSeq(F, l) /\ EpCalls(F, l) = {a, b, c}
  BY DEF EpSeq, EpCalls
<1> HIDE DEF a, b, c
<1>4. s \in Seq({a, b, c}) /\ Len(s) = 3 /\ s[1] = a /\ s[2] = b /\ s[3] = c
  OBVIOUS
<1> HIDE DEF s
<1>5. a # b /\ b # c /\ a # c
  BY <1>1, <1>2
<1>6. 1 .. Len(s) = {1, 2, 3}
  BY <1>4
<1>7. Lists(s, {a, b, c})
  BY <1>4, <1>5, <1>6 DEF Lists
<1>8. Heralded(s, {F.name[l[1]]})
  <2>1. 1 \in 1 .. 3 - 1
    OBVIOUS
  <2>2. QED
    BY <1>1, <1>4, <1>6, <2>1 DEF Heralded, LinkCall
<1>9. QED
  BY <1>3, <1>7, <1>8 DEF Makes

\* The names that occur in calls.
LEMMA EpNames ==
  ASSUME NEW F, Fabric(F), NEW l \in Local(F), NEW c \in EpCalls(F, l)
  PROVE  \/ c.call = "addLink" /\ c.name = F.name[l[1]] /\ c.link = EpLink(F, l)
         \/ c.name = F.ep[l]
BY DEF EpCalls, EpCall, Component, addLink

LEMMA EpsApart ==
  ASSUME NEW F, Fabric(F), NEW l \in Local(F), NEW m \in Local(F), l # m
  PROVE  EpCalls(F, l) \cap EpCalls(F, m) = {}
<1> SUFFICES ASSUME NEW c \in EpCalls(F, l), c \in EpCalls(F, m) PROVE FALSE
  OBVIOUS
<1>1. F.ep[l] # F.ep[m] /\ F.name[l[1]] # F.ep[m] /\ F.name[m[1]] # F.ep[l]
  BY DEF Fabric, Sized, Named, Local
<1>2. EpLink(F, l) # EpLink(F, m)
  BY <1>1 DEF EpLink
<1>3. QED
  BY <1>1, <1>2, EpNames

LEMMA NodesApart ==
  ASSUME NEW F, Fabric(F), NEW m \in F.node, NEW n \in F.node, m # n
  PROVE  NodeCalls(F, m) \cap NodeCalls(F, n) = {}
<1>1. ASSUME NEW k \in F.node, NEW c \in NodeCalls(F, k)
      PROVE  c.name = F.name[k] \/ \E l \in Local(F) : l[1] = k /\ c.name = F.ep[l]
  <2>1. CASE c = RouterCall(F, k)
    BY <2>1 DEF RouterCall, Router, Component
  <2>2. CASE \E t \in F.trunk : t[1] = k /\ c = TrunkCall(F, t)
    BY <2>2 DEF TrunkCall, addLink
  <2>3. CASE \E l \in Local(F) : l[1] = k /\ c \in EpCalls(F, l)
    BY <2>3, EpNames
  <2>4. QED
    BY <1>1, <2>1, <2>2, <2>3 DEF NodeCalls
<1> SUFFICES ASSUME NEW c \in NodeCalls(F, m), c \in NodeCalls(F, n) PROVE FALSE
  OBVIOUS
<1>2. c.name = F.name[m] \/ \E l \in Local(F) : l[1] = m /\ c.name = F.ep[l]
  BY <1>1
<1>3. c.name = F.name[n] \/ \E l \in Local(F) : l[1] = n /\ c.name = F.ep[l]
  BY <1>1
<1>4. QED
  BY <1>2, <1>3 DEF Fabric, Sized, Named

\* After the router and its trunks come the endpoints.
LEMMA NodeMakes ==
  ASSUME NEW F, Fabric(F), NEW n \in F.node, NEW s,
         Makes(s, {RouterCall(F, n)} \cup {TrunkCall(F, t) : t \in {u \in F.trunk : u[1] = n}}, {})
  PROVE  Makes(s \o FlattenSeq([k \in 1 .. F.locals |-> EpSeq(F, <<n, k - 1>>)]),
               NodeCalls(F, n), {})
<1> DEFINE A == {RouterCall(F, n)} \cup {TrunkCall(F, t) : t \in {u \in F.trunk : u[1] = n}}
           eps == [k \in 1 .. F.locals |-> EpSeq(F, <<n, k - 1>>)]
           E == [k \in 1 .. F.locals |-> EpCalls(F, <<n, k - 1>>)]
           B == UNION {E[k] : k \in 1 .. F.locals}
<1>1. F.locals \in Nat
  BY DEF Fabric, Sized, Named
<1>2. \A k \in 1 .. F.locals : <<n, k - 1>> \in Local(F)
  BY <1>1 DEF Local
<1>3. \A l \in Local(F) : l[1] = n => \E k \in 1 .. F.locals : l = <<n, k - 1>>
  <2> SUFFICES ASSUME NEW l \in Local(F), l[1] = n PROVE \E k \in 1 .. F.locals : l = <<n, k - 1>>
    OBVIOUS
  <2>1. l = <<n, l[2]>> /\ l[2] \in 0 .. F.locals - 1
    BY DEF Local
  <2>2. l[2] + 1 \in 1 .. F.locals /\ l[2] = (l[2] + 1) - 1
    BY <1>1, <2>1
  <2>3. QED
    BY <2>1, <2>2
<1>4. UNION {EpCalls(F, l) : l \in {m \in Local(F) : m[1] = n}} = B
  BY <1>2, <1>3
<1>5. \A k \in 1 .. F.locals : Makes(eps[k], E[k], {F.name[n]})
  <2> TAKE k \in 1 .. F.locals
  <2> DEFINE l == <<n, k - 1>>
  <2>1. l \in Local(F) /\ l[1] = n
    BY <1>2
  <2> HIDE DEF l
  <2>2. Makes(EpSeq(F, l), EpCalls(F, l), {F.name[n]})
    BY <2>1, EpMakes
  <2>3. QED
    BY <2>2 DEF l
<1>6. \A j, k \in 1 .. F.locals : j # k => E[j] \cap E[k] = {}
  <2> TAKE j, k \in 1 .. F.locals
  <2> HAVE j # k
  <2>1. <<n, j - 1>> \in Local(F) /\ <<n, k - 1>> \in Local(F) /\ <<n, j - 1>> # <<n, k - 1>>
    BY <1>1, <1>2
  <2>2. EpCalls(F, <<n, j - 1>>) \cap EpCalls(F, <<n, k - 1>>) = {}
    BY <2>1, EpsApart
  <2>3. QED
    BY <2>2
<1>7. eps \in [1 .. F.locals -> Seq(B)]
  <2>1. \A k \in 1 .. F.locals : eps[k] \in Seq(E[k]) /\ E[k] \subseteq B
    <3>1. \A k \in 1 .. F.locals : eps[k] \in Seq(E[k])
      BY <1>5 DEF Makes, Lists
    <3>2. QED
      BY <3>1
  <2>2. eps = [k \in 1 .. F.locals |-> eps[k]]
    OBVIOUS
  <2> HIDE DEF eps, E, B
  <2>3. \A S : S \subseteq B => Seq(S) \subseteq Seq(B)
    OBVIOUS
  <2>4. QED
    BY <2>1, <2>2, <2>3
<1>8. A \cap B = {}
  <2> SUFFICES ASSUME NEW c \in A, NEW k \in 1 .. F.locals, c \in EpCalls(F, <<n, k - 1>>)
               PROVE  FALSE
    OBVIOUS
  <2> DEFINE l == <<n, k - 1>>
  <2>1. l \in Local(F) /\ l[1] = n /\ c \in EpCalls(F, l)
    BY <1>2
  <2> HIDE DEF l
  <2>2. F.name[n] # F.ep[l]
    BY <2>1 DEF Fabric, Sized, Named
  <2>3. CASE c = RouterCall(F, n)
    <3>1. c.call = "Component" /\ c.name = F.name[n]
      BY <2>3 DEF RouterCall, Router, Component
    <3>2. QED
      BY <2>1, <2>2, <3>1, EpNames
  <2>4. CASE \E t \in F.trunk : t[1] = n /\ c = TrunkCall(F, t)
    <3>1. PICK t \in F.trunk : t[1] = n /\ c = TrunkCall(F, t)
      BY <2>4
    <3>2. c.name = F.name[n] /\ c.link = F.link[t]
      BY <3>1 DEF TrunkCall, addLink
    <3>3. F.link[t] # EpLink(F, l)
      BY <2>1 DEF Fabric, Sized, Named
    <3>4. QED
      BY <2>1, <2>2, <3>2, <3>3, EpNames
  <2>5. QED
    BY <2>3, <2>4
<1>9. \A c : c \in B <=> \E k \in 1 .. F.locals : c \in E[k]
  <2> HIDE DEF E
  <2>1. QED
    OBVIOUS
<1> HIDE DEF A, eps, E, B
<1>10. Makes(FlattenSeq(eps), B, {F.name[n]})
  BY <1>1, <1>5, <1>6, <1>7, <1>9, MakesAll
<1>11. RouterCall(F, n) \in A /\ RouterCall(F, n).call = "Component" /\ RouterCall(F, n).name = F.name[n]
  BY DEF A, RouterCall, Router, Component
<1>12. Makes(s \o FlattenSeq(eps), A \cup B, {})
  <2>1. Makes(s, A, {})
    BY DEF A
  <2>2. \A q \in {F.name[n]} : q \in {} \/ \E c \in A : c.call = "Component" /\ c.name = q
    BY <1>11
  <2>3. QED
    BY <1>8, <1>10, <2>1, <2>2, MakesMore
<1>13. NodeCalls(F, n) = A \cup B
  BY <1>4 DEF NodeCalls, A
<1>14. QED
  BY <1>12, <1>13 DEF eps

\* Row by row.
\* The sequences of the nodes of a grid, row by row.
Rows(a, b, ss) == FlattenSeq([i \in 1 .. b |-> FlattenSeq([j \in 1 .. a |-> ss[<<j - 1, i - 1>>]])])

LEMMA MakesGrid ==
  ASSUME NEW a \in Nat, NEW b \in Nat, NEW S, NEW ss \in [(0 .. a - 1) \X (0 .. b - 1) -> Seq(S)],
         NEW A, NEW R,
         \A n \in (0 .. a - 1) \X (0 .. b - 1) : Makes(ss[n], A[n], R),
         \A m, n \in (0 .. a - 1) \X (0 .. b - 1) : m # n => A[m] \cap A[n] = {},
         NEW T, \A c : c \in T <=> \E n \in (0 .. a - 1) \X (0 .. b - 1) : c \in A[n]
  PROVE  Makes(Rows(a, b, ss), T, R)
<1> DEFINE node == (0 .. a - 1) \X (0 .. b - 1)
           at(j, i) == <<j - 1, i - 1>>
           row(i) == [j \in 1 .. a |-> ss[at(j, i)]]
           B(i) == [j \in 1 .. a |-> A[at(j, i)]]
           C == [i \in 1 .. b |-> UNION {B(i)[j] : j \in 1 .. a}]
           rows == [i \in 1 .. b |-> FlattenSeq(row(i))]
<1>1. \A i \in 1 .. b, j \in 1 .. a : at(j, i) \in node
  OBVIOUS
<1>2. \A i, k \in 1 .. b, j, l \in 1 .. a : at(j, i) = at(l, k) => i = k /\ j = l
  OBVIOUS
<1>3. \A n \in node : \E i \in 1 .. b, j \in 1 .. a : n = at(j, i)
  <2> TAKE n \in node
  <2>1. n = <<n[1], n[2]>> /\ n[1] \in 0 .. a - 1 /\ n[2] \in 0 .. b - 1
    OBVIOUS
  <2>2. n[1] + 1 \in 1 .. a /\ n[2] + 1 \in 1 .. b /\ (n[1] + 1) - 1 = n[1] /\ (n[2] + 1) - 1 = n[2]
    BY <2>1
  <2>3. n = at(n[1] + 1, n[2] + 1)
    BY <2>1, <2>2
  <2>4. QED
    BY <2>2, <2>3
<1> HIDE DEF at
<1>4. ASSUME NEW i \in 1 .. b PROVE Makes(FlattenSeq(row(i)), C[i], R)
  <2>1. row(i) \in [1 .. a -> Seq(S)]
    BY <1>1
  <2>2. \A j \in 1 .. a : Makes(row(i)[j], B(i)[j], R)
    BY <1>1
  <2>3. \A j, l \in 1 .. a : j # l => B(i)[j] \cap B(i)[l] = {}
    BY <1>1, <1>2
  <2> DEFINE r == row(i)
             D == B(i)
  <2>4. r \in [1 .. a -> Seq(S)] /\ \A j \in 1 .. a : Makes(r[j], D[j], R)
    BY <2>1, <2>2
  <2>5. \A j, l \in 1 .. a : j # l => D[j] \cap D[l] = {}
    BY <2>3
  <2>6. \A c : c \in C[i] <=> \E j \in 1 .. a : c \in D[j]
    <3>1. C[i] = UNION {D[j] : j \in 1 .. a}
      OBVIOUS
    <3> HIDE DEF D, C
    <3>2. QED
      BY <3>1
  <2> HIDE DEF r, D, C
  <2>7. Makes(FlattenSeq(r), C[i], R)
    BY <2>4, <2>5, <2>6, MakesAll
  <2>8. QED
    BY <2>7 DEF r
<1>5. \A i, k \in 1 .. b : i # k => C[i] \cap C[k] = {}
  <2> SUFFICES ASSUME NEW i \in 1 .. b, NEW k \in 1 .. b, i # k, NEW c \in C[i], c \in C[k]
               PROVE  FALSE
    OBVIOUS
  <2>1. PICK j \in 1 .. a : c \in A[at(j, i)]
    OBVIOUS
  <2>2. PICK l \in 1 .. a : c \in A[at(l, k)]
    OBVIOUS
  <2>3. at(j, i) \in node /\ at(l, k) \in node /\ at(j, i) # at(l, k)
    BY <1>1, <1>2, SMTT(30)
  <2>4. QED
    BY <2>1, <2>2, <2>3
<1>6. \A c : c \in T <=> \E i \in 1 .. b : c \in C[i]
  <2>1. ASSUME NEW c \in T PROVE \E i \in 1 .. b : c \in C[i]
    <3>1. PICK n \in node : c \in A[n]
      OBVIOUS
    <3>2. PICK i \in 1 .. b, j \in 1 .. a : n = at(j, i)
      BY <1>3
    <3>3. QED
      BY <3>1, <3>2
  <2>2. ASSUME NEW i \in 1 .. b, NEW c \in C[i] PROVE c \in T
    <3>1. PICK j \in 1 .. a : c \in A[at(j, i)]
      OBVIOUS
    <3>2. at(j, i) \in node
      BY <1>1
    <3>3. QED
      BY <3>1, <3>2
  <2>3. QED
    BY <2>1, <2>2
<1>7. rows \in [1 .. b -> Seq(T)]
  <2>1. \A i \in 1 .. b : rows[i] \in Seq(C[i]) /\ C[i] \subseteq T
    <3>1. \A i \in 1 .. b : rows[i] = FlattenSeq(row(i))
      OBVIOUS
    <3> HIDE DEF rows, C
    <3>2. \A i \in 1 .. b : FlattenSeq(row(i)) \in Seq(C[i])
      BY <1>4 DEF Makes, Lists
    <3>3. \A i \in 1 .. b : C[i] \subseteq T
      BY <1>6
    <3> HIDE DEF row
    <3>4. QED
      BY <3>1, <3>2, <3>3
  <2>2. \A S1 : S1 \subseteq T => Seq(S1) \subseteq Seq(T)
    OBVIOUS
  <2>3. rows = [i \in 1 .. b |-> rows[i]]
    OBVIOUS
  <2> HIDE DEF rows, C
  <2>4. QED
    BY <2>1, <2>2, <2>3
<1>8. \A i \in 1 .. b : Makes(rows[i], C[i], R)
  <2>1. \A i \in 1 .. b : rows[i] = FlattenSeq(row(i))
    OBVIOUS
  <2> HIDE DEF rows, C, row
  <2>2. QED
    BY <1>4, <2>1
<1> HIDE DEF rows, C
<1>9. Makes(FlattenSeq(rows), T, R)
  BY <1>5, <1>6, <1>7, <1>8, MakesAll
<1>10. QED
  BY <1>9 DEF rows, at, Rows

-----------------------------------------------------------------------------
(* Grids and rings.  A trunk leaves node t[1] by port t[2] for node nbr[t],*)
(* where the opposite port back[t[2]] leads back; its link is named after  *)
(* its start and its end, and the trunks of the ports in start start here. *)

Opp(F, t) == <<F.nbr[t], F.back[t[2]]>>

TrunkName(F, t) ==
  IF t[2] \in F.start THEN <<F.name[t[1]], F.name[F.nbr[t]]>>
  ELSE <<F.name[F.nbr[t]], F.name[t[1]]>>

Woven(F) ==
  /\ Sized(F) /\ Named(F)
  /\ \A d \in 0 .. F.base - 1 : F.back[F.back[d]] = d /\ (d \in F.start <=> F.back[d] \notin F.start)
  /\ \A t \in F.trunk : F.nbr[t] \in F.node /\ Opp(F, t) \in F.trunk /\ F.nbr[Opp(F, t)] = t[1]
  /\ \A t, u \in F.trunk : t[1] = u[1] /\ F.nbr[t] = F.nbr[u] /\ t[2] \in F.start /\ u[2] \in F.start
                           => t[2] = u[2]
  /\ F.opp = [t \in F.trunk |-> F.opp[t]]
  /\ \A t \in F.trunk : F.opp[t] = Opp(F, t) /\ F.link[t] = TrunkName(F, t)

LEMMA SamePair == ASSUME NEW p, NEW q, NEW r, NEW s, <<p, q>> = <<r, s>> PROVE p = r /\ q = s
OBVIOUS

LEMMA WovenEnds ==
  ASSUME NEW F, Woven(F), NEW t \in F.trunk
  PROVE  /\ t[1] \in F.node /\ t[2] \in 0 .. F.base - 1 /\ t = <<t[1], t[2]>>
         /\ F.opp[t] \in F.trunk /\ F.opp[t][1] = F.nbr[t] /\ F.opp[t][2] = F.back[t[2]]
         /\ F.opp[F.opp[t]] = t /\ F.nbr[F.opp[t]] = t[1] /\ F.nbr[t] \in F.node
         /\ t[2] \in F.start <=> F.opp[t][2] \notin F.start
         /\ F.link[F.opp[t]] = F.link[t]
<1>1. t[1] \in F.node /\ t[2] \in 0 .. F.base - 1 /\ t = <<t[1], t[2]>>
  BY DEF Woven, Sized
<1>2. /\ F.opp[t] = <<F.nbr[t], F.back[t[2]]>> /\ F.opp[t] \in F.trunk
      /\ F.nbr[F.opp[t]] = t[1] /\ F.nbr[t] \in F.node
  <2>1. F.opp[t] = Opp(F, t) /\ Opp(F, t) \in F.trunk /\ F.nbr[Opp(F, t)] = t[1] /\ F.nbr[t] \in F.node
    BY DEF Woven
  <2>2. QED
    BY <2>1 DEF Opp
<1>3. F.back[F.back[t[2]]] = t[2] /\ (t[2] \in F.start <=> F.back[t[2]] \notin F.start)
  BY <1>1 DEF Woven
<1>4. F.opp[t][1] = F.nbr[t] /\ F.opp[t][2] = F.back[t[2]]
  BY <1>2
<1>5. F.opp[F.opp[t]] = t
  <2>1. F.opp[F.opp[t]] = <<F.nbr[F.opp[t]], F.back[F.opp[t][2]]>>
    <3>1. F.opp[F.opp[t]] = Opp(F, F.opp[t])
      BY <1>2 DEF Woven
    <3>2. QED
      BY <3>1 DEF Opp
  <2>2. QED
    BY <1>1, <1>2, <1>3, <1>4, <2>1
<1>6. F.link[F.opp[t]] = F.link[t]
  <2>1. F.link[F.opp[t]] = TrunkName(F, F.opp[t]) /\ F.link[t] = TrunkName(F, t)
    BY <1>2 DEF Woven
  <2>2. QED
    BY <1>2, <1>3, <1>4, <2>1 DEF TrunkName
<1>7. QED
  BY <1>1, <1>2, <1>3, <1>4, <1>5, <1>6

\* The start of a trunk.
LEMMA WovenStart ==
  ASSUME NEW F, Woven(F), NEW t \in F.trunk
  PROVE  \E s \in F.trunk : /\ s[2] \in F.start /\ F.link[s] = F.link[t]
                            /\ {s[1], F.nbr[s]} = {t[1], F.opp[t][1]}
<1>1. CASE t[2] \in F.start
  BY <1>1, WovenEnds
<1>2. CASE t[2] \notin F.start
  <2> DEFINE s == F.opp[t]
  <2>1. s \in F.trunk /\ s[2] \in F.start /\ F.link[s] = F.link[t] /\ F.nbr[s] = t[1]
    BY <1>2, WovenEnds
  <2>2. QED
    BY <2>1
<1>3. QED
  BY <1>1, <1>2

LEMMA WovenFabric == ASSUME NEW F, Woven(F) PROVE Fabric(F)
<1> DEFINE start == {t \in F.trunk : t[2] \in F.start}
<1>1. F.opp \in [F.trunk -> F.trunk]
  <2>1. F.opp = [t \in F.trunk |-> F.opp[t]] /\ \A t \in F.trunk : F.opp[t] \in F.trunk
    BY WovenEnds DEF Woven
  <2>2. QED
    BY <2>1
<1>2. \A t \in F.trunk : F.opp[F.opp[t]] = t /\ (t \in start <=> F.opp[t] \notin start)
  BY WovenEnds
<1>3. \A t \in F.trunk : F.link[F.opp[t]] = F.link[t]
  BY WovenEnds
<1>4. ASSUME NEW t \in F.trunk \cap start, NEW u \in F.trunk \cap start, F.link[t] = F.link[u]
      PROVE  t = u
  <2>1. t[2] \in F.start /\ u[2] \in F.start
    OBVIOUS
  <2>2. F.link[t] = <<F.name[t[1]], F.name[F.nbr[t]]>> /\ F.link[u] = <<F.name[u[1]], F.name[F.nbr[u]]>>
    BY <2>1 DEF Woven, TrunkName
  <2>3. F.name[t[1]] = F.name[u[1]] /\ F.name[F.nbr[t]] = F.name[F.nbr[u]]
    <3>1. <<F.name[t[1]], F.name[F.nbr[t]]>> = <<F.name[u[1]], F.name[F.nbr[u]]>>
      BY <1>4, <2>2
    <3>2. QED
      BY <3>1, SamePair
  <2>4. t[1] = u[1] /\ F.nbr[t] = F.nbr[u]
    BY <2>3, WovenEnds DEF Woven, Named
  <2>5. t[2] = u[2]
    BY <2>1, <2>4 DEF Woven
  <2>6. t = <<t[1], t[2]>> /\ u = <<u[1], u[2]>>
    BY WovenEnds
  <2>7. QED
    BY <2>4, <2>5, <2>6
<1> HIDE DEF start
<1>5. /\ \A t \in F.trunk : F.opp[t] # t
      /\ \A t, u \in F.trunk : F.link[t] = F.link[u] <=> u \in {t, F.opp[t]}
  BY <1>1, <1>2, <1>3, <1>4, HalfLinks
<1>6. ASSUME NEW t \in F.trunk, NEW l \in Local(F) PROVE F.link[t] # EpLink(F, l)
  <2>1. F.link[t] = TrunkName(F, t) /\ t[1] \in F.node /\ F.nbr[t] \in F.node
    BY WovenEnds DEF Woven
  <2>2. F.name[t[1]] # F.ep[l] /\ F.name[F.nbr[t]] # F.ep[l]
    BY <2>1 DEF Woven, Named
  <2>3. QED
    BY <2>1, <2>2 DEF TrunkName, EpLink
<1>7. QED
  BY <1>1, <1>5, <1>6 DEF Fabric, Woven

\* Two trunks that start at different ends of the same two nodes are one.
LEMMA WovenTrunks ==
  ASSUME NEW F, Woven(F),
         \A t, u \in F.trunk : t[2] \in F.start /\ u[2] \in F.start /\ t[1] = F.nbr[u] /\ u[1] = F.nbr[t]
                               => t[1] = u[1]
  PROVE  Apart(F)
<1>1. ASSUME NEW t \in F.trunk, NEW u \in F.trunk, {t[1], F.opp[t][1]} = {u[1], F.opp[u][1]}
      PROVE  F.link[t] = F.link[u]
  <2>1. PICK s \in F.trunk : /\ s[2] \in F.start /\ F.link[s] = F.link[t]
                             /\ {s[1], F.nbr[s]} = {t[1], F.opp[t][1]}
    BY WovenStart
  <2>2. PICK r \in F.trunk : /\ r[2] \in F.start /\ F.link[r] = F.link[u]
                             /\ {r[1], F.nbr[r]} = {u[1], F.opp[u][1]}
    BY WovenStart
  <2>3. {s[1], F.nbr[s]} = {r[1], F.nbr[r]}
    BY <1>1, <2>1, <2>2
  <2>4. s[1] = r[1]
    <3>1. CASE s[1] # r[1]
      <4>1. s[1] = F.nbr[r] /\ r[1] = F.nbr[s]
        BY <2>3, <3>1
      <4>2. QED
        BY <2>1, <2>2, <4>1
    <3>2. QED
      BY <3>1
  <2>5. F.nbr[s] = F.nbr[r]
    BY <2>3, <2>4
  <2>6. s[2] = r[2]
    BY <2>1, <2>2, <2>4, <2>5 DEF Woven
  <2>7. s = r
    BY <2>4, <2>6, WovenEnds
  <2>8. QED
    BY <2>1, <2>2, <2>7
<1>2. QED
  BY <1>1 DEF Apart

\* One place on, and one back, round a ring of n.
Above(a, n) == IF a = n - 1 THEN 0 ELSE a + 1
Below(a, n) == IF a = 0 THEN n - 1 ELSE a - 1

LEMMA Around ==
  ASSUME NEW n \in Nat \ {0}, NEW a \in 0 .. n - 1
  PROVE  /\ (a + 1) % n = Above(a, n) /\ (a - 1) % n = Below(a, n)
         /\ Above(a, n) \in 0 .. n - 1 /\ Below(a, n) \in 0 .. n - 1
         /\ Above(Below(a, n), n) = a /\ Below(Above(a, n), n) = a
         /\ Above(a, n) = a <=> n = 1
         /\ Above(Above(a, n), n) = a => n = 1 \/ n = 2
<1>1. ASSUME NEW b \in Int, NEW q \in {-1, 0, 1}, NEW c \in 0 .. n - 1, b = (n * q) + c
      PROVE  b % n = c
  BY <1>1, QuotientUnique
<1>2. (a + 1) % n = Above(a, n)
  <2>1. CASE a = n - 1
    <3>1. a + 1 = (n * 1) + 0 /\ a + 1 \in Int /\ 0 \in 0 .. n - 1
      BY <2>1
    <3>2. QED
      BY <1>1, <2>1, <3>1 DEF Above
  <2>2. CASE a # n - 1
    <3>1. a + 1 = (n * 0) + (a + 1) /\ a + 1 \in Int /\ a + 1 \in 0 .. n - 1
      BY <2>2
    <3>2. QED
      BY <1>1, <2>2, <3>1 DEF Above
  <2>3. QED
    BY <2>1, <2>2
<1>3. (a - 1) % n = Below(a, n)
  <2>1. CASE a = 0
    <3>1. a - 1 = (n * (-1)) + (n - 1) /\ a - 1 \in Int /\ n - 1 \in 0 .. n - 1
      BY <2>1
    <3>2. QED
      BY <1>1, <2>1, <3>1 DEF Below
  <2>2. CASE a # 0
    <3>1. a - 1 = (n * 0) + (a - 1) /\ a - 1 \in Int /\ a - 1 \in 0 .. n - 1
      BY <2>2
    <3>2. QED
      BY <1>1, <2>2, <3>1 DEF Below
  <2>3. QED
    BY <2>1, <2>2
<1>4. /\ Above(a, n) \in 0 .. n - 1 /\ Below(a, n) \in 0 .. n - 1
      /\ Above(Below(a, n), n) = a /\ Below(Above(a, n), n) = a
      /\ Above(a, n) = a <=> n = 1
      /\ Above(Above(a, n), n) = a => n = 1 \/ n = 2
  BY DEF Above, Below
<1>5. QED
  BY <1>2, <1>3, <1>4

\* Numbers of two digits.
LEMMA MixedRadix ==
  ASSUME NEW a \in Nat, NEW b \in Nat
  PROVE  /\ \A i \in 0 .. a - 1, j \in 0 .. b - 1 : i * b + j \in 0 .. a * b - 1
         /\ \A i, k \in 0 .. a - 1, j, l \in 0 .. b - 1 : i * b + j = k * b + l => i = k /\ j = l
         /\ \A m \in 0 .. a * b - 1 : \E i \in 0 .. a - 1, j \in 0 .. b - 1 : m = i * b + j
<1>1. CASE b = 0
  <2>1. a * b = 0
    BY <1>1
  <2>2. QED
    BY <1>1, <2>1
<1>2. CASE b # 0
  <2>1. ASSUME NEW i \in 0 .. a - 1, NEW j \in 0 .. b - 1
        PROVE  i * b + j \in 0 .. a * b - 1 /\ (i * b + j) \div b = i /\ (i * b + j) % b = j
    <3>1. i + 1 <= a /\ i \in Nat /\ a - (i + 1) \in Nat
      OBVIOUS
    <3>2. i * b \in Nat /\ i * b = b * i
      BY <3>1
    <3>3. (a - (i + 1)) * b \in Nat
      BY <3>1
    <3>4. (a - (i + 1)) * b = a * b - i * b - b
      BY <3>1
    <3>5. a * b \in Nat /\ i * b + b <= a * b
      BY <3>2, <3>3, <3>4
    <3>6. i * b + j \in 0 .. a * b - 1
      BY <3>2, <3>5
    <3>7. (i * b + j) \div b = i /\ (i * b + j) % b = j
      BY <1>2, <3>1, <3>2, <3>6, QuotientUnique
    <3>8. QED
      BY <3>6, <3>7
  <2>2. ASSUME NEW m \in 0 .. a * b - 1
        PROVE  \E i \in 0 .. a - 1, j \in 0 .. b - 1 : m = i * b + j
    <3> DEFINE i == m \div b
               j == m % b
    <3>1. m \in Int /\ i \in Int /\ j \in 0 .. b - 1 /\ m = (b * i) + j
      BY <1>2
    <3> HIDE DEF i, j
    <3>2. i * b = b * i
      BY <3>1
    <3>3. ~(i < 0)
      <4> SUFFICES ASSUME i + 1 <= 0 PROVE FALSE
        BY <3>1
      <4>1. b * (i + 1) <= 0 /\ b * (i + 1) = b * i + b
        BY <3>1
      <4>2. b * i \in Int /\ b * i + b <= 0
        BY <3>1, <4>1
      <4>3. QED
        BY <1>2, <3>1, <4>2
    <3>4. ~(a <= i)
      <4> SUFFICES ASSUME i - a \in Nat PROVE FALSE
        BY <3>1
      <4>1. (i - a) * b \in Nat /\ (i - a) * b = i * b - a * b
        BY <3>1
      <4>2. i * b \in Int /\ a * b \in Int
        BY <3>1
      <4>3. a * b <= i * b
        BY <4>1, <4>2
      <4>4. QED
        BY <3>1, <3>2, <4>2, <4>3
    <3>5. QED
      BY <3>1, <3>2, <3>3, <3>4
  <2>3. QED
    BY <2>1, <2>2
<1>3. QED
  BY <1>1, <1>2

\* The place of column j of row i, counted row by row, in rows of b.
Place(i, j, b) == i * b + j

LEMMA Places ==
  ASSUME NEW a \in Nat, NEW b \in Nat, NEW c, c = a * b
  PROVE  /\ c \in Nat
         /\ \A i \in 0 .. a - 1, j \in 0 .. b - 1 : Place(i, j, b) \in 0 .. c - 1
         /\ \A i, k \in 0 .. a - 1, j, l \in 0 .. b - 1 :
              Place(i, j, b) = Place(k, l, b) => i = k /\ j = l
         /\ \A m \in 0 .. c - 1 : \E i \in 0 .. a - 1, j \in 0 .. b - 1 : m = Place(i, j, b)
<1>1. a * b \in Nat
  OBVIOUS
<1>2. /\ \A i \in 0 .. a - 1, j \in 0 .. b - 1 : i * b + j \in 0 .. a * b - 1
      /\ \A i, k \in 0 .. a - 1, j, l \in 0 .. b - 1 : i * b + j = k * b + l => i = k /\ j = l
      /\ \A m \in 0 .. a * b - 1 : \E i \in 0 .. a - 1, j \in 0 .. b - 1 : m = i * b + j
  BY MixedRadix, Zenon
<1>3. /\ \A i \in 0 .. a - 1, j \in 0 .. b - 1 : Place(i, j, b) \in 0 .. a * b - 1
      /\ \A i, k \in 0 .. a - 1, j, l \in 0 .. b - 1 :
           Place(i, j, b) = Place(k, l, b) => i = k /\ j = l
      /\ \A m \in 0 .. a * b - 1 : \E i \in 0 .. a - 1, j \in 0 .. b - 1 : m = Place(i, j, b)
  BY <1>2, Zenon DEF Place
<1>4. QED
  BY <1>1, <1>3, Zenon

-----------------------------------------------------------------------------
(* The calls for a node, in their order.                                   *)

\* The router and its trunks on ports below d.
Begun(F, n, d) ==
  {RouterCall(F, n)} \cup {TrunkCall(F, t) : t \in {u \in F.trunk : u[1] = n /\ u[2] < d}}

LEMMA HeadFirst ==
  ASSUME NEW F, Fabric(F), NEW n \in F.node
  PROVE  Makes(<<RouterCall(F, n)>>, Begun(F, n, 0), {})
<1>1. {u \in F.trunk : u[1] = n /\ u[2] < 0} = {}
  BY DEF Fabric, Sized
<1>2. Begun(F, n, 0) = {RouterCall(F, n)}
  BY <1>1 DEF Begun
<1>3. ~LinkCall(RouterCall(F, n))
  BY DEF LinkCall, RouterCall, Router, Component
<1>4. QED
  BY <1>2, <1>3, MakesOne

LEMMA HeadNext ==
  ASSUME NEW F, Fabric(F), NEW n \in F.node, NEW d \in 0 .. F.base - 1, NEW cond \in BOOLEAN, NEW c,
         cond <=> <<n, d>> \in F.trunk, cond => c = TrunkCall(F, <<n, d>>),
         NEW s, Makes(s, Begun(F, n, d), {})
  PROVE  Makes(s \o When(cond, <<c>>), Begun(F, n, d + 1), {})
<1>1. /\ RouterCall(F, n) \in Begun(F, n, d)
      /\ RouterCall(F, n).call = "Component" /\ RouterCall(F, n).name = F.name[n]
  BY DEF Begun, RouterCall, Router, Component
<1>2. d \in Int /\ \A t \in F.trunk : t = <<t[1], t[2]>> /\ t[2] \in Int
  BY DEF Fabric, Sized
<1>3. CASE cond
  <2>1. /\ LinkCall(c) /\ c.call = "addLink" /\ c.name = F.name[n] /\ c.port = <<"port", d>>
    BY <1>3 DEF TrunkCall, addLink, LinkCall, port
  <2>2. Makes(<<c>>, {c}, {F.name[n]})
    BY <2>1, MakesOne
  <2>3. c \notin Begun(F, n, d)
    <3>1. c # RouterCall(F, n)
      BY <1>1, <2>1
    <3>2. ASSUME NEW t \in F.trunk, t[2] < d PROVE c # TrunkCall(F, t)
      <4>1. TrunkCall(F, t).port = <<"port", t[2]>>
        BY DEF TrunkCall, addLink, port
      <4>2. t[2] # d
        BY <1>2, <3>2
      <4>3. QED
        BY <2>1, <4>1, <4>2
    <3>3. QED
      BY <3>1, <3>2 DEF Begun
  <2>4. Makes(s \o <<c>>, Begun(F, n, d) \cup {c}, {})
    <3>1. Begun(F, n, d) \cap {c} = {}
      BY <2>3
    <3>2. \A q \in {F.name[n]} :
            q \in {} \/ \E e \in Begun(F, n, d) : e.call = "Component" /\ e.name = q
      BY <1>1
    <3>3. QED
      BY <2>2, <3>1, <3>2, MakesMore
  <2>5. {u \in F.trunk : u[1] = n /\ u[2] < d + 1}
          = {u \in F.trunk : u[1] = n /\ u[2] < d} \cup {<<n, d>>}
    <3>1. ASSUME NEW u \in F.trunk, u[1] = n, u[2] < d + 1, ~(u[2] < d) PROVE u = <<n, d>>
      <4>1. u[2] = d
        BY <1>2, <3>1
      <4>2. QED
        BY <1>2, <3>1, <4>1
    <3>2. <<n, d>> \in F.trunk /\ d < d + 1
      BY <1>2, <1>3
    <3>3. \A u \in F.trunk : u[2] < d => u[2] < d + 1
      BY <1>2
    <3>4. QED
      BY <3>1, <3>2, <3>3
  <2>6. Begun(F, n, d + 1) = Begun(F, n, d) \cup {c}
    BY <1>3, <2>5 DEF Begun
  <2>7. When(cond, <<c>>) = <<c>>
    BY <1>3 DEF When
  <2>8. QED
    BY <2>4, <2>6, <2>7
<1>4. CASE ~cond
  <2>1. {u \in F.trunk : u[1] = n /\ u[2] < d + 1} = {u \in F.trunk : u[1] = n /\ u[2] < d}
    <3>1. ASSUME NEW u \in F.trunk, u[1] = n, u[2] < d + 1 PROVE u[2] < d
      <4>1. u[2] # d
        BY <1>2, <1>4, <3>1
      <4>2. QED
        BY <1>2, <3>1, <4>1
    <3>2. \A u \in F.trunk : u[2] < d => u[2] < d + 1
      BY <1>2
    <3>3. QED
      BY <3>1, <3>2
  <2>2. Begun(F, n, d + 1) = Begun(F, n, d)
    BY <2>1 DEF Begun
  <2>3. s \o When(cond, <<c>>) = s
    <3>1. s \in Seq(Begun(F, n, d)) /\ When(cond, <<c>>) = <<>>
      BY <1>4 DEF Makes, Lists, When
    <3>2. QED
      BY <3>1
  <2>4. QED
    BY <2>2, <2>3
<1>5. QED
  BY <1>3, <1>4

\* With all its trunks, and then with its endpoints.
LEMMA HeadAll ==
  ASSUME NEW F, Fabric(F), NEW n \in F.node, NEW s, Makes(s, Begun(F, n, F.base), {})
  PROVE  Makes(s \o FlattenSeq([k \in 1 .. F.locals |-> EpSeq(F, <<n, k - 1>>)]), NodeCalls(F, n), {})
<1>1. \A t \in F.trunk : t[2] < F.base
  BY DEF Fabric, Sized
<1>2. {u \in F.trunk : u[1] = n /\ u[2] < F.base} = {u \in F.trunk : u[1] = n}
  BY <1>1
<1>3. Begun(F, n, F.base)
        = {RouterCall(F, n)} \cup {TrunkCall(F, t) : t \in {u \in F.trunk : u[1] = n}}
  BY <1>2 DEF Begun
<1>4. QED
  BY <1>3, NodeMakes

\* What the copies of the scripts do differently.
Variant == [ids : BOOLEAN, peers : Nat, nicPort : STRING]

EpParams(id, num_peers, v) ==
  IF v.ids THEN [kind |-> "endpoint", num_peers |-> num_peers + v.peers, id |-> id]
  ELSE [kind |-> "endpoint", num_peers |-> num_peers + v.peers]

LEMMA EpParamsFacts ==
  ASSUME NEW id, NEW N, NEW v
  PROVE  LET p == EpParams(id, N, v) IN
         /\ p.kind = "endpoint" /\ p.num_peers = N + v.peers
         /\ "num_peers" \in DOMAIN p /\ "num_ports" \notin DOMAIN p /\ "local_ports" \notin DOMAIN p
         /\ v.ids => "id" \in DOMAIN p /\ p.id = id
         /\ ~v.ids => "id" \notin DOMAIN p
<1>1. CASE v.ids
  BY <1>1 DEF EpParams
<1>2. CASE ~v.ids
  BY <1>2 DEF EpParams
<1>3. QED
  BY <1>1, <1>2

LEMMA EndpointSeq ==
  ASSUME NEW F, NEW l, NEW id, NEW N, NEW v, F.params[l] = EpParams(id, N, v), F.nicPort = v.nicPort
  PROVE  Endpoint(F.ep[l], id, N, F.name[l[1]], port(F.base + F.step * l[2]), v) = EpSeq(F, l)
BY DEF Endpoint, EpSeq, EpCall, EpLink, EpParams

\* Grids of a by b routers with lp local ports each, whether the rows and columns are
\* closed to rings or not; port 0 leads north, 1 east, 2 south, 3 west.
Grid(a, b) == (0 .. a - 1) \X (0 .. b - 1)

GridNbr(a, b, t) ==
  << IF t[2] = 1 THEN Above(t[1][1], a) ELSE IF t[2] = 3 THEN Below(t[1][1], a) ELSE t[1][1],
     IF t[2] = 0 THEN Above(t[1][2], b) ELSE IF t[2] = 2 THEN Below(t[1][2], b) ELSE t[1][2] >>

GridBack == [d \in 0 .. 3 |-> IF d < 2 THEN d + 2 ELSE d - 2]

IsGrid(F, a, b, lp, v) ==
  /\ F.node = Grid(a, b)
  /\ \A n \in F.node : F.name[n] = Rtr(n[1], n[2]) /\ F.id[n] = n[2] * a + n[1]
  /\ F.base = 4 /\ F.locals = lp /\ F.step \in Nat \ {0}
  /\ F.trunk \subseteq F.node \X (0 .. 3)
  /\ F.back = GridBack /\ F.start = {0, 1}
  /\ \A t \in F.trunk : F.nbr[t] = GridNbr(a, b, t)
  /\ F.opp = [t \in F.trunk |-> F.opp[t]]
  /\ \A t \in F.trunk : F.opp[t] = Opp(F, t) /\ F.link[t] = TrunkName(F, t)
  /\ \A l \in Local(F) :
       /\ F.ep[l] = <<"ep", l[1][1], l[1][2], l[2]>>
       /\ F.params[l] = EpParams(ep_num(l[1][1], l[1][2], l[2], b, lp), a * b * lp, v)
  /\ F.nicPort = v.nicPort

\* F is the fabric of a grid whose endpoints are step port numbers apart, with these trunks.
GridOf(F, a, b, lp, v, step, trunk) == IsGrid(F, a, b, lp, v) /\ F.step = step /\ F.trunk = trunk

LEMMA GridExists ==
  ASSUME NEW a \in Nat, NEW b \in Nat, NEW lp \in Nat, NEW v, NEW step \in Nat \ {0},
         NEW trunk, trunk \subseteq Grid(a, b) \X (0 .. 3)
  PROVE  \E F : GridOf(F, a, b, lp, v, step, trunk)
<1> DEFINE node == Grid(a, b)
           local == node \X (0 .. lp - 1)
           name == [n \in node |-> Rtr(n[1], n[2])]
           id   == [n \in node |-> n[2] * a + n[1]]
           nbr  == [t \in trunk |-> GridNbr(a, b, t)]
           opp  == [t \in trunk |-> <<nbr[t], GridBack[t[2]]>>]
           link == [t \in trunk |-> IF t[2] \in {0, 1} THEN <<name[t[1]], name[nbr[t]]>>
                                    ELSE <<name[nbr[t]], name[t[1]]>>]
           ep   == [l \in local |-> <<"ep", l[1][1], l[1][2], l[2]>>]
           params == [l \in local |->
                        EpParams(ep_num(l[1][1], l[1][2], l[2], b, lp), a * b * lp, v)]
           F == [node |-> node, name |-> name, id |-> id, base |-> 4, locals |-> lp, step |-> step,
                 trunk |-> trunk, nbr |-> nbr, back |-> GridBack, start |-> {0, 1}, opp |-> opp,
                 link |-> link, ep |-> ep, params |-> params, nicPort |-> v.nicPort]
<1>1. \A n \in node : name[n] = Rtr(n[1], n[2]) /\ id[n] = n[2] * a + n[1]
  OBVIOUS
<1>2. \A t \in trunk : nbr[t] = GridNbr(a, b, t)
  OBVIOUS
<1>3. \A l \in local : /\ ep[l] = <<"ep", l[1][1], l[1][2], l[2]>>
                       /\ params[l] = EpParams(ep_num(l[1][1], l[1][2], l[2], b, lp), a * b * lp, v)
  OBVIOUS
<1>4. \A t \in trunk : link[t] = IF t[2] \in {0, 1} THEN <<name[t[1]], name[nbr[t]]>>
                                 ELSE <<name[nbr[t]], name[t[1]]>>
  OBVIOUS
<1>5. opp = [t \in trunk |-> <<nbr[t], GridBack[t[2]]>>]
  OBVIOUS
<1> HIDE DEF node, name, id, nbr, opp, link, ep, params
<1>6. /\ F.node = node /\ F.name = name /\ F.id = id /\ F.base = 4 /\ F.locals = lp /\ F.step = step
      /\ F.trunk = trunk /\ F.nbr = nbr /\ F.back = GridBack /\ F.start = {0, 1} /\ F.opp = opp
      /\ F.link = link /\ F.ep = ep /\ F.params = params /\ F.nicPort = v.nicPort
  OBVIOUS
<1> HIDE DEF F
<1>7. Local(F) = local /\ node = Grid(a, b)
  BY <1>6 DEF Local, node
<1>8. \A t \in F.trunk : F.opp[t] = Opp(F, t) /\ F.link[t] = TrunkName(F, t)
  BY <1>4, <1>5, <1>6 DEF Opp, TrunkName
<1>9. F.opp = [t \in F.trunk |-> F.opp[t]]
  BY <1>5, <1>6
<1>10. IsGrid(F, a, b, lp, v)
  BY <1>1, <1>2, <1>3, <1>6, <1>7, <1>8, <1>9 DEF IsGrid
<1>11. GridOf(F, a, b, lp, v, step, trunk)
  BY <1>6, <1>10 DEF GridOf
<1>12. QED
  BY <1>11

LEMMA GridNodes ==
  ASSUME NEW a, NEW b, NEW n \in Grid(a, b)
  PROVE  n = <<n[1], n[2]>> /\ n[1] \in 0 .. a - 1 /\ n[2] \in 0 .. b - 1
BY DEF Grid

LEMMA GridNamed ==
  ASSUME NEW a \in Nat, NEW b \in Nat, NEW lp \in Nat, NEW v \in Variant, NEW F, IsGrid(F, a, b, lp, v)
  PROVE  Sized(F) /\ Named(F)
<1>1. Sized(F)
  BY DEF IsGrid, Sized
<1>2. \A l \in Local(F) : l = <<l[1], l[2]>> /\ l[1] \in F.node
  BY DEF Local
<1>3. \A n \in F.node : n = <<n[1], n[2]>> /\ F.name[n] = <<"rtr", n[1], n[2]>>
  BY GridNodes DEF IsGrid, Rtr
<1>4. \A l \in Local(F) : F.ep[l] = <<"ep", l[1][1], l[1][2], l[2]>>
  BY DEF IsGrid
<1>5. \A m, n \in F.node : F.name[m] = F.name[n] => m = n
  BY <1>3
<1>6. ASSUME NEW l \in Local(F), NEW m \in Local(F), F.ep[l] = F.ep[m] PROVE l = m
  <2>1. l[1][1] = m[1][1] /\ l[1][2] = m[1][2] /\ l[2] = m[2]
    BY <1>4, <1>6
  <2>2. QED
    BY <1>2, <1>3, <2>1
<1>7. ASSUME NEW n \in F.node, NEW l \in Local(F) PROVE F.name[n] # F.ep[l]
  <2>1. F.name[n][1] = "rtr" /\ F.ep[l][1] = "ep"
    BY <1>3, <1>4
  <2>2. QED
    BY <2>1
<1>8. \A l \in Local(F) : F.params[l].kind = "endpoint" /\ "num_peers" \in DOMAIN F.params[l]
                          /\ "num_ports" \notin DOMAIN F.params[l]
                          /\ "local_ports" \notin DOMAIN F.params[l]
  BY EpParamsFacts DEF IsGrid
<1>9. QED
  BY <1>1, <1>5, <1>6, <1>7, <1>8 DEF Named

\* In rings of one place a router would be joined to itself twice.
LEMMA GridWoven ==
  ASSUME NEW a \in Nat, NEW b \in Nat, NEW lp \in Nat, NEW v \in Variant, NEW F, IsGrid(F, a, b, lp, v),
         \A t \in F.trunk : Opp(F, t) \in F.trunk,
         a # 1 \/ b # 1 \/ F.trunk = {}
  PROVE  Woven(F)
<1>1. ASSUME NEW t \in F.trunk
      PROVE  /\ t = <<t[1], t[2]>> /\ t[1] = <<t[1][1], t[1][2]>> /\ t[2] \in 0 .. 3
             /\ t[1][1] \in 0 .. a - 1 /\ t[1][2] \in 0 .. b - 1
             /\ a \in Nat \ {0} /\ b \in Nat \ {0} /\ F.nbr[t] = GridNbr(a, b, t)
             /\ t[1] \in Grid(a, b)
  <2>1. t \in Grid(a, b) \X (0 .. 3)
    BY DEF IsGrid
  <2>2. t = <<t[1], t[2]>> /\ t[1] \in Grid(a, b) /\ t[2] \in 0 .. 3
    BY <2>1
  <2>3. t[1] = <<t[1][1], t[1][2]>> /\ t[1][1] \in 0 .. a - 1 /\ t[1][2] \in 0 .. b - 1
    BY <2>2, GridNodes
  <2>4. QED
    BY <2>2, <2>3 DEF IsGrid
<1>2. \A d \in 0 .. F.base - 1 : F.back[F.back[d]] = d /\ (d \in F.start <=> F.back[d] \notin F.start)
  BY DEF IsGrid, GridBack
<1>3. ASSUME NEW t \in F.trunk
      PROVE  F.nbr[t] \in F.node /\ F.nbr[Opp(F, t)] = t[1]
  <2> DEFINE x == t[1][1]
             y == t[1][2]
             d == t[2]
             u == Opp(F, t)
             nx == IF d = 1 THEN Above(x, a) ELSE IF d = 3 THEN Below(x, a) ELSE x
             ny == IF d = 0 THEN Above(y, b) ELSE IF d = 2 THEN Below(y, b) ELSE y
  <2>1. F.nbr[t] = <<nx, ny>>
    BY <1>1 DEF GridNbr
  <2>2. nx \in 0 .. a - 1 /\ ny \in 0 .. b - 1
    BY <1>1, Around
  <2>3. u \in F.trunk /\ u = <<<<nx, ny>>, IF d < 2 THEN d + 2 ELSE d - 2>>
    BY <1>1, <2>1 DEF Opp, IsGrid, GridBack
  <2>4. F.nbr[t] \in F.node
    BY <2>1, <2>2 DEF IsGrid, Grid
  <2>5. F.nbr[u] = GridNbr(a, b, u)
    BY <1>1, <2>3
  <2>6. GridNbr(a, b, u) = <<x, y>>
    <3>1. /\ Above(Below(x, a), a) = x /\ Below(Above(x, a), a) = x
          /\ Above(Below(y, b), b) = y /\ Below(Above(y, b), b) = y
      BY <1>1, Around
    <3>2. u[1][1] = nx /\ u[1][2] = ny /\ u[2] = IF d < 2 THEN d + 2 ELSE d - 2
      BY <2>3
    <3> HIDE DEF u
    <3>3. d \in {0, 1, 2, 3}
      BY <1>1
    <3>4. CASE d = 0
      BY <3>1, <3>2, <3>4 DEF GridNbr
    <3>5. CASE d = 1
      BY <3>1, <3>2, <3>5 DEF GridNbr
    <3>6. CASE d = 2
      BY <3>1, <3>2, <3>6 DEF GridNbr
    <3>7. CASE d = 3
      BY <3>1, <3>2, <3>7 DEF GridNbr
    <3>8. QED
      BY <3>3, <3>4, <3>5, <3>6, <3>7
  <2>7. QED
    BY <1>1, <2>4, <2>5, <2>6
<1>4. ASSUME NEW t \in F.trunk, NEW u \in F.trunk, t[1] = u[1], F.nbr[t] = F.nbr[u],
             t[2] \in F.start, u[2] \in F.start
      PROVE  t[2] = u[2]
  <2>1. t[2] \in {0, 1} /\ u[2] \in {0, 1}
    BY <1>4 DEF IsGrid
  <2>2. ASSUME NEW r \in F.trunk, NEW s \in F.trunk, r[1] = s[1], F.nbr[r] = F.nbr[s],
               r[2] = 0, s[2] = 1
        PROVE  FALSE
    <3>1. F.nbr[r] = <<r[1][1], Above(r[1][2], b)>> /\ F.nbr[s] = <<Above(s[1][1], a), s[1][2]>>
      BY <1>1, <2>2 DEF GridNbr
    <3>2. Above(r[1][2], b) = r[1][2] /\ Above(r[1][1], a) = r[1][1]
      <4>1. <<r[1][1], Above(r[1][2], b)>> = <<Above(r[1][1], a), r[1][2]>>
        BY <2>2, <3>1
      <4>2. QED
        BY <4>1, SamePair
    <3>3. a = 1 /\ b = 1
      BY <1>1, <3>2, Around
    <3>4. QED
      BY <3>3
  <2>3. QED
    BY <1>4, <2>1, <2>2
<1>5. Sized(F) /\ Named(F)
  BY GridNamed
<1>6. /\ F.opp = [t \in F.trunk |-> F.opp[t]]
      /\ \A t \in F.trunk : F.opp[t] = Opp(F, t) /\ F.link[t] = TrunkName(F, t)
  BY DEF IsGrid
<1>7. QED
  BY <1>2, <1>3, <1>4, <1>5, <1>6, ZenonT(30) DEF Woven

\* In rings of two places two routers would be joined twice.
LEMMA GridTrunks ==
  ASSUME NEW a \in Nat, NEW b \in Nat, NEW lp \in Nat, NEW v \in Variant, NEW F, IsGrid(F, a, b, lp, v),
         Woven(F),
         \A t \in F.trunk : /\ t[2] = 1 /\ a = 2 => t[1][1] = 0
                            /\ t[2] = 0 /\ b = 2 => t[1][2] = 0
  PROVE  Apart(F)
<1>1. ASSUME NEW t \in F.trunk
      PROVE  /\ t[1] = <<t[1][1], t[1][2]>> /\ t[2] \in 0 .. 3
             /\ t[1][1] \in 0 .. a - 1 /\ t[1][2] \in 0 .. b - 1
             /\ a \in Nat \ {0} /\ b \in Nat \ {0} /\ F.nbr[t] = GridNbr(a, b, t)
  <2>1. t[1] \in Grid(a, b) /\ t[2] \in 0 .. 3 /\ F.nbr[t] = GridNbr(a, b, t)
    BY DEF IsGrid
  <2>2. t[1] = <<t[1][1], t[1][2]>> /\ t[1][1] \in 0 .. a - 1 /\ t[1][2] \in 0 .. b - 1
    BY <2>1, GridNodes
  <2>3. QED
    BY <2>1, <2>2
<1>2. ASSUME NEW t \in F.trunk, NEW u \in F.trunk, t[2] \in F.start, u[2] \in F.start,
             t[1] = F.nbr[u], u[1] = F.nbr[t]
      PROVE  t[1] = u[1]
  <2> DEFINE x == t[1][1]
             y == t[1][2]
             p == u[1][1]
             q == u[1][2]
  <2>1. t[2] \in {0, 1} /\ u[2] \in {0, 1}
    BY <1>2 DEF IsGrid
  <2>2. /\ x \in 0 .. a - 1 /\ y \in 0 .. b - 1 /\ p \in 0 .. a - 1 /\ q \in 0 .. b - 1
        /\ a \in Nat \ {0} /\ b \in Nat \ {0} /\ t[1] = <<x, y>> /\ u[1] = <<p, q>>
    BY <1>1
  <2>3. CASE t[2] = 0 /\ u[2] = 0
    <3>1. <<p, q>> = <<x, Above(y, b)>> /\ <<x, y>> = <<p, Above(q, b)>>
      BY <1>1, <1>2, <2>2, <2>3 DEF GridNbr
    <3>2. b = 1 \/ b = 2
      BY <2>2, <3>1, Around
    <3>3. y = q
      BY <2>2, <2>3, <3>2
    <3>4. QED
      BY <2>2, <3>1, <3>3
  <2>4. CASE t[2] = 1 /\ u[2] = 1
    <3>1. <<p, q>> = <<Above(x, a), y>> /\ <<x, y>> = <<Above(p, a), q>>
      BY <1>1, <1>2, <2>2, <2>4 DEF GridNbr
    <3>2. a = 1 \/ a = 2
      BY <2>2, <3>1, Around
    <3>3. x = p
      BY <2>2, <2>4, <3>2
    <3>4. QED
      BY <2>2, <3>1, <3>3
  <2>5. CASE t[2] = 0 /\ u[2] = 1
    <3>1. <<p, q>> = <<x, Above(y, b)>> /\ <<x, y>> = <<Above(p, a), q>>
      BY <1>1, <1>2, <2>2, <2>5 DEF GridNbr
    <3>2. QED
      BY <2>2, <3>1
  <2>6. CASE t[2] = 1 /\ u[2] = 0
    <3>1. <<p, q>> = <<Above(x, a), y>> /\ <<x, y>> = <<p, Above(q, b)>>
      BY <1>1, <1>2, <2>2, <2>6 DEF GridNbr
    <3>2. QED
      BY <2>2, <3>1
  <2>7. QED
    BY <2>1, <2>3, <2>4, <2>5, <2>6
<1>3. QED
  BY <1>2, WovenTrunks

\* ep_num numbers the endpoints.
LEMMA GridNumbers ==
  ASSUME NEW a \in Nat, NEW b \in Nat, NEW lp \in Nat, NEW v \in Variant, NEW F, IsGrid(F, a, b, lp, v)
  PROVE  \E num : Numbers(F, a * b * lp, num)
<1> DEFINE N == a * b * lp
           num == [l \in Local(F) |-> ep_num(l[1][1], l[1][2], l[2], b, lp)]
<1>1. ASSUME NEW l \in Local(F)
      PROVE  /\ l = <<<<l[1][1], l[1][2]>>, l[2]>> /\ l[1][1] \in 0 .. a - 1
             /\ l[1][2] \in 0 .. b - 1 /\ l[2] \in 0 .. lp - 1
  <2>1. l = <<l[1], l[2]>> /\ l[1] \in Grid(a, b) /\ l[2] \in 0 .. lp - 1
    BY DEF Local, IsGrid
  <2>2. l[1] = <<l[1][1], l[1][2]>> /\ l[1][1] \in 0 .. a - 1 /\ l[1][2] \in 0 .. b - 1
    BY <2>1, GridNodes
  <2>3. QED
    BY <2>1, <2>2
<1>2. ASSUME NEW x \in 0 .. a - 1, NEW y \in 0 .. b - 1, NEW k \in 0 .. lp - 1
      PROVE  ep_num(x, y, k, b, lp) = Place(Place(x, y, b), k, lp)
  <2>1. x \in Nat /\ y \in Nat /\ x * b \in Nat /\ x * b * lp \in Nat /\ y * lp \in Nat
    OBVIOUS
  <2>2. (x * b + y) * lp = x * b * lp + y * lp
    BY <2>1
  <2>3. QED
    BY <2>2 DEF ep_num, Place
<1>3. PICK c : c = a * b
  OBVIOUS
<1> HIDE DEF N
<1>4. N = c * lp
  BY <1>3 DEF N
<1>5. /\ c \in Nat
      /\ \A i \in 0 .. a - 1, j \in 0 .. b - 1 : Place(i, j, b) \in 0 .. c - 1
      /\ \A i, k \in 0 .. a - 1, j, l \in 0 .. b - 1 :
           Place(i, j, b) = Place(k, l, b) => i = k /\ j = l
      /\ \A m \in 0 .. c - 1 : \E i \in 0 .. a - 1, j \in 0 .. b - 1 : m = Place(i, j, b)
  BY <1>3, Places, ZenonT(60)
<1>6. /\ N \in Nat
      /\ \A i \in 0 .. c - 1, j \in 0 .. lp - 1 : Place(i, j, lp) \in 0 .. N - 1
      /\ \A i, k \in 0 .. c - 1, j, l \in 0 .. lp - 1 :
           Place(i, j, lp) = Place(k, l, lp) => i = k /\ j = l
      /\ \A m \in 0 .. N - 1 : \E i \in 0 .. c - 1, j \in 0 .. lp - 1 : m = Place(i, j, lp)
  <2>1. c \in Nat
    BY <1>5
  <2>2. QED
    BY <1>4, <2>1, Places, ZenonT(60)
<1>7. ASSUME NEW l \in Local(F)
      PROVE  num[l] = Place(Place(l[1][1], l[1][2], b), l[2], lp) /\ num[l] \in 0 .. N - 1
  <2>1. num[l] = Place(Place(l[1][1], l[1][2], b), l[2], lp)
    BY <1>1, <1>2
  <2>2. QED
    BY <1>1, <1>5, <1>6, <2>1
<1>8. ASSUME NEW l \in Local(F), NEW m \in Local(F), num[l] = num[m] PROVE l = m
  <2> DEFINE i == Place(l[1][1], l[1][2], b)
             j == Place(m[1][1], m[1][2], b)
  <2>1. i \in 0 .. c - 1 /\ j \in 0 .. c - 1 /\ Place(i, l[2], lp) = Place(j, m[2], lp)
    BY <1>1, <1>8, <1>5, <1>7
  <2>2. i = j /\ l[2] = m[2]
    <3> HIDE DEF i, j
    <3>1. l[2] \in 0 .. lp - 1 /\ m[2] \in 0 .. lp - 1
      BY <1>1
    <3>2. \A k, o \in 0 .. c - 1, r, s \in 0 .. lp - 1 :
            Place(k, r, lp) = Place(o, s, lp) => k = o /\ r = s
      BY <1>6
    <3>3. QED
      <4>1. PICK r \in 0 .. lp - 1, o \in 0 .. lp - 1 : r = l[2] /\ o = m[2]
        BY <3>1
      <4>2. PICK k \in 0 .. c - 1, s \in 0 .. c - 1 : k = i /\ s = j
        BY <2>1
      <4>3. Place(k, r, lp) = Place(s, o, lp)
        BY <2>1, <4>1, <4>2
      <4>4. k = s /\ r = o
        BY <3>2, <4>3, Zenon
      <4>5. QED
        BY <4>1, <4>2, <4>4
  <2>3. l[1][1] = m[1][1] /\ l[1][2] = m[1][2]
    BY <1>1, <1>5, <2>2
  <2>4. QED
    BY <1>1, <2>2, <2>3
<1>9. ASSUME NEW k \in 0 .. N - 1 PROVE \E l \in Local(F) : num[l] = k
  <2>1. PICK i \in 0 .. c - 1, j \in 0 .. lp - 1 : k = Place(i, j, lp)
    BY <1>6
  <2>2. PICK x \in 0 .. a - 1, y \in 0 .. b - 1 : i = Place(x, y, b)
    BY <1>5
  <2> DEFINE l == <<<<x, y>>, j>>
  <2>3. l \in Local(F)
    BY DEF Local, IsGrid, Grid
  <2>4. num[l] = k
    BY <1>7, <2>1, <2>2, <2>3
  <2>5. QED
    BY <2>3, <2>4
<1>10. \A l \in Local(F) : /\ F.params[l] = EpParams(num[l], N, v)
  BY DEF IsGrid, N
<1>11. \A l \in Local(F) : F.params[l].num_peers \in Nat /\ N <= F.params[l].num_peers
  <2>1. v.peers \in Nat /\ N + v.peers \in Nat /\ N <= N + v.peers
    BY <1>6 DEF Variant
  <2>2. \A l \in Local(F) : F.params[l].num_peers = N + v.peers
    BY <1>10, EpParamsFacts
  <2>3. QED
    BY <2>1, <2>2
<1>12. \/ \A l \in Local(F) : "id" \in DOMAIN F.params[l] /\ F.params[l].id = num[l]
      \/ \A l \in Local(F) : "id" \notin DOMAIN F.params[l]
  <2>1. CASE v.ids
    BY <1>10, <2>1, EpParamsFacts
  <2>2. CASE ~v.ids
    BY <1>10, <2>2, EpParamsFacts
  <2>3. QED
    BY <2>1, <2>2
<1>13. num \in [Local(F) -> 0 .. N - 1]
  <2>1. num = [l \in Local(F) |-> num[l]]
    OBVIOUS
  <2> HIDE DEF num
  <2>2. QED
    BY <1>7, <2>1
<1> HIDE DEF num
<1>14. Numbers(F, N, num)
  BY <1>6, <1>8, <1>9, <1>11, <1>12, <1>13 DEF Numbers
<1>15. QED
  BY <1>14 DEF N

LEMMA GridLast ==
  ASSUME NEW a \in Nat, NEW b \in Nat, NEW lp \in Nat, NEW v \in Variant, NEW F, IsGrid(F, a, b, lp, v),
         NEW n \in F.node
  PROVE  GridEndpoints(n[1], n[2], a, b, lp, F.step, v)
           = FlattenSeq([k \in 1 .. F.locals |-> EpSeq(F, <<n, k - 1>>)])
<1> DEFINE f == [k \in 1 .. lp |->
                   Endpoint(<<"ep", n[1], n[2], k - 1>>, ep_num(n[1], n[2], k - 1, b, lp), a * b * lp,
                            Rtr(n[1], n[2]), port(4 + F.step * (k - 1)), v)]
           g == [k \in 1 .. lp |-> EpSeq(F, <<n, k - 1>>)]
<1>1. GridEndpoints(n[1], n[2], a, b, lp, F.step, v) = FlattenSeq(f)
  BY DEF GridEndpoints, For
<1>2. \A k \in 1 .. lp : f[k] = g[k]
  <2> TAKE k \in 1 .. lp
  <2> DEFINE l == <<n, k - 1>>
  <2>1. l \in Local(F) /\ l[1] = n /\ l[2] = k - 1
    BY DEF Local, IsGrid
  <2>2. /\ F.ep[l] = <<"ep", n[1], n[2], k - 1>>
        /\ F.params[l] = EpParams(ep_num(n[1], n[2], k - 1, b, lp), a * b * lp, v)
        /\ F.name[l[1]] = Rtr(n[1], n[2]) /\ F.base = 4 /\ F.nicPort = v.nicPort
    BY <2>1 DEF IsGrid
  <2> HIDE DEF l
  <2>3. Endpoint(F.ep[l], ep_num(n[1], n[2], k - 1, b, lp), a * b * lp, F.name[l[1]],
                 port(F.base + F.step * l[2]), v) = EpSeq(F, l)
    BY <2>2, EndpointSeq
  <2>4. f[k] = EpSeq(F, l)
    BY <2>1, <2>2, <2>3
  <2>5. QED
    BY <2>4 DEF l
<1>3. f = g
  <2>1. f = [k \in 1 .. lp |-> f[k]] /\ g = [k \in 1 .. lp |-> g[k]]
    OBVIOUS
  <2> HIDE DEF f, g
  <2>2. [k \in 1 .. lp |-> f[k]] = [k \in 1 .. lp |-> g[k]]
    BY <1>2
  <2>3. QED
    BY <2>1, <2>2
<1>4. F.locals = lp
  BY DEF IsGrid
<1>5. QED
  BY <1>1, <1>3, <1>4

\* The calls for a router and its trunks, by port.
CallsByPort(F, a, b, lp, n) ==
  /\ RouterCall(F, n) = Router(Rtr(n[1], n[2]), n[2] * a + n[1], 4 + lp, lp)
  /\ <<n, 0>> \in F.trunk =>
       TrunkCall(F, <<n, 0>>)
         = addLink(Rtr(n[1], n[2]), <<Rtr(n[1], n[2]), Rtr(n[1], Above(n[2], b))>>, port(0))
  /\ <<n, 1>> \in F.trunk =>
       TrunkCall(F, <<n, 1>>)
         = addLink(Rtr(n[1], n[2]), <<Rtr(n[1], n[2]), Rtr(Above(n[1], a), n[2])>>, port(1))
  /\ <<n, 2>> \in F.trunk =>
       TrunkCall(F, <<n, 2>>)
         = addLink(Rtr(n[1], n[2]), <<Rtr(n[1], Below(n[2], b)), Rtr(n[1], n[2])>>, port(2))
  /\ <<n, 3>> \in F.trunk =>
       TrunkCall(F, <<n, 3>>)
         = addLink(Rtr(n[1], n[2]), <<Rtr(Below(n[1], a), n[2]), Rtr(n[1], n[2])>>, port(3))

LEMMA GridCalls ==
  ASSUME NEW a \in Nat, NEW b \in Nat, NEW lp \in Nat, NEW v \in Variant, NEW F, IsGrid(F, a, b, lp, v),
         Woven(F), NEW n \in F.node
  PROVE  CallsByPort(F, a, b, lp, n)
<1> DEFINE x == n[1]
           y == n[2]
<1>1. F.name[n] = Rtr(x, y) /\ F.id[n] = y * a + x /\ F.base = 4 /\ F.locals = lp /\ F.start = {0, 1}
  BY DEF IsGrid
<1>2. RouterCall(F, n) = Router(Rtr(x, y), y * a + x, 4 + lp, lp)
  BY <1>1 DEF RouterCall
<1>3. ASSUME NEW d \in 0 .. 3, <<n, d>> \in F.trunk, NEW p, NEW q, GridNbr(a, b, <<n, d>>) = <<p, q>>
      PROVE  TrunkCall(F, <<n, d>>)
               = addLink(Rtr(x, y), IF d \in {0, 1} THEN <<Rtr(x, y), Rtr(p, q)>>
                                    ELSE <<Rtr(p, q), Rtr(x, y)>>, port(d))
  <2> DEFINE t == <<n, d>>
  <2>1. t \in F.trunk /\ GridNbr(a, b, t) = <<p, q>>
    BY <1>3
  <2>2. t[1] = n /\ t[2] = d
    OBVIOUS
  <2> HIDE DEF t
  <2>3. F.nbr[t] = GridNbr(a, b, t) /\ F.link[t] = TrunkName(F, t)
    BY <2>1 DEF IsGrid
  <2>4. F.nbr[t] \in F.node
    BY <2>1, WovenEnds
  <2>5. F.nbr[t] = <<p, q>> /\ <<p, q>> \in F.node /\ F.link[t] = TrunkName(F, t)
    BY <2>1, <2>3, <2>4
  <2>6. F.name[<<p, q>>] = Rtr(p, q)
    <3>1. <<p, q>>[1] = p /\ <<p, q>>[2] = q
      OBVIOUS
    <3>2. QED
      BY <2>5, <3>1 DEF IsGrid
  <2>7. TrunkName(F, t) = IF d \in {0, 1} THEN <<Rtr(x, y), Rtr(p, q)>> ELSE <<Rtr(p, q), Rtr(x, y)>>
    BY <1>1, <2>5, <2>6, <2>2 DEF TrunkName
  <2>8. TrunkCall(F, t) = addLink(Rtr(x, y), TrunkName(F, t), port(d))
    BY <1>1, <2>5, <2>2 DEF TrunkCall
  <2>9. QED
    BY <2>7, <2>8 DEF t
<1>4. /\ GridNbr(a, b, <<n, 0>>) = <<x, Above(y, b)>> /\ GridNbr(a, b, <<n, 1>>) = <<Above(x, a), y>>
      /\ GridNbr(a, b, <<n, 2>>) = <<x, Below(y, b)>> /\ GridNbr(a, b, <<n, 3>>) = <<Below(x, a), y>>
  BY DEF GridNbr
<1>5. 0 \in {0, 1} /\ 1 \in {0, 1} /\ 2 \notin {0, 1} /\ 3 \notin {0, 1}
  OBVIOUS
<1> HIDE DEF x, y
<1>6. <<n, 0>> \in F.trunk =>
        TrunkCall(F, <<n, 0>>) = addLink(Rtr(x, y), <<Rtr(x, y), Rtr(x, Above(y, b))>>, port(0))
  BY <1>3, <1>4, <1>5
<1>7. <<n, 1>> \in F.trunk =>
        TrunkCall(F, <<n, 1>>) = addLink(Rtr(x, y), <<Rtr(x, y), Rtr(Above(x, a), y)>>, port(1))
  BY <1>3, <1>4, <1>5
<1>8. <<n, 2>> \in F.trunk =>
        TrunkCall(F, <<n, 2>>) = addLink(Rtr(x, y), <<Rtr(x, Below(y, b)), Rtr(x, y)>>, port(2))
  BY <1>3, <1>4, <1>5
<1>9. <<n, 3>> \in F.trunk =>
        TrunkCall(F, <<n, 3>>) = addLink(Rtr(x, y), <<Rtr(Below(x, a), y), Rtr(x, y)>>, port(3))
  BY <1>3, <1>4, <1>5
<1>10. QED
  BY <1>2, <1>6, <1>7, <1>8, <1>9 DEF x, y, CallsByPort

\* All nodes, row by row.
LEMMA GridMakes ==
  ASSUME NEW a \in Nat, NEW b \in Nat, NEW F, Fabric(F), F.node = Grid(a, b),
         NEW ss, ss = [n \in Grid(a, b) |-> ss[n]],
         \A n \in F.node : Makes(ss[n], NodeCalls(F, n), {})
  PROVE  Makes(Rows(a, b, ss), FabricCalls(F), {})
<1> DEFINE A == [n \in F.node |-> NodeCalls(F, n)]
           T == FabricCalls(F)
<1>1. \A n \in F.node : ss[n] \in Seq(NodeCalls(F, n)) /\ NodeCalls(F, n) \subseteq T
  BY DEF Makes, Lists, FabricCalls
<1>2. ss \in [Grid(a, b) -> Seq(T)]
  <2>1. \A S : S \subseteq T => Seq(S) \subseteq Seq(T)
    OBVIOUS
  <2> HIDE DEF T
  <2>2. QED
    BY <1>1, <2>1
<1>3. \A n \in Grid(a, b) : Makes(ss[n], A[n], {})
  OBVIOUS
<1>4. \A m, n \in Grid(a, b) : m # n => A[m] \cap A[n] = {}
  BY NodesApart
<1>5. \A c : c \in T <=> \E n \in Grid(a, b) : c \in A[n]
  BY DEF FabricCalls
<1> HIDE DEF A, T
<1>6. Makes(Rows(a, b, ss), T, {})
  BY <1>2, <1>3, <1>4, <1>5, MakesGrid DEF Grid
<1>7. QED
  BY <1>6 DEF T

-----------------------------------------------------------------------------
(* The meshes and tori.                                                    *)

MeshTrunks(a, b) ==
  {t \in Grid(a, b) \X (0 .. 3) : /\ t[2] = 0 => t[1][2] # b - 1
                                  /\ t[2] = 1 => t[1][1] # a - 1
                                  /\ t[2] = 2 => t[1][2] # 0
                                  /\ t[2] = 3 => t[1][1] # 0}

LEMMA MeshTrunk ==
  ASSUME NEW a \in Nat, NEW b \in Nat, NEW n \in Grid(a, b)
  PROVE  /\ <<n, 0>> \in MeshTrunks(a, b) <=> n[2] # b - 1
         /\ <<n, 1>> \in MeshTrunks(a, b) <=> n[1] # a - 1
         /\ <<n, 2>> \in MeshTrunks(a, b) <=> n[2] # 0
         /\ <<n, 3>> \in MeshTrunks(a, b) <=> n[1] # 0
<1>1. ASSUME NEW d \in 0 .. 3
      PROVE  <<n, d>> \in MeshTrunks(a, b) <=>
               /\ d = 0 => n[2] # b - 1
               /\ d = 1 => n[1] # a - 1
               /\ d = 2 => n[2] # 0
               /\ d = 3 => n[1] # 0
  <2>1. <<n, d>> \in Grid(a, b) \X (0 .. 3) /\ <<n, d>>[1] = n /\ <<n, d>>[2] = d
    OBVIOUS
  <2>2. QED
    BY <2>1 DEF MeshTrunks
<1>2. 0 \in 0 .. 3 /\ 1 \in 0 .. 3 /\ 2 \in 0 .. 3 /\ 3 \in 0 .. 3
  OBVIOUS
<1>3. <<n, 0>> \in MeshTrunks(a, b) <=> n[2] # b - 1
  BY <1>1, <1>2
<1>4. <<n, 1>> \in MeshTrunks(a, b) <=> n[1] # a - 1
  BY <1>1, <1>2
<1>5. <<n, 2>> \in MeshTrunks(a, b) <=> n[2] # 0
  BY <1>1, <1>2
<1>6. <<n, 3>> \in MeshTrunks(a, b) <=> n[1] # 0
  BY <1>1, <1>2
<1>7. QED
  BY <1>3, <1>4, <1>5, <1>6

\* Every node can be reached step by step, in a row and then in a column.
LEMMA LineFilled ==
  ASSUME NEW n \in Nat, NEW L \in SUBSET (0 .. n - 1), NEW x \in L,
         \A i \in L : (i # n - 1 => i + 1 \in L) /\ (i # 0 => i - 1 \in L)
  PROVE  L = 0 .. n - 1
<1>1. x \in Nat /\ x <= n - 1
  OBVIOUS
<1> DEFINE Up   == {i \in Nat : x + i <= n - 1 => x + i \in L}
           Down == {i \in Nat : i <= x => x - i \in L}
<1>2. 0 \in Up /\ 0 \in Down
  BY <1>1
<1>3. ASSUME NEW i \in Nat, i \in Up PROVE i + 1 \in Up
  <2> SUFFICES ASSUME x + (i + 1) <= n - 1 PROVE x + (i + 1) \in L
    OBVIOUS
  <2>1. x + i \in L /\ x + i # n - 1
    BY <1>1, <1>3
  <2>2. (x + i) + 1 \in L /\ (x + i) + 1 = x + (i + 1)
    BY <1>1, <2>1
  <2>3. QED
    BY <2>2
<1>4. ASSUME NEW i \in Nat, i \in Down PROVE i + 1 \in Down
  <2> SUFFICES ASSUME i + 1 <= x PROVE x - (i + 1) \in L
    OBVIOUS
  <2>1. x - i \in L /\ x - i # 0
    BY <1>1, <1>4
  <2>2. (x - i) - 1 \in L /\ (x - i) - 1 = x - (i + 1)
    BY <1>1, <2>1
  <2>3. QED
    BY <2>2
<1> HIDE DEF Up, Down
<1>5. \A i \in Nat : i \in Up /\ i \in Down
  BY <1>2, <1>3, <1>4, SetInduction
<1>6. ASSUME NEW y \in 0 .. n - 1 PROVE y \in L
  <2>1. CASE y >= x
    <3>1. PICK i \in Nat : y = x + i
      <4>1. y - x \in Nat /\ y = x + (y - x)
        BY <1>1, <2>1
      <4>2. QED
        BY <4>1
    <3>2. x + i <= n - 1 /\ i \in Up
      BY <1>5, <3>1
    <3>3. QED
      BY <3>1, <3>2 DEF Up
  <2>2. CASE y < x
    <3>1. PICK i \in Nat : y = x - i /\ i <= x
      <4>1. x - y \in Nat /\ y = x - (x - y) /\ x - y <= x
        BY <1>1, <2>2
      <4>2. QED
        BY <4>1
    <3>2. i \in Down
      BY <1>5
    <3>3. QED
      BY <3>1, <3>2 DEF Down
  <2>3. QED
    BY <1>1, <2>1, <2>2
<1>7. QED
  BY <1>6

LEMMA GridFilled ==
  ASSUME NEW a \in Nat, NEW b \in Nat, NEW Q \in SUBSET Grid(a, b), NEW q \in Q,
         \A n \in Q : /\ n[1] # a - 1 => <<n[1] + 1, n[2]>> \in Q
                      /\ n[1] # 0 => <<n[1] - 1, n[2]>> \in Q
                      /\ n[2] # b - 1 => <<n[1], n[2] + 1>> \in Q
                      /\ n[2] # 0 => <<n[1], n[2] - 1>> \in Q
  PROVE  Q = Grid(a, b)
<1>1. \A n \in Grid(a, b) : n[1] \in 0 .. a - 1 /\ n[2] \in 0 .. b - 1 /\ n = <<n[1], n[2]>>
  BY GridNodes
<1>2. PICK x0 \in 0 .. a - 1, y0 \in 0 .. b - 1 : q = <<x0, y0>>
  BY <1>1
<1>3. ASSUME NEW x \in 0 .. a - 1 PROVE <<x, y0>> \in Q
  <2> DEFINE L == {i \in 0 .. a - 1 : <<i, y0>> \in Q}
  <2>1. x0 \in L
    BY <1>2
  <2>2. ASSUME NEW i \in L PROVE (i # a - 1 => i + 1 \in L) /\ (i # 0 => i - 1 \in L)
    <3>1. PICK n \in Q : n = <<i, y0>>
      OBVIOUS
    <3>2. n[1] = i /\ n[2] = y0
      BY <3>1
    <3>3. (i # a - 1 => <<i + 1, y0>> \in Q) /\ (i # 0 => <<i - 1, y0>> \in Q)
      BY <3>1, <3>2
    <3>4. i \in 0 .. a - 1
      OBVIOUS
    <3>5. (i # a - 1 => i + 1 \in 0 .. a - 1) /\ (i # 0 => i - 1 \in 0 .. a - 1)
      BY <3>4
    <3>6. QED
      BY <3>3, <3>5
  <2>3. L \in SUBSET (0 .. a - 1)
    OBVIOUS
  <2> HIDE DEF L
  <2>4. L = 0 .. a - 1
    BY <2>1, <2>2, <2>3, LineFilled
  <2>5. QED
    BY <2>4 DEF L
<1>4. ASSUME NEW x \in 0 .. a - 1, NEW y \in 0 .. b - 1 PROVE <<x, y>> \in Q
  <2> DEFINE L == {i \in 0 .. b - 1 : <<x, i>> \in Q}
  <2>1. y0 \in L
    BY <1>3
  <2>2. ASSUME NEW i \in L PROVE (i # b - 1 => i + 1 \in L) /\ (i # 0 => i - 1 \in L)
    <3>1. PICK n \in Q : n = <<x, i>>
      OBVIOUS
    <3>2. n[1] = x /\ n[2] = i
      BY <3>1
    <3>3. (i # b - 1 => <<x, i + 1>> \in Q) /\ (i # 0 => <<x, i - 1>> \in Q)
      BY <3>1, <3>2
    <3>4. i \in 0 .. b - 1
      OBVIOUS
    <3>5. (i # b - 1 => i + 1 \in 0 .. b - 1) /\ (i # 0 => i - 1 \in 0 .. b - 1)
      BY <3>4
    <3>6. QED
      BY <3>3, <3>5
  <2>3. L \in SUBSET (0 .. b - 1)
    OBVIOUS
  <2> HIDE DEF L
  <2>4. L = 0 .. b - 1
    BY <2>1, <2>2, <2>3, LineFilled
  <2>5. QED
    BY <2>4 DEF L
<1>5. \A n \in Grid(a, b) : n \in Q
  BY <1>1, <1>4
<1>6. QED
  BY <1>5

\* A grid with all trunks between neighbours, whether its rows and columns are closed or not.
LEMMA GridSpanned ==
  ASSUME NEW a \in Nat, NEW b \in Nat, NEW lp, NEW v, NEW F, IsGrid(F, a, b, lp, v),
         MeshTrunks(a, b) \subseteq F.trunk
  PROVE  Spanned(F)
<1> SUFFICES ASSUME NEW Q \in SUBSET F.node, \A t \in F.trunk : t[1] \in Q => F.opp[t][1] \in Q,
                    NEW q \in Q
             PROVE  Q = F.node
  BY DEF Spanned
<1>1. F.node = Grid(a, b) /\ \A t \in F.trunk : F.opp[t][1] = GridNbr(a, b, t)
  <2>1. F.node = Grid(a, b) /\ \A t \in F.trunk : F.nbr[t] = GridNbr(a, b, t) /\ F.opp[t] = Opp(F, t)
    BY DEF IsGrid
  <2>2. \A t : Opp(F, t)[1] = F.nbr[t]
    BY DEF Opp
  <2>3. QED
    BY <2>1, <2>2
<1>2. ASSUME NEW n \in Q
      PROVE  /\ n[1] # a - 1 => <<n[1] + 1, n[2]>> \in Q
             /\ n[1] # 0 => <<n[1] - 1, n[2]>> \in Q
             /\ n[2] # b - 1 => <<n[1], n[2] + 1>> \in Q
             /\ n[2] # 0 => <<n[1], n[2] - 1>> \in Q
  <2>1. n \in Grid(a, b)
    BY <1>1
  <2>2. ASSUME NEW d \in 0 .. 3, <<n, d>> \in F.trunk PROVE GridNbr(a, b, <<n, d>>) \in Q
    <3>1. PICK t \in F.trunk : t = <<n, d>>
      BY <2>2
    <3>2. t[1] \in Q /\ F.opp[t][1] = GridNbr(a, b, t)
      BY <1>1, <3>1
    <3>3. QED
      BY <3>1, <3>2
  <2>3. n[1] # a - 1 => <<n[1] + 1, n[2]>> \in Q
    <3> SUFFICES ASSUME n[1] # a - 1 PROVE <<n[1] + 1, n[2]>> \in Q
      OBVIOUS
    <3>1. <<n, 1>> \in F.trunk
      BY <2>1 DEF MeshTrunks
    <3>2. GridNbr(a, b, <<n, 1>>) = <<n[1] + 1, n[2]>>
      BY DEF GridNbr, Above
    <3>3. QED
      BY <2>2, <3>1, <3>2
  <2>4. n[1] # 0 => <<n[1] - 1, n[2]>> \in Q
    <3> SUFFICES ASSUME n[1] # 0 PROVE <<n[1] - 1, n[2]>> \in Q
      OBVIOUS
    <3>1. <<n, 3>> \in F.trunk
      BY <2>1 DEF MeshTrunks
    <3>2. GridNbr(a, b, <<n, 3>>) = <<n[1] - 1, n[2]>>
      BY DEF GridNbr, Below
    <3>3. QED
      BY <2>2, <3>1, <3>2
  <2>5. n[2] # b - 1 => <<n[1], n[2] + 1>> \in Q
    <3> SUFFICES ASSUME n[2] # b - 1 PROVE <<n[1], n[2] + 1>> \in Q
      OBVIOUS
    <3>1. <<n, 0>> \in F.trunk
      BY <2>1 DEF MeshTrunks
    <3>2. GridNbr(a, b, <<n, 0>>) = <<n[1], n[2] + 1>>
      BY DEF GridNbr, Above
    <3>3. QED
      BY <2>2, <3>1, <3>2
  <2>6. n[2] # 0 => <<n[1], n[2] - 1>> \in Q
    <3> SUFFICES ASSUME n[2] # 0 PROVE <<n[1], n[2] - 1>> \in Q
      OBVIOUS
    <3>1. <<n, 2>> \in F.trunk
      BY <2>1 DEF MeshTrunks
    <3>2. GridNbr(a, b, <<n, 2>>) = <<n[1], n[2] - 1>>
      BY DEF GridNbr, Below
    <3>3. QED
      BY <2>2, <3>1, <3>2
  <2>7. QED
    BY <2>3, <2>4, <2>5, <2>6
<1>3. QED
  BY <1>1, <1>2, GridFilled

\* What is said of a script that makes the calls of F.
LaidOut(s, F) == Fabric(F) /\ Makes(s, FabricCalls(F), {})

LEMMA MeshLaidOut ==
  ASSUME NEW a \in Nat, NEW b \in Nat, NEW lp \in Nat, NEW v \in Variant
  PROVE  \E F : /\ IsGrid(F, a, b, lp, v) /\ F.step = 1 /\ LaidOut(Mesh(a, b, lp, v), F)
                /\ Apart(F) /\ Spanned(F)
<1>1. MeshTrunks(a, b) \subseteq Grid(a, b) \X (0 .. 3) /\ 1 \in Nat \ {0}
  BY DEF MeshTrunks
<1>2. PICK F : IsGrid(F, a, b, lp, v) /\ F.step = 1 /\ F.trunk = MeshTrunks(a, b)
  <2>1. PICK F : GridOf(F, a, b, lp, v, 1, MeshTrunks(a, b))
    BY <1>1, GridExists
  <2>2. QED
    BY <2>1 DEF GridOf
<1>3. ASSUME NEW t \in F.trunk PROVE Opp(F, t) \in F.trunk
  <2> DEFINE x == t[1][1]
             y == t[1][2]
             d == t[2]
  <2>1. t[1] \in Grid(a, b) /\ d \in 0 .. 3 /\ F.nbr[t] = GridNbr(a, b, t) /\ F.back[d] = GridBack[d]
    BY <1>2 DEF MeshTrunks, IsGrid
  <2>2. x \in 0 .. a - 1 /\ y \in 0 .. b - 1
    BY <2>1, GridNodes
  <2>3. /\ d = 0 => y # b - 1
        /\ d = 1 => x # a - 1
        /\ d = 2 => y # 0
        /\ d = 3 => x # 0
    BY <1>2 DEF MeshTrunks
  <2> DEFINE e == GridBack[d]
             p == IF d = 1 THEN Above(x, a) ELSE IF d = 3 THEN Below(x, a) ELSE x
             q == IF d = 0 THEN Above(y, b) ELSE IF d = 2 THEN Below(y, b) ELSE y
  <2>4. Opp(F, t) = <<<<p, q>>, e>>
    BY <2>1 DEF Opp, GridNbr
  <2>5. e = (IF d < 2 THEN d + 2 ELSE d - 2)
    BY <2>1 DEF GridBack
  <2> HIDE DEF x, y, d, e
  <2>6. d \in {0, 1, 2, 3}
    BY <2>1
  <2>7. <<<<p, q>>, e>> \in MeshTrunks(a, b)
    <3>1. CASE d = 0
      <4>1. p = x /\ q = y + 1 /\ e = 2 /\ y + 1 \in 0 .. b - 1 /\ y + 1 # 0
        BY <2>2, <2>3, <2>5, <3>1 DEF Above
      <4>2. <<p, q>> \in Grid(a, b) /\ <<p, q>>[2] # 0
        BY <2>2, <4>1 DEF Grid
      <4> HIDE DEF p, q
      <4>3. QED
        BY <4>1, <4>2, MeshTrunk
    <3>2. CASE d = 1
      <4>1. p = x + 1 /\ q = y /\ e = 3 /\ x + 1 \in 0 .. a - 1 /\ x + 1 # 0
        BY <2>2, <2>3, <2>5, <3>2 DEF Above
      <4>2. <<p, q>> \in Grid(a, b) /\ <<p, q>>[1] # 0
        BY <2>2, <4>1 DEF Grid
      <4> HIDE DEF p, q
      <4>3. QED
        BY <4>1, <4>2, MeshTrunk
    <3>3. CASE d = 2
      <4>1. p = x /\ q = y - 1 /\ e = 0 /\ y - 1 \in 0 .. b - 1 /\ y - 1 # b - 1
        BY <2>2, <2>3, <2>5, <3>3 DEF Below
      <4>2. <<p, q>> \in Grid(a, b) /\ <<p, q>>[2] # b - 1
        BY <2>2, <4>1 DEF Grid
      <4> HIDE DEF p, q
      <4>3. QED
        BY <4>1, <4>2, MeshTrunk
    <3>4. CASE d = 3
      <4>1. p = x - 1 /\ q = y /\ e = 1 /\ x - 1 \in 0 .. a - 1 /\ x - 1 # a - 1
        BY <2>2, <2>3, <2>5, <3>4 DEF Below
      <4>2. <<p, q>> \in Grid(a, b) /\ <<p, q>>[1] # a - 1
        BY <2>2, <4>1 DEF Grid
      <4> HIDE DEF p, q
      <4>3. QED
        BY <4>1, <4>2, MeshTrunk
    <3>5. QED
      BY <2>6, <3>1, <3>2, <3>3, <3>4
  <2>8. QED
    BY <1>2, <2>4, <2>7
<1>4. a = 1 /\ b = 1 => F.trunk = {}
  <2> SUFFICES ASSUME a = 1, b = 1, NEW t \in F.trunk PROVE FALSE
    OBVIOUS
  <2>1. t[1] \in Grid(a, b) /\ t[2] \in {0, 1, 2, 3}
    BY <1>2 DEF MeshTrunks
  <2>2. t[1][1] \in 0 .. a - 1 /\ t[1][2] \in 0 .. b - 1
    BY <2>1, GridNodes
  <2>3. t[1][1] = 0 /\ t[1][2] = 0
    BY <2>2
  <2>4. /\ t[2] = 0 => t[1][2] # b - 1
        /\ t[2] = 1 => t[1][1] # a - 1
        /\ t[2] = 2 => t[1][2] # 0
        /\ t[2] = 3 => t[1][1] # 0
    BY <1>2 DEF MeshTrunks
  <2>5. QED
    BY <2>1, <2>3, <2>4
<1>5. Woven(F) /\ Fabric(F)
  BY <1>2, <1>3, <1>4, GridWoven, WovenFabric
<1>6. Apart(F)
  <2>1. ASSUME NEW t \in F.trunk
        PROVE  /\ t[2] = 1 /\ a = 2 => t[1][1] = 0
               /\ t[2] = 0 /\ b = 2 => t[1][2] = 0
    <3>1. t[1] \in Grid(a, b)
      BY <1>2 DEF MeshTrunks
    <3>2. t[1][1] \in 0 .. a - 1 /\ t[1][2] \in 0 .. b - 1
      BY <3>1, GridNodes
    <3>3. /\ t[2] = 0 => t[1][2] # b - 1
          /\ t[2] = 1 => t[1][1] # a - 1
      BY <1>2 DEF MeshTrunks
    <3>4. QED
      BY <3>2, <3>3
  <2>2. QED
    BY <1>2, <1>5, <2>1, GridTrunks
<1>7. ASSUME NEW n \in F.node PROVE Makes(MeshNode(n[1], n[2], a, b, lp, v), NodeCalls(F, n), {})
  <2> DEFINE x == n[1]
             y == n[2]
             R == Router(Rtr(x, y), y * a + x, 4 + lp, lp)
             c0 == addLink(Rtr(x, y), <<Rtr(x, y), Rtr(x, y + 1)>>, port(0))
             c1 == addLink(Rtr(x, y), <<Rtr(x, y), Rtr(x + 1, y)>>, port(1))
             c2 == addLink(Rtr(x, y), <<Rtr(x, y - 1), Rtr(x, y)>>, port(2))
             c3 == addLink(Rtr(x, y), <<Rtr(x - 1, y), Rtr(x, y)>>, port(3))
             w0 == When(y # b - 1, <<c0>>)
             w1 == When(x # a - 1, <<c1>>)
             w2 == When(y # 0, <<c2>>)
             w3 == When(x # 0, <<c3>>)
             G == GridEndpoints(x, y, a, b, lp, 1, v)
  <2>1. n \in Grid(a, b) /\ F.base = 4
    BY <1>2 DEF IsGrid
  <2>2. n \in Grid(a, b) /\ x \in 0 .. a - 1 /\ y \in 0 .. b - 1 /\ F.base = 4
    BY <2>1, GridNodes
  <2>3. /\ y # b - 1 <=> <<n, 0>> \in F.trunk
        /\ x # a - 1 <=> <<n, 1>> \in F.trunk
        /\ y # 0 <=> <<n, 2>> \in F.trunk
        /\ x # 0 <=> <<n, 3>> \in F.trunk
    BY <1>2, <2>2, MeshTrunk
  <2>4. /\ y # b - 1 => Above(y, b) = y + 1
        /\ x # a - 1 => Above(x, a) = x + 1
        /\ y # 0 => Below(y, b) = y - 1
        /\ x # 0 => Below(x, a) = x - 1
    BY DEF Above, Below
  <2>5. /\ RouterCall(F, n) = R
        /\ y # b - 1 =>
             TrunkCall(F, <<n, 0>>) = addLink(Rtr(x, y), <<Rtr(x, y), Rtr(x, Above(y, b))>>, port(0))
        /\ x # a - 1 =>
             TrunkCall(F, <<n, 1>>) = addLink(Rtr(x, y), <<Rtr(x, y), Rtr(Above(x, a), y)>>, port(1))
        /\ y # 0 =>
             TrunkCall(F, <<n, 2>>) = addLink(Rtr(x, y), <<Rtr(x, Below(y, b)), Rtr(x, y)>>, port(2))
        /\ x # 0 =>
             TrunkCall(F, <<n, 3>>) = addLink(Rtr(x, y), <<Rtr(Below(x, a), y), Rtr(x, y)>>, port(3))
    <3>1. /\ IsGrid(F, a, b, lp, v)
          /\ Woven(F)
      BY <1>2, <1>5
    <3>2. CallsByPort(F, a, b, lp, n)
      BY <3>1, GridCalls
    <3>3. QED
      BY <2>3, <3>2 DEF CallsByPort
  <2> HIDE DEF x, y
  <2>6. /\ RouterCall(F, n) = R
        /\ y # b - 1 => c0 = TrunkCall(F, <<n, 0>>)
        /\ x # a - 1 => c1 = TrunkCall(F, <<n, 1>>)
        /\ y # 0 => c2 = TrunkCall(F, <<n, 2>>)
        /\ x # 0 => c3 = TrunkCall(F, <<n, 3>>)
    BY <2>4, <2>5
  <2> USE DEF x, y
  <2>7. G = FlattenSeq([k \in 1 .. F.locals |-> EpSeq(F, <<n, k - 1>>)])
    BY <1>2, GridLast
  <2>8. MeshNode(n[1], n[2], a, b, lp, v) = <<R>> \o w0 \o w1 \o w2 \o w3 \o G
    BY DEF MeshNode
  <2> HIDE DEF R, c0, c1, c2, c3, w0, w1, w2, w3, G, x, y
  <2>9. Makes(<<R>>, Begun(F, n, 0), {})
    BY <1>5, <2>6, HeadFirst
  <2>10. Makes(<<R>> \o w0, Begun(F, n, 1), {})
    <3>1. 0 + 1 = 1 /\ 0 \in 0 .. F.base - 1
      BY <2>2
    <3>2. QED
      BY <1>5, <2>3, <2>6, <2>9, <3>1, HeadNext DEF w0
  <2>11. Makes(<<R>> \o w0 \o w1, Begun(F, n, 2), {})
    <3>1. 1 + 1 = 2 /\ 1 \in 0 .. F.base - 1
      BY <2>2
    <3>2. QED
      BY <1>5, <2>3, <2>6, <2>10, <3>1, HeadNext DEF w1
  <2>12. Makes(<<R>> \o w0 \o w1 \o w2, Begun(F, n, 3), {})
    <3>1. 2 + 1 = 3 /\ 2 \in 0 .. F.base - 1
      BY <2>2
    <3>2. QED
      BY <1>5, <2>3, <2>6, <2>11, <3>1, HeadNext DEF w2
  <2>13. Makes(<<R>> \o w0 \o w1 \o w2 \o w3, Begun(F, n, 4), {})
    <3>1. 3 + 1 = 4 /\ 3 \in 0 .. F.base - 1
      BY <2>2
    <3>2. QED
      BY <1>5, <2>3, <2>6, <2>12, <3>1, HeadNext DEF w3
  <2>14. Makes(<<R>> \o w0 \o w1 \o w2 \o w3, Begun(F, n, F.base), {})
    BY <2>2, <2>13
  <2>15. Makes(<<R>> \o w0 \o w1 \o w2 \o w3 \o G, NodeCalls(F, n), {})
    BY <1>5, <2>7, <2>14, HeadAll
  <2>16. QED
    BY <2>8, <2>15
<1> DEFINE ss == [n \in Grid(a, b) |-> MeshNode(n[1], n[2], a, b, lp, v)]
<1>8. ss = [n \in Grid(a, b) |-> ss[n]] /\ \A n \in F.node : Makes(ss[n], NodeCalls(F, n), {})
  <2>1. F.node = Grid(a, b)
    BY <1>2 DEF IsGrid
  <2>2. QED
    BY <1>7, <2>1
<1>9. Mesh(a, b, lp, v) = Rows(a, b, ss)
  <2>1. Mesh(a, b, lp, v)
          = FlattenSeq([i \in 1 .. b |-> FlattenSeq([j \in 1 .. a |-> MeshNode(j - 1, i - 1, a, b, lp, v)])])
    BY DEF Mesh, ForGrid, For
  <2>2. \A i \in 1 .. b, j \in 1 .. a : ss[<<j - 1, i - 1>>] = MeshNode(j - 1, i - 1, a, b, lp, v)
    <3> TAKE i \in 1 .. b, j \in 1 .. a
    <3>1. <<j - 1, i - 1>> \in Grid(a, b)
      BY DEF Grid
    <3>2. QED
      BY <3>1
  <2> HIDE DEF ss
  <2>3. \A i \in 1 .. b : [j \in 1 .. a |-> ss[<<j - 1, i - 1>>]]
                            = [j \in 1 .. a |-> MeshNode(j - 1, i - 1, a, b, lp, v)]
    BY <2>2
  <2>4. QED
    BY <2>1, <2>3 DEF Rows
<1>10. Makes(Mesh(a, b, lp, v), FabricCalls(F), {})
  <2>1. F.node = Grid(a, b)
    BY <1>2 DEF IsGrid
  <2> HIDE DEF ss
  <2>2. QED
    BY <1>5, <1>8, <1>9, <2>1, GridMakes
<1>11. Spanned(F)
  BY <1>2, GridSpanned
<1>12. QED
  BY <1>2, <1>5, <1>6, <1>10, <1>11 DEF LaidOut

LEMMA OneMore ==
  ASSUME NEW S, NEW s \in Seq(S), NEW e \in S, NEW t \in Seq(S),
         Len(t) = Len(s) + 1, \A i \in 1 .. Len(s) : t[i] = s[i], t[Len(t)] = e
  PROVE  s \o <<e>> = t
<1>1. s \o <<e>> \in Seq(S) /\ Len(s \o <<e>>) = Len(t)
  OBVIOUS
<1>2. \A i \in 1 .. Len(t) : (s \o <<e>>)[i] = t[i]
  OBVIOUS
<1> DEFINE r == s \o <<e>>
<1> HIDE DEF r
<1>3. r \in Seq(S) /\ Len(r) = Len(t) /\ \A i \in 1 .. Len(r) : r[i] = t[i]
  BY <1>1, <1>2 DEF r
<1>4. r = t
  BY <1>3, SeqEqual
<1>5. QED
  BY <1>4 DEF r

LEMMA FiveCalls ==
  ASSUME NEW R, NEW c0, NEW c1, NEW c2, NEW c3
  PROVE  <<R>> \o <<c0>> \o <<c1>> \o <<c2>> \o <<c3>> = <<R, c0, c1, c2, c3>>
<1> DEFINE S == {R, c0, c1, c2, c3}
<1>1. /\ <<R>> \in Seq(S) /\ <<R, c0>> \in Seq(S) /\ <<R, c0, c1>> \in Seq(S)
      /\ <<R, c0, c1, c2>> \in Seq(S) /\ <<R, c0, c1, c2, c3>> \in Seq(S)
  OBVIOUS
<1>2. R \in S /\ c0 \in S /\ c1 \in S /\ c2 \in S /\ c3 \in S
  OBVIOUS
<1> HIDE DEF S
<1>3. <<R>> \o <<c0>> = <<R, c0>>
  <2>1. PICK s \in Seq(S), t \in Seq(S) : s = <<R>> /\ t = <<R, c0>>
    BY <1>1
  <2>2. Len(t) = Len(s) + 1 /\ (\A i \in 1 .. Len(s) : t[i] = s[i]) /\ t[Len(t)] = c0
    BY <2>1
  <2>3. s \o <<c0>> = t
    BY <1>2, <2>2, OneMore
  <2>4. QED
    BY <2>1, <2>3
<1>4. <<R, c0>> \o <<c1>> = <<R, c0, c1>>
  <2>1. PICK s \in Seq(S), t \in Seq(S) : s = <<R, c0>> /\ t = <<R, c0, c1>>
    BY <1>1
  <2>2. Len(t) = Len(s) + 1 /\ (\A i \in 1 .. Len(s) : t[i] = s[i]) /\ t[Len(t)] = c1
    BY <2>1
  <2>3. s \o <<c1>> = t
    BY <1>2, <2>2, OneMore
  <2>4. QED
    BY <2>1, <2>3
<1>5. <<R, c0, c1>> \o <<c2>> = <<R, c0, c1, c2>>
  <2>1. PICK s \in Seq(S), t \in Seq(S) : s = <<R, c0, c1>> /\ t = <<R, c0, c1, c2>>
    BY <1>1
  <2>2. Len(t) = Len(s) + 1 /\ (\A i \in 1 .. Len(s) : t[i] = s[i]) /\ t[Len(t)] = c2
    BY <2>1
  <2>3. s \o <<c2>> = t
    BY <1>2, <2>2, OneMore
  <2>4. QED
    BY <2>1, <2>3
<1>6. <<R, c0, c1, c2>> \o <<c3>> = <<R, c0, c1, c2, c3>>
  <2>1. PICK s \in Seq(S), t \in Seq(S) : s = <<R, c0, c1, c2>> /\ t = <<R, c0, c1, c2, c3>>
    BY <1>1
  <2>2. Len(t) = Len(s) + 1 /\ (\A i \in 1 .. Len(s) : t[i] = s[i]) /\ t[Len(t)] = c3
    BY <2>1
  <2>3. s \o <<c3>> = t
    BY <1>2, <2>2, OneMore
  <2>4. QED
    BY <2>1, <2>3
<1>7. QED
  BY <1>3, <1>4, <1>5, <1>6, Zenon

\* A node whose router has a trunk at each of its four other ports.
LEMMA FourTrunks ==
  ASSUME NEW F, Fabric(F), NEW n \in F.node, F.base = 4,
         \A d \in 0 .. 3 : <<n, d>> \in F.trunk
  PROVE  Makes(<<RouterCall(F, n), TrunkCall(F, <<n, 0>>), TrunkCall(F, <<n, 1>>),
                 TrunkCall(F, <<n, 2>>), TrunkCall(F, <<n, 3>>)>>, Begun(F, n, 4), {})
<1> DEFINE R  == RouterCall(F, n)
           c0 == TrunkCall(F, <<n, 0>>)
           c1 == TrunkCall(F, <<n, 1>>)
           c2 == TrunkCall(F, <<n, 2>>)
           c3 == TrunkCall(F, <<n, 3>>)
<1>1. ASSUME NEW d \in 0 .. 3, NEW s, Makes(s, Begun(F, n, d), {})
      PROVE  Makes(s \o <<TrunkCall(F, <<n, d>>)>>, Begun(F, n, d + 1), {})
  <2>1. d \in 0 .. F.base - 1 /\ <<n, d>> \in F.trunk
    OBVIOUS
  <2>2. PICK c : c = TrunkCall(F, <<n, d>>)
    OBVIOUS
  <2>3. Makes(s \o When(TRUE, <<c>>), Begun(F, n, d + 1), {})
    BY <1>1, <2>1, <2>2, HeadNext
  <2>4. When(TRUE, <<c>>) = <<c>>
    BY DEF When
  <2>5. QED
    BY <2>2, <2>3, <2>4
<1>2. Makes(<<R>>, Begun(F, n, 0), {})
  BY HeadFirst
<1>3. /\ 0 \in 0 .. 3 /\ 0 + 1 = 1 /\ 1 \in 0 .. 3 /\ 1 + 1 = 2
      /\ 2 \in 0 .. 3 /\ 2 + 1 = 3 /\ 3 \in 0 .. 3 /\ 3 + 1 = 4
  OBVIOUS
<1>4. Makes(<<R>> \o <<c0>>, Begun(F, n, 1), {})
  BY <1>1, <1>2, <1>3
<1>5. Makes(<<R>> \o <<c0>> \o <<c1>>, Begun(F, n, 2), {})
  BY <1>1, <1>3, <1>4
<1>6. Makes(<<R>> \o <<c0>> \o <<c1>> \o <<c2>>, Begun(F, n, 3), {})
  BY <1>1, <1>3, <1>5
<1>7. Makes(<<R>> \o <<c0>> \o <<c1>> \o <<c2>> \o <<c3>>, Begun(F, n, 4), {})
  BY <1>1, <1>3, <1>6
<1> HIDE DEF R, c0, c1, c2, c3
<1>8. <<R>> \o <<c0>> \o <<c1>> \o <<c2>> \o <<c3>> = <<R, c0, c1, c2, c3>>
  BY FiveCalls
<1>9. QED
  BY <1>7, <1>8 DEF R, c0, c1, c2, c3

TorusTrunks(a, b) == Grid(a, b) \X (0 .. 3)

LEMMA TorusFabric ==
  ASSUME NEW a \in Nat, NEW b \in Nat, NEW lp \in Nat, NEW v \in Variant, a # 1 \/ b # 1
  PROVE  \E F : /\ IsGrid(F, a, b, lp, v) /\ F.step = 2 /\ F.trunk = TorusTrunks(a, b)
                /\ Woven(F) /\ Fabric(F) /\ Spanned(F)
                /\ a # 2 /\ b # 2 => Apart(F)
<1>1. TorusTrunks(a, b) \subseteq Grid(a, b) \X (0 .. 3) /\ 2 \in Nat \ {0}
  BY DEF TorusTrunks
<1>2. PICK F : IsGrid(F, a, b, lp, v) /\ F.step = 2 /\ F.trunk = TorusTrunks(a, b)
  <2>1. PICK F : GridOf(F, a, b, lp, v, 2, TorusTrunks(a, b))
    BY <1>1, GridExists
  <2>2. QED
    BY <2>1 DEF GridOf
<1>3. ASSUME NEW t \in F.trunk PROVE Opp(F, t) \in F.trunk
  <2> DEFINE x == t[1][1]
             y == t[1][2]
             d == t[2]
             e == GridBack[d]
             p == IF d = 1 THEN Above(x, a) ELSE IF d = 3 THEN Below(x, a) ELSE x
             q == IF d = 0 THEN Above(y, b) ELSE IF d = 2 THEN Below(y, b) ELSE y
  <2>1. t[1] \in Grid(a, b) /\ d \in 0 .. 3 /\ F.nbr[t] = GridNbr(a, b, t) /\ F.back[d] = GridBack[d]
    BY <1>2 DEF TorusTrunks, IsGrid
  <2>2. x \in 0 .. a - 1 /\ y \in 0 .. b - 1
    BY <2>1, GridNodes
  <2>3. Opp(F, t) = <<<<p, q>>, e>>
    BY <2>1 DEF Opp, GridNbr
  <2>4. e \in 0 .. 3
    BY <2>1 DEF GridBack
  <2>5. Above(x, a) \in 0 .. a - 1 /\ Below(x, a) \in 0 .. a - 1
    <3>1. a \in Nat \ {0}
      BY <2>2
    <3> HIDE DEF x
    <3>2. QED
      BY <2>2, <3>1, Around
  <2>6. Above(y, b) \in 0 .. b - 1 /\ Below(y, b) \in 0 .. b - 1
    <3>1. b \in Nat \ {0}
      BY <2>2
    <3> HIDE DEF y
    <3>2. QED
      BY <2>2, <3>1, Around
  <2>7. p \in 0 .. a - 1 /\ q \in 0 .. b - 1
    <3> HIDE DEF x, y, d
    <3>1. QED
      BY <2>2, <2>5, <2>6
  <2> HIDE DEF p, q, e
  <2>8. <<<<p, q>>, e>> \in TorusTrunks(a, b)
    BY <2>4, <2>7 DEF TorusTrunks, Grid
  <2>9. QED
    BY <1>2, <2>3, <2>8
<1>4. Woven(F) /\ Fabric(F)
  BY <1>2, <1>3, GridWoven, WovenFabric
<1>5. a # 2 /\ b # 2 => Apart(F)
  BY <1>2, <1>4, GridTrunks
<1>6. Spanned(F)
  <2>1. MeshTrunks(a, b) \subseteq F.trunk
    BY <1>2 DEF MeshTrunks, TorusTrunks
  <2>2. QED
    BY <1>2, <2>1, GridSpanned
<1>7. QED
  BY <1>2, <1>4, <1>5, <1>6

\* The links the scripts name by the modulus are those to the nodes above and below.
LEMMA RingLinks ==
  ASSUME NEW a \in Nat, NEW b \in Nat, NEW n \in Grid(a, b)
  PROVE  /\ North(n[1], n[2], b) = <<Rtr(n[1], n[2]), Rtr(n[1], Above(n[2], b))>>
         /\ East(n[1], n[2], a) = <<Rtr(n[1], n[2]), Rtr(Above(n[1], a), n[2])>>
         /\ South(n[1], n[2], b) = <<Rtr(n[1], Below(n[2], b)), Rtr(n[1], n[2])>>
         /\ West(n[1], n[2], a) = <<Rtr(Below(n[1], a), n[2]), Rtr(n[1], n[2])>>
<1>1. n[1] \in 0 .. a - 1 /\ n[2] \in 0 .. b - 1
  BY GridNodes
<1>2. /\ (n[2] + 1) % b = Above(n[2], b) /\ (n[2] - 1) % b = Below(n[2], b)
      /\ (Below(n[2], b) + 1) % b = n[2]
  <2>1. PICK y \in 0 .. b - 1 : y = n[2]
    BY <1>1
  <2>2. b \in Nat \ {0}
    BY <2>1
  <2>3. /\ (y + 1) % b = Above(y, b) /\ (y - 1) % b = Below(y, b)
        /\ Below(y, b) \in 0 .. b - 1 /\ Above(Below(y, b), b) = y
    BY <2>1, <2>2, Around
  <2>4. (Below(y, b) + 1) % b = Above(Below(y, b), b)
    BY <2>2, <2>3, Around
  <2>5. QED
    BY <2>1, <2>3, <2>4
<1>3. /\ (n[1] + 1) % a = Above(n[1], a) /\ (n[1] - 1) % a = Below(n[1], a)
      /\ (Below(n[1], a) + 1) % a = n[1]
  <2>1. PICK x \in 0 .. a - 1 : x = n[1]
    BY <1>1
  <2>2. a \in Nat \ {0}
    BY <2>1
  <2>3. /\ (x + 1) % a = Above(x, a) /\ (x - 1) % a = Below(x, a)
        /\ Below(x, a) \in 0 .. a - 1 /\ Above(Below(x, a), a) = x
    BY <2>1, <2>2, Around
  <2>4. (Below(x, a) + 1) % a = Above(Below(x, a), a)
    BY <2>2, <2>3, Around
  <2>5. QED
    BY <2>1, <2>3, <2>4
<1>4. /\ North(n[1], n[2], b) = <<Rtr(n[1], n[2]), Rtr(n[1], Above(n[2], b))>>
      /\ East(n[1], n[2], a) = <<Rtr(n[1], n[2]), Rtr(Above(n[1], a), n[2])>>
      /\ South(n[1], n[2], b) = <<Rtr(n[1], Below(n[2], b)), Rtr(n[1], n[2])>>
      /\ West(n[1], n[2], a) = <<Rtr(Below(n[1], a), n[2]), Rtr(n[1], n[2])>>
  BY <1>2, <1>3 DEF North, East, South, West
<1>5. QED
  BY <1>4

LEMMA TorusLaidOut ==
  ASSUME NEW a \in Nat, NEW b \in Nat, NEW lp \in Nat, NEW v \in Variant, a # 1 \/ b # 1
  PROVE  \E F : /\ IsGrid(F, a, b, lp, v) /\ F.step = 2 /\ LaidOut(Torus(a, b, lp, v), F)
                /\ Spanned(F)
                /\ a # 2 /\ b # 2 => Apart(F)
<1>1. PICK F : /\ IsGrid(F, a, b, lp, v) /\ F.step = 2 /\ F.trunk = TorusTrunks(a, b)
               /\ Woven(F) /\ Fabric(F) /\ Spanned(F)
               /\ a # 2 /\ b # 2 => Apart(F)
  BY TorusFabric
<1>2. IsGrid(F, a, b, lp, v) /\ F.step = 2 /\ F.trunk = TorusTrunks(a, b)
  BY <1>1
<1>3. \A n \in F.node : n \in Grid(a, b) /\ n[1] \in 0 .. a - 1 /\ n[2] \in 0 .. b - 1 /\ n = <<n[1], n[2]>>
  <2>1. F.node = Grid(a, b)
    BY <1>2 DEF IsGrid
  <2>2. QED
    BY <2>1, GridNodes
<1>4. Woven(F) /\ Fabric(F)
  BY <1>1
<1>5. a # 2 /\ b # 2 => Apart(F)
  BY <1>1
<1>6. ASSUME NEW n \in F.node PROVE Makes(TorusNode(n[1], n[2], a, b, lp, v), NodeCalls(F, n), {})
  <2> DEFINE G == GridEndpoints(n[1], n[2], a, b, lp, 2, v)
             t0 == TrunkCall(F, <<n, 0>>)
             t1 == TrunkCall(F, <<n, 1>>)
             t2 == TrunkCall(F, <<n, 2>>)
             t3 == TrunkCall(F, <<n, 3>>)
  <2>1. F.base = 4 /\ \A d \in 0 .. 3 : <<n, d>> \in F.trunk
    BY <1>2, <1>3 DEF IsGrid, TorusTrunks
  <2>2. /\ IsGrid(F, a, b, lp, v)
        /\ Woven(F)
    BY <1>2, <1>4
  <2>3. CallsByPort(F, a, b, lp, n)
    BY <2>2, GridCalls
  <2>4. /\ North(n[1], n[2], b) = <<Rtr(n[1], n[2]), Rtr(n[1], Above(n[2], b))>>
        /\ East(n[1], n[2], a) = <<Rtr(n[1], n[2]), Rtr(Above(n[1], a), n[2])>>
        /\ South(n[1], n[2], b) = <<Rtr(n[1], Below(n[2], b)), Rtr(n[1], n[2])>>
        /\ West(n[1], n[2], a) = <<Rtr(Below(n[1], a), n[2]), Rtr(n[1], n[2])>>
    BY <1>3, RingLinks
  <2>5. /\ RouterCall(F, n) = Router(Rtr(n[1], n[2]), n[2] * a + n[1], 4 + lp, lp)
        /\ t0 = addLink(Rtr(n[1], n[2]), North(n[1], n[2], b), port(0))
        /\ t1 = addLink(Rtr(n[1], n[2]), East(n[1], n[2], a), port(1))
        /\ t2 = addLink(Rtr(n[1], n[2]), South(n[1], n[2], b), port(2))
        /\ t3 = addLink(Rtr(n[1], n[2]), West(n[1], n[2], a), port(3))
    BY <2>1, <2>3, <2>4 DEF CallsByPort
  <2>6. TorusNode(n[1], n[2], a, b, lp, v) = <<RouterCall(F, n), t0, t1, t2, t3>> \o G
    BY <2>5 DEF TorusNode
  <2>7. G = FlattenSeq([k \in 1 .. F.locals |-> EpSeq(F, <<n, k - 1>>)])
    BY <1>2, GridLast
  <2>8. Makes(<<RouterCall(F, n), t0, t1, t2, t3>>, Begun(F, n, 4), {})
    BY <1>4, <2>1, FourTrunks
  <2> HIDE DEF G, t0, t1, t2, t3
  <2>9. Makes(<<RouterCall(F, n), t0, t1, t2, t3>>, Begun(F, n, F.base), {})
    BY <2>1, <2>8
  <2>10. Makes(<<RouterCall(F, n), t0, t1, t2, t3>> \o G, NodeCalls(F, n), {})
    BY <1>4, <2>7, <2>9, HeadAll
  <2>11. QED
    BY <2>6, <2>10
<1> DEFINE ss == [n \in Grid(a, b) |-> TorusNode(n[1], n[2], a, b, lp, v)]
<1>7. ss = [n \in Grid(a, b) |-> ss[n]] /\ \A n \in F.node : Makes(ss[n], NodeCalls(F, n), {})
  <2>1. F.node = Grid(a, b)
    BY <1>2 DEF IsGrid
  <2>2. QED
    BY <1>6, <2>1
<1>8. Torus(a, b, lp, v) = Rows(a, b, ss)
  <2>1. Torus(a, b, lp, v)
          = FlattenSeq([i \in 1 .. b |-> FlattenSeq([j \in 1 .. a |-> TorusNode(j - 1, i - 1, a, b, lp, v)])])
    BY DEF Torus, ForGrid, For
  <2>2. \A i \in 1 .. b, j \in 1 .. a : ss[<<j - 1, i - 1>>] = TorusNode(j - 1, i - 1, a, b, lp, v)
    <3> TAKE i \in 1 .. b, j \in 1 .. a
    <3>1. <<j - 1, i - 1>> \in Grid(a, b)
      BY DEF Grid
    <3>2. QED
      BY <3>1
  <2> HIDE DEF ss
  <2>3. \A i \in 1 .. b : [j \in 1 .. a |-> ss[<<j - 1, i - 1>>]]
                            = [j \in 1 .. a |-> TorusNode(j - 1, i - 1, a, b, lp, v)]
    BY <2>2
  <2>4. QED
    BY <2>1, <2>3 DEF Rows
<1>9. Makes(Torus(a, b, lp, v), FabricCalls(F), {})
  <2>1. F.node = Grid(a, b)
    BY <1>2 DEF IsGrid
  <2> HIDE DEF ss
  <2>2. QED
    BY <1>4, <1>7, <1>8, <2>1, GridMakes
<1>10. QED
  BY <1>1, <1>2, <1>4, <1>5, <1>9 DEF LaidOut

-----------------------------------------------------------------------------
(* The torus whose links end at the next free ports, without endpoints.    *)

BareRouter(F, n)  == Component(F.name[n], [kind |-> "router"])
NextCall(F, p, t) == addNextLink(F.name[t[1]], F.link[t], p)

BareNode(F, p, n) == {BareRouter(F, n)} \cup {NextCall(F, p, <<n, d>>) : d \in 0 .. 3}
BareCalls(F, p)   == UNION {BareNode(F, p, n) : n \in F.node}

\* Each node has four trunks, to other nodes.
Ringed(F) == Fabric(F) /\ F.trunk = F.node \X (0 .. 3) /\ \A t \in F.trunk : F.opp[t][1] # t[1]

LEMMA BareCases ==
  ASSUME NEW F, Ringed(F), NEW p, NEW c \in BareCalls(F, p)
  PROVE  \/ \E n \in F.node : c = BareRouter(F, n) /\ ~LinkCall(c)
         \/ \E t \in F.trunk : /\ c = NextCall(F, p, t) /\ LinkCall(c) /\ c.call = "addNextLink"
                               /\ c.name = F.name[t[1]] /\ c.link = F.link[t] /\ t[1] \in F.node
<1>1. PICK n \in F.node : c \in BareNode(F, p, n)
  BY DEF BareCalls
<1>2. CASE c = BareRouter(F, n)
  BY <1>2 DEF BareRouter, Component, LinkCall
<1>3. CASE \E d \in 0 .. 3 : c = NextCall(F, p, <<n, d>>)
  <2>1. PICK d \in 0 .. 3 : c = NextCall(F, p, <<n, d>>)
    BY <1>3
  <2>2. PICK t \in F.trunk : t = <<n, d>>
    BY DEF Ringed
  <2>3. t[1] = n
    BY <2>2
  <2>4. c = NextCall(F, p, t)
    BY <2>1, <2>2
  <2>5. c.call = "addNextLink" /\ c.name = F.name[t[1]] /\ c.link = F.link[t]
    BY <2>4 DEF NextCall, addNextLink
  <2>6. QED
    BY <2>3, <2>4, <2>5 DEF LinkCall
<1>4. QED
  BY <1>1, <1>2, <1>3 DEF BareNode

LEMMA BareHas ==
  ASSUME NEW F, Ringed(F), NEW p
  PROVE  /\ \A n \in F.node : BareRouter(F, n) \in BareCalls(F, p)
         /\ \A t \in F.trunk : NextCall(F, p, t) \in BareCalls(F, p)
<1>1. ASSUME NEW t \in F.trunk PROVE NextCall(F, p, t) \in BareCalls(F, p)
  <2>1. PICK n \in F.node, d \in 0 .. 3 : t = <<n, d>>
    BY DEF Ringed
  <2>2. NextCall(F, p, t) \in BareNode(F, p, n)
    BY <2>1 DEF BareNode
  <2>3. QED
    BY <2>2 DEF BareCalls
<1>2. QED
  BY <1>1 DEF BareCalls, BareNode

\* No two trunks make the same call.
LEMMA BareOnce ==
  ASSUME NEW F, Ringed(F), NEW p, NEW t \in F.trunk, NEW u \in F.trunk,
         NextCall(F, p, t) = NextCall(F, p, u)
  PROVE  t = u
<1>1. F.name[t[1]] = F.name[u[1]] /\ F.link[t] = F.link[u]
  BY DEF NextCall, addNextLink
<1>2. t[1] \in F.node /\ u[1] \in F.node
  BY DEF Ringed
<1>3. t[1] = u[1]
  BY <1>1, <1>2 DEF Ringed, Fabric, Named
<1>4. u \in {t, F.opp[t]}
  BY <1>1 DEF Ringed, Fabric
<1>5. QED
  BY <1>3, <1>4 DEF Ringed

LEMMA BarePaired == ASSUME NEW F, Ringed(F), NEW p PROVE Paired(BareCalls(F, p))
<1> DEFINE T == BareCalls(F, p)
<1> SUFFICES ASSUME NEW c \in T, LinkCall(c)
             PROVE  \E d \in T \ {c} : /\ LinkCall(d) /\ d.link = c.link
                                       /\ \A e \in T : LinkCall(e) /\ e.link = c.link => e \in {c, d}
  BY DEF Paired
<1>1. PICK t \in F.trunk : c = NextCall(F, p, t) /\ c.link = F.link[t]
  BY BareCases
<1>2. F.opp[t] \in F.trunk /\ F.opp[t] # t /\ \A u \in F.trunk : F.link[t] = F.link[u] <=> u \in {t, F.opp[t]}
  BY DEF Ringed, Fabric
<1> DEFINE d == NextCall(F, p, F.opp[t])
<1>3. d \in T /\ d.link = F.link[t] /\ LinkCall(d)
  BY <1>2, BareHas DEF NextCall, addNextLink, LinkCall
<1>4. d # c
  BY <1>1, <1>2, BareOnce
<1>5. ASSUME NEW e \in T, LinkCall(e), e.link = c.link PROVE e \in {c, d}
  <2>1. PICK u \in F.trunk : e = NextCall(F, p, u) /\ e.link = F.link[u]
    BY <1>5, BareCases
  <2>2. QED
    BY <1>1, <1>2, <1>5, <2>1
<1> HIDE DEF d, T
<1>6. QED
  BY <1>1, <1>3, <1>4, <1>5

LEMMA BareFits ==
  ASSUME NEW F, Ringed(F), NEW p
  PROVE  /\ Simple(BareCalls(F, p)) /\ OncePerPort(BareCalls(F, p)) /\ PortsFit(BareCalls(F, p))
         /\ Apart(F) => SingleTrunks(BareCalls(F, p))
         /\ \E number : PeersFit(BareCalls(F, p), 0, number)
<1> DEFINE T == BareCalls(F, p)
<1>1. ASSUME NEW c \in T
      PROVE  /\ c.call = "Component" \/ (LinkCall(c) /\ c.call = "addNextLink")
             /\ c.call = "Component" => \E n \in F.node : c = BareRouter(F, n)
  <2>1. CASE \E n \in F.node : c = BareRouter(F, n)
    BY <2>1 DEF BareRouter, Component
  <2>2. CASE LinkCall(c) /\ c.call = "addNextLink"
    BY <2>2
  <2>3. QED
    BY <2>1, <2>2, BareCases
<1>2. Simple(T)
  BY <1>1 DEF Simple
<1>3. OncePerPort(T)
  <2>1. \A c \in T : LinkCall(c) => c.call = "addNextLink"
    BY <1>1 DEF LinkCall
  <2>2. QED
    BY <2>1 DEF OncePerPort
<1>4. \A n \in F.node : /\ BareRouter(F, n).params = [kind |-> "router"]
                        /\ BareRouter(F, n).name = F.name[n]
  BY DEF BareRouter, Component
<1>5. PortsFit(T)
  <2>1. \A c \in T : c.call = "Component" => c.params = [kind |-> "router"]
    BY <1>1, <1>4
  <2>2. DOMAIN [kind |-> "router"] = {"kind"}
    OBVIOUS
  <2>3. "num_ports" \notin {"kind"} /\ "local_ports" \notin {"kind"}
    OBVIOUS
  <2>4. \A c \in T : c.call = "Component" =>
          "num_ports" \notin DOMAIN c.params /\ "local_ports" \notin DOMAIN c.params
    BY <2>1, <2>2, <2>3
  <2> HIDE DEF T
  <2>5. QED
    BY <2>4 DEF PortsFit
<1>6. ASSUME Apart(F) PROVE SingleTrunks(T)
  <2>1. ASSUME NEW b \in T, NEW c \in T, LinkCall(b), LinkCall(c), b # c, b.link = c.link
        PROVE  \E t \in F.trunk : /\ b.link = F.link[t] /\ F.opp[t] \in F.trunk
                                  /\ b.name = F.name[t[1]] /\ c.name = F.name[F.opp[t][1]]
    <3>1. PICK t \in F.trunk : b = NextCall(F, p, t) /\ b.link = F.link[t] /\ b.name = F.name[t[1]]
      BY <2>1, BareCases
    <3>2. PICK u \in F.trunk : c = NextCall(F, p, u) /\ c.link = F.link[u] /\ c.name = F.name[u[1]]
      BY <2>1, BareCases
    <3>3. u \in {t, F.opp[t]} /\ F.opp[t] \in F.trunk
      BY <2>1, <3>1, <3>2 DEF Ringed, Fabric
    <3>4. u # t
      BY <2>1, <3>1, <3>2
    <3>5. QED
      BY <3>1, <3>2, <3>3, <3>4
  <2> SUFFICES ASSUME NEW b \in T, NEW c \in T, NEW d \in T, NEW e \in T,
                      \A f \in {b, c, d, e} : LinkCall(f) /\ IsRouter(T, f.name),
                      b # c, b.link = c.link, d # e, d.link = e.link,
                      {b.name, c.name} = {d.name, e.name}
               PROVE  b.link = d.link
    BY DEF SingleTrunks, T
  <2>2. PICK t \in F.trunk : /\ b.link = F.link[t] /\ F.opp[t] \in F.trunk
                             /\ b.name = F.name[t[1]] /\ c.name = F.name[F.opp[t][1]]
    BY <2>1
  <2>3. PICK u \in F.trunk : /\ d.link = F.link[u] /\ F.opp[u] \in F.trunk
                             /\ d.name = F.name[u[1]] /\ e.name = F.name[F.opp[u][1]]
    BY <2>1
  <2>4. {t[1], F.opp[t][1]} = {u[1], F.opp[u][1]}
    <3> DEFINE i == t[1]
               j == F.opp[t][1]
               k == u[1]
               l == F.opp[u][1]
    <3>1. i \in F.node /\ j \in F.node /\ k \in F.node /\ l \in F.node
      BY <2>2, <2>3 DEF Ringed
    <3>2. {F.name[i], F.name[j]} = {F.name[k], F.name[l]}
      BY <2>2, <2>3
    <3> HIDE DEF i, j, k, l
    <3>3. \A m, n \in F.node : F.name[m] = F.name[n] => m = n
      BY DEF Ringed, Fabric, Named
    <3>4. \/ F.name[i] = F.name[k] /\ F.name[j] = F.name[l]
          \/ F.name[i] = F.name[l] /\ F.name[j] = F.name[k]
      BY <3>2
    <3>5. \/ i = k /\ j = l
          \/ i = l /\ j = k
      BY <3>1, <3>3, <3>4
    <3>6. {i, j} = {k, l}
      BY <3>5
    <3>7. QED
      BY <3>6 DEF i, j, k, l
  <2>5. QED
    BY <1>6, <2>2, <2>3, <2>4 DEF Apart
<1>7. \E number : PeersFit(T, 0, number)
  <2>1. Peers(T) = {}
    <3>1. \A c \in T : c.call = "Component" => c.params.kind # "endpoint"
      BY <1>1, <1>4
    <3>2. QED
      BY <3>1 DEF Peers
  <2>2. NumberedPeers(T) = {}
    BY <2>1 DEF NumberedPeers
  <2>3. ASSUME NEW c \in T, NEW d \in T, c.call = "Component", d.call = "Component", c.name = d.name
        PROVE  c = d
    <3>1. PICK m \in F.node, n \in F.node : c = BareRouter(F, m) /\ d = BareRouter(F, n)
      BY <1>1, <2>3
    <3>2. F.name[m] = F.name[n]
      BY <1>4, <2>3, <3>1
    <3>3. m = n
      BY <3>2 DEF Ringed, Fabric, Named
    <3>4. QED
      BY <3>1, <3>3
  <2> DEFINE number == [c \in Peers(T) |-> 0]
  <2>4. number \in [Peers(T) -> 0 .. 0 - 1]
    BY <2>1
  <2> HIDE DEF T, number
  <2>5. PeersFit(T, 0, number)
    BY <2>1, <2>2, <2>3, <2>4 DEF PeersFit
  <2>6. QED
    BY <2>5
<1>8. QED
  BY <1>2, <1>3, <1>5, <1>6, <1>7

\* The calls for one router; North and South come before East and West.
LEMMA BareNodeMakes ==
  ASSUME NEW F, Ringed(F), NEW p, NEW n \in F.node
  PROVE  Makes(<<BareRouter(F, n), NextCall(F, p, <<n, 0>>), NextCall(F, p, <<n, 2>>),
                 NextCall(F, p, <<n, 1>>), NextCall(F, p, <<n, 3>>)>>, BareNode(F, p, n), {})
<1> DEFINE R  == BareRouter(F, n)
           c0 == NextCall(F, p, <<n, 0>>)
           c1 == NextCall(F, p, <<n, 2>>)
           c2 == NextCall(F, p, <<n, 1>>)
           c3 == NextCall(F, p, <<n, 3>>)
<1>1. /\ <<n, 0>> \in F.trunk /\ <<n, 1>> \in F.trunk /\ <<n, 2>> \in F.trunk /\ <<n, 3>> \in F.trunk
      /\ <<n, 0>> # <<n, 1>> /\ <<n, 0>> # <<n, 2>> /\ <<n, 0>> # <<n, 3>>
      /\ <<n, 1>> # <<n, 2>> /\ <<n, 1>> # <<n, 3>> /\ <<n, 2>> # <<n, 3>>
  BY DEF Ringed
<1>2. c0 # c1 /\ c0 # c2 /\ c0 # c3 /\ c1 # c2 /\ c1 # c3 /\ c2 # c3
  <2>1. c0 # c1
    BY <1>1, BareOnce
  <2>2. c0 # c2
    BY <1>1, BareOnce
  <2>3. c0 # c3
    BY <1>1, BareOnce
  <2>4. c1 # c2
    BY <1>1, BareOnce
  <2>5. c1 # c3
    BY <1>1, BareOnce
  <2>6. c2 # c3
    BY <1>1, BareOnce
  <2>7. QED
    BY <2>1, <2>2, <2>3, <2>4, <2>5, <2>6
<1>3. R.call = "Component" /\ R.name = F.name[n] /\ ~LinkCall(R)
  BY DEF BareRouter, Component, LinkCall
<1>4. \A t : /\ NextCall(F, p, t).call = "addNextLink" /\ NextCall(F, p, t).name = F.name[t[1]]
  BY DEF NextCall, addNextLink
<1>5. \A c \in {c0, c1, c2, c3} : c.call = "addNextLink" /\ c.name = F.name[n]
  <2>1. <<n, 0>>[1] = n /\ <<n, 1>>[1] = n /\ <<n, 2>>[1] = n /\ <<n, 3>>[1] = n
    OBVIOUS
  <2>2. QED
    BY <1>4, <2>1
<1>6. BareNode(F, p, n) = {R, c0, c1, c2, c3}
  <2>1. 0 .. 3 = {0, 1, 2, 3}
    OBVIOUS
  <2>2. QED
    BY <2>1 DEF BareNode
<1> HIDE DEF R, c0, c1, c2, c3
<1>7. ASSUME NEW s, NEW A, R \in A, NEW c \in {c0, c1, c2, c3}, c \notin A, Makes(s, A, {})
      PROVE  Makes(s \o <<c>>, A \cup {c}, {})
  <2>1. Makes(<<c>>, {c}, {F.name[n]})
    BY <1>5, MakesOne
  <2>2. A \cap {c} = {}
    BY <1>7
  <2>3. \A q \in {F.name[n]} : q \in {} \/ \E x \in A : x.call = "Component" /\ x.name = q
    BY <1>3, <1>7
  <2>4. QED
    BY <1>7, <2>1, <2>2, <2>3, MakesMore
<1>8. R \notin {c0, c1, c2, c3}
  BY <1>3, <1>5
<1>9. Makes(<<R>>, {R}, {})
  BY <1>3, MakesOne
<1>10. Makes(<<R>> \o <<c0>>, {R} \cup {c0}, {})
  BY <1>7, <1>8, <1>9
<1>11. Makes(<<R>> \o <<c0>> \o <<c1>>, {R} \cup {c0} \cup {c1}, {})
  BY <1>2, <1>7, <1>8, <1>10
<1>12. Makes(<<R>> \o <<c0>> \o <<c1>> \o <<c2>>, {R} \cup {c0} \cup {c1} \cup {c2}, {})
  BY <1>2, <1>7, <1>8, <1>11
<1>13. Makes(<<R>> \o <<c0>> \o <<c1>> \o <<c2>> \o <<c3>>, {R} \cup {c0} \cup {c1} \cup {c2} \cup {c3}, {})
  BY <1>2, <1>7, <1>8, <1>12
<1>14. {R} \cup {c0} \cup {c1} \cup {c2} \cup {c3} = {R, c0, c1, c2, c3}
  OBVIOUS
<1>15. <<R>> \o <<c0>> \o <<c1>> \o <<c2>> \o <<c3>> = <<R, c0, c1, c2, c3>>
  BY FiveCalls
<1>16. Makes(<<R, c0, c1, c2, c3>>, BareNode(F, p, n), {})
  BY <1>6, <1>13, <1>14, <1>15
<1>17. QED
  BY <1>16 DEF R, c0, c1, c2, c3

\* A bare torus is in one piece.
LEMMA BarePiece ==
  ASSUME NEW F, Ringed(F), NEW p, F.node # {}, Spanned(F)
  PROVE  InOnePiece(BareCalls(F, p))
<1> DEFINE T == BareCalls(F, p)
           names == {c.name : c \in {d \in T : d.call = "Component"}}
<1>1. ASSUME NEW n \in F.node PROVE F.name[n] \in names
  <2>1. BareRouter(F, n) \in T
    BY BareHas
  <2>2. BareRouter(F, n).call = "Component" /\ BareRouter(F, n).name = F.name[n]
    BY DEF BareRouter, Component
  <2> HIDE DEF T
  <2>3. QED
    BY <2>1, <2>2
<1>2. ASSUME NEW x \in names PROVE \E n \in F.node : x = F.name[n]
  <2>1. PICK c \in T : c.call = "Component" /\ x = c.name
    OBVIOUS
  <2>2. PICK n \in F.node : c = BareRouter(F, n)
    BY <2>1, BareCases
  <2>3. QED
    BY <2>1, <2>2 DEF BareRouter, Component
<1>3. names # {}
  BY <1>1
<1> HIDE DEF names
<1>4. ASSUME NEW S \in SUBSET names,
             \A c, d \in T : LinkCall(c) /\ LinkCall(d) /\ c.link = d.link /\ c.name \in S => d.name \in S
      PROVE  S = {} \/ S = names
  <2> DEFINE Q == {n \in F.node : F.name[n] \in S}
  <2>1. ASSUME NEW t \in F.trunk, t[1] \in Q PROVE F.opp[t][1] \in Q
    <3>1. F.opp[t] \in F.trunk /\ F.opp[t][1] \in F.node /\ F.link[F.opp[t]] = F.link[t]
      BY DEF Ringed, Fabric, Sized
    <3>2. PICK u \in F.trunk : u = F.opp[t]
      BY <3>1
    <3>3. NextCall(F, p, t) \in T /\ NextCall(F, p, u) \in T
      BY BareHas
    <3>4. /\ LinkCall(NextCall(F, p, t)) /\ LinkCall(NextCall(F, p, u))
          /\ NextCall(F, p, t).link = F.link[t] /\ NextCall(F, p, u).link = F.link[u]
          /\ NextCall(F, p, t).name = F.name[t[1]] /\ NextCall(F, p, u).name = F.name[u[1]]
      BY DEF LinkCall, NextCall, addNextLink
    <3>5. F.name[t[1]] \in S
      BY <2>1
    <3> HIDE DEF T, Q
    <3>6. F.name[u[1]] \in S
      BY <1>4, <3>1, <3>2, <3>3, <3>4, <3>5
    <3>7. QED
      BY <3>1, <3>2, <3>6 DEF Q
  <2>2. Q = {} \/ Q = F.node
    <3>1. Q \in SUBSET F.node
      OBVIOUS
    <3> HIDE DEF Q
    <3>2. QED
      BY <2>1, <3>1 DEF Spanned
  <2>3. QED
    BY <1>2, <2>2
<1>5. QED
  BY <1>3, <1>4 DEF InOnePiece, names

LEMMA BareApart ==
  ASSUME NEW F, Ringed(F), NEW p, NEW m \in F.node, NEW n \in F.node, m # n
  PROVE  BareNode(F, p, m) \cap BareNode(F, p, n) = {}
<1>1. ASSUME NEW k \in F.node, NEW c \in BareNode(F, p, k) PROVE c.name = F.name[k]
  <2>1. CASE c = BareRouter(F, k)
    BY <2>1 DEF BareRouter, Component
  <2>2. CASE \E d \in 0 .. 3 : c = NextCall(F, p, <<k, d>>)
    BY <2>2 DEF NextCall, addNextLink
  <2>3. QED
    BY <2>1, <2>2 DEF BareNode
<1>2. F.name[m] # F.name[n]
  BY DEF Ringed, Fabric, Named
<1>3. QED
  BY <1>1, <1>2

LEMMA BareCallNames ==
  ASSUME NEW a \in Nat, NEW b \in Nat, NEW lp \in Nat, NEW v \in Variant, NEW F, IsGrid(F, a, b, lp, v),
         F.trunk = TorusTrunks(a, b), Woven(F), NEW p, NEW n \in F.node
  PROVE  BareTorusNode(n[1], n[2], a, b, p)
           = <<BareRouter(F, n), NextCall(F, p, <<n, 0>>), NextCall(F, p, <<n, 2>>),
               NextCall(F, p, <<n, 1>>), NextCall(F, p, <<n, 3>>)>>
<1>1. n \in Grid(a, b) /\ F.name[n] = Rtr(n[1], n[2]) /\ \A d \in 0 .. 3 : <<n, d>> \in F.trunk
  BY DEF IsGrid, TorusTrunks
<1>2. CallsByPort(F, a, b, lp, n)
  BY GridCalls
<1>3. \A d \in 0 .. 3 : TrunkCall(F, <<n, d>>).link = F.link[<<n, d>>]
  BY DEF TrunkCall, addLink
<1>4. /\ F.link[<<n, 0>>] = <<Rtr(n[1], n[2]), Rtr(n[1], Above(n[2], b))>>
      /\ F.link[<<n, 1>>] = <<Rtr(n[1], n[2]), Rtr(Above(n[1], a), n[2])>>
      /\ F.link[<<n, 2>>] = <<Rtr(n[1], Below(n[2], b)), Rtr(n[1], n[2])>>
      /\ F.link[<<n, 3>>] = <<Rtr(Below(n[1], a), n[2]), Rtr(n[1], n[2])>>
  BY <1>1, <1>2, <1>3 DEF CallsByPort, addLink
<1>5. /\ North(n[1], n[2], b) = F.link[<<n, 0>>] /\ East(n[1], n[2], a) = F.link[<<n, 1>>]
      /\ South(n[1], n[2], b) = F.link[<<n, 2>>] /\ West(n[1], n[2], a) = F.link[<<n, 3>>]
  BY <1>1, <1>4, RingLinks
<1>6. \A d \in 0 .. 3 : NextCall(F, p, <<n, d>>) = addNextLink(Rtr(n[1], n[2]), F.link[<<n, d>>], p)
  BY <1>1 DEF NextCall
<1>7. BareRouter(F, n) = Component(Rtr(n[1], n[2]), [kind |-> "router"])
  BY <1>1 DEF BareRouter
<1>8. QED
  BY <1>5, <1>6, <1>7 DEF BareTorusNode

LEMMA BareLaidOut ==
  ASSUME NEW a \in Nat, NEW b \in Nat, NEW p \in STRING, a # 1, b # 1
  PROVE  \E F : /\ Ringed(F) /\ Makes(BareTorus(a, b, p), BareCalls(F, p), {}) /\ Spanned(F)
                /\ a # 2 /\ b # 2 => Apart(F)
<1> DEFINE v == [ids |-> FALSE, peers |-> 0, nicPort |-> p]
<1>1. v \in Variant /\ 0 \in Nat
  BY DEF Variant
<1> HIDE DEF v
<1>2. PICK F : /\ IsGrid(F, a, b, 0, v) /\ F.step = 2 /\ F.trunk = TorusTrunks(a, b)
               /\ Woven(F) /\ Fabric(F) /\ Spanned(F)
               /\ a # 2 /\ b # 2 => Apart(F)
  BY <1>1, TorusFabric
<1>3. F.node = Grid(a, b) /\ F.trunk = F.node \X (0 .. 3)
  BY <1>2 DEF IsGrid, TorusTrunks
<1>4. \A n \in F.node : n[1] \in 0 .. a - 1 /\ n[2] \in 0 .. b - 1 /\ n = <<n[1], n[2]>>
  BY <1>3, GridNodes
<1>5. ASSUME NEW t \in F.trunk PROVE F.opp[t][1] # t[1]
  <2>1. t[1] \in F.node /\ t[2] \in 0 .. 3
    BY <1>3
  <2>2. F.opp[t][1] = GridNbr(a, b, t)
    BY <1>2 DEF IsGrid, Opp
  <2>3. PICK x \in 0 .. a - 1, y \in 0 .. b - 1 : x = t[1][1] /\ y = t[1][2]
    BY <1>4, <2>1
  <2>4. a \in Nat \ {0} /\ b \in Nat \ {0}
    BY <2>3
  <2>5. Above(x, a) # x /\ Below(x, a) # x
    BY <2>3, <2>4 DEF Above, Below
  <2>6. Above(y, b) # y /\ Below(y, b) # y
    BY <2>3, <2>4 DEF Above, Below
  <2>7. GridNbr(a, b, t)[1] # x \/ GridNbr(a, b, t)[2] # y
    BY <2>1, <2>3, <2>5, <2>6 DEF GridNbr
  <2>8. QED
    BY <2>2, <2>3, <2>7
<1>6. Ringed(F)
  BY <1>2, <1>3, <1>5 DEF Ringed
<1> DEFINE ss == [n \in Grid(a, b) |-> BareTorusNode(n[1], n[2], a, b, p)]
           A  == [n \in Grid(a, b) |-> BareNode(F, p, n)]
           S  == {BareRouter(F, n) : n \in F.node} \cup {NextCall(F, p, t) : t \in F.trunk}
<1>7. ASSUME NEW n \in Grid(a, b) PROVE Makes(ss[n], A[n], {}) /\ ss[n] \in Seq(S)
  <2>1. n \in F.node /\ \A d \in 0 .. 3 : <<n, d>> \in F.trunk
    BY <1>3
  <2>2. ss[n] = <<BareRouter(F, n), NextCall(F, p, <<n, 0>>), NextCall(F, p, <<n, 2>>),
                  NextCall(F, p, <<n, 1>>), NextCall(F, p, <<n, 3>>)>>
    <3>1. BareTorusNode(n[1], n[2], a, b, p)
            = <<BareRouter(F, n), NextCall(F, p, <<n, 0>>), NextCall(F, p, <<n, 2>>),
                NextCall(F, p, <<n, 1>>), NextCall(F, p, <<n, 3>>)>>
      BY <1>1, <1>2, <2>1, BareCallNames
    <3>2. ss[n] = BareTorusNode(n[1], n[2], a, b, p)
      OBVIOUS
    <3>3. QED
      BY <3>1, <3>2
  <2>3. BareRouter(F, n) \in S /\ \A d \in 0 .. 3 : NextCall(F, p, <<n, d>>) \in S
    BY <2>1
  <2>4. ss[n] \in Seq(S)
    <3> DEFINE r  == BareRouter(F, n)
               c0 == NextCall(F, p, <<n, 0>>)
               c1 == NextCall(F, p, <<n, 1>>)
               c2 == NextCall(F, p, <<n, 2>>)
               c3 == NextCall(F, p, <<n, 3>>)
    <3>1. r \in S /\ c0 \in S /\ c1 \in S /\ c2 \in S /\ c3 \in S
      BY <2>3
    <3>2. ss[n] = <<r, c0, c2, c1, c3>>
      BY <2>2
    <3> HIDE DEF S, ss, r, c0, c1, c2, c3
    <3>3. <<r, c0, c2, c1, c3>> \in Seq(S)
      BY <3>1
    <3>4. QED
      BY <3>2, <3>3
  <2>5. QED
    BY <1>6, <2>1, <2>2, <2>4, BareNodeMakes
<1>8. BareTorus(a, b, p) = Rows(a, b, ss)
  <2>1. BareTorus(a, b, p)
          = FlattenSeq([i \in 1 .. b |-> FlattenSeq([j \in 1 .. a |-> BareTorusNode(j - 1, i - 1, a, b, p)])])
    BY DEF BareTorus, ForGrid, For
  <2>2. \A i \in 1 .. b, j \in 1 .. a : ss[<<j - 1, i - 1>>] = BareTorusNode(j - 1, i - 1, a, b, p)
    <3> TAKE i \in 1 .. b, j \in 1 .. a
    <3>1. <<j - 1, i - 1>> \in Grid(a, b)
      BY DEF Grid
    <3>2. QED
      BY <3>1
  <2> HIDE DEF ss
  <2>3. \A i \in 1 .. b : [j \in 1 .. a |-> ss[<<j - 1, i - 1>>]]
                            = [j \in 1 .. a |-> BareTorusNode(j - 1, i - 1, a, b, p)]
    BY <2>2
  <2>4. QED
    BY <2>1, <2>3 DEF Rows
<1>9. \A m, n \in Grid(a, b) : m # n => A[m] \cap A[n] = {}
  BY <1>3, <1>6, BareApart
<1>10. \A c : c \in BareCalls(F, p) <=> \E n \in Grid(a, b) : c \in A[n]
  BY <1>3 DEF BareCalls
<1>11. ss \in [Grid(a, b) -> Seq(S)]
  <2>1. ss = [n \in Grid(a, b) |-> ss[n]]
    OBVIOUS
  <2> HIDE DEF ss, S
  <2>2. QED
    BY <1>7, <2>1
<1>12. Makes(Rows(a, b, ss), BareCalls(F, p), {})
  <2> HIDE DEF ss, A, S
  <2>1. Grid(a, b) = (0 .. a - 1) \X (0 .. b - 1)
    BY DEF Grid
  <2>2. QED
    BY <1>7, <1>9, <1>10, <1>11, <2>1, MakesGrid
<1>13. QED
  BY <1>2, <1>6, <1>8, <1>12

-----------------------------------------------------------------------------
(* The networks of the simulation scripts.                                 *)

\* The scripts that lay out a mesh, or a torus with at most most endpoints at a router and no
\* ring of a size in the set short; a bare torus has no endpoints.
IsMesh(s) == \E a, b, lp \in Nat, v \in Variant : s = Mesh(a, b, lp, v)

IsTorus(s, most, short) ==
  \E a, b, lp \in Nat, v \in Variant :
    /\ s = Torus(a, b, lp, v)
    /\ (a # 1 \/ b # 1) /\ a \notin short /\ b \notin short /\ lp <= most

IsBareTorus(s, short) ==
  \E a, b \in Nat, p \in STRING : s = BareTorus(a, b, p) /\ a \notin short /\ b \notin short

LEMMA LaidOutDrawn ==
  ASSUME DrawnInv, NEW F, LaidOut(Calls, F)
  PROVE  Drawn /\ Fabric(F) /\ Makes(Calls, FabricCalls(F), {}) /\ LinksPaired
<1>1. Fabric(F) /\ Makes(Calls, FabricCalls(F), {})
  BY DEF LaidOut
<1>2. Drawn
  BY <1>1, FabricSimple DEF DrawnInv, Drawable
<1>3. Paired(FabricCalls(F))
  BY <1>1, FabricPaired
<1>4. LinksPaired
  BY <1>1, <1>2, <1>3, PairsOfEnds
<1>5. QED
  BY <1>1, <1>2, <1>4

LEMMA GridPeers ==
  ASSUME DrawnInv, NEW F, LaidOut(Calls, F),
         NEW a \in Nat, NEW b \in Nat, NEW lp \in Nat, NEW v \in Variant, IsGrid(F, a, b, lp, v)
  PROVE  PeersCovered
<1>1. Drawn /\ Fabric(F) /\ Makes(Calls, FabricCalls(F), {})
  BY LaidOutDrawn
<1>2. PICK num : Numbers(F, a * b * lp, num)
  BY GridNumbers
<1>3. PICK N : Numbers(F, N, num)
  BY <1>2
<1>4. PICK number : PeersFit(FabricCalls(F), N, number)
  BY <1>1, <1>3, FabricPeers
<1>5. QED
  BY <1>1, <1>4, PeersOfCalls

\* A script that makes a call makes a node, and then all nodes are joined.
LEMMA GridPiece ==
  ASSUME NEW F, LaidOut(Calls, F), Spanned(F), Drawn, Calls # <<>>
  PROVE  AllConnected
<1>1. Fabric(F) /\ Makes(Calls, FabricCalls(F), {})
  BY DEF LaidOut
<1>2. Calls[1] \in FabricCalls(F)
  BY <1>1, FirstCall
<1>3. F.node # {}
  BY <1>2 DEF FabricCalls
<1>4. InOnePiece(FabricCalls(F))
  BY <1>1, <1>3, FabricPiece
<1>5. QED
  BY <1>1, <1>4, PieceOfCalls

LEMMA MeshFits ==
  ASSUME DrawnInv, IsMesh(Calls)
  PROVE  /\ LinksPaired /\ PortsWired /\ NoDoubleLinks /\ PeersCovered
         /\ Calls # <<>> => AllConnected
<1>1. PICK a \in Nat, b \in Nat, lp \in Nat, v \in Variant : Calls = Mesh(a, b, lp, v)
  BY DEF IsMesh
<1>2. PICK F : /\ IsGrid(F, a, b, lp, v) /\ F.step = 1 /\ LaidOut(Mesh(a, b, lp, v), F)
               /\ Apart(F) /\ Spanned(F)
  BY MeshLaidOut
<1>3. LaidOut(Calls, F)
  BY <1>1, <1>2
<1>4. Drawn /\ Fabric(F) /\ Makes(Calls, FabricCalls(F), {}) /\ LinksPaired
  BY <1>3, LaidOutDrawn
<1>5. OncePerPort(FabricCalls(F)) /\ PortsFit(FabricCalls(F))
  BY <1>2, <1>4, FabricPorts, FabricPortsFit
<1>6. PortsWired
  BY <1>4, <1>5, PortsOfEnds
<1>7. NoDoubleLinks
  BY <1>2, <1>4, FabricTrunks, TrunksOfEnds
<1>8. PeersCovered
  BY <1>2, <1>3, GridPeers
<1>9. Calls # <<>> => AllConnected
  BY <1>2, <1>3, <1>4, GridPiece
<1>10. QED
  BY <1>4, <1>6, <1>7, <1>8, <1>9

LEMMA TorusFits ==
  ASSUME DrawnInv, NEW most \in Nat, NEW short, IsTorus(Calls, most, short)
  PROVE  /\ LinksPaired /\ PeersCovered
         /\ Calls # <<>> => AllConnected
         /\ most <= 1 => PortsWired
         /\ 2 \in short => NoDoubleLinks
<1>1. PICK a \in Nat, b \in Nat, lp \in Nat, v \in Variant :
             /\ Calls = Torus(a, b, lp, v)
             /\ (a # 1 \/ b # 1) /\ a \notin short /\ b \notin short /\ lp <= most
  BY DEF IsTorus
<1>2. PICK F : /\ IsGrid(F, a, b, lp, v) /\ F.step = 2 /\ LaidOut(Torus(a, b, lp, v), F)
               /\ a # 2 /\ b # 2 => Apart(F)
               /\ Spanned(F)
  BY <1>1, TorusLaidOut
<1>3. LaidOut(Calls, F)
  BY <1>1, <1>2
<1>4. Drawn /\ Fabric(F) /\ Makes(Calls, FabricCalls(F), {}) /\ LinksPaired
  BY <1>3, LaidOutDrawn
<1>5. ASSUME most <= 1 PROVE PortsWired
  <2>1. F.locals <= 1
    BY <1>1, <1>2, <1>5 DEF IsGrid
  <2>2. OncePerPort(FabricCalls(F)) /\ PortsFit(FabricCalls(F))
    BY <1>4, <2>1, FabricPorts, FabricPortsFit
  <2>3. QED
    BY <1>4, <2>2, PortsOfEnds
<1>6. ASSUME 2 \in short PROVE NoDoubleLinks
  <2>1. SingleTrunks(FabricCalls(F))
    BY <1>1, <1>2, <1>4, <1>6, FabricTrunks
  <2>2. QED
    BY <1>4, <2>1, TrunksOfEnds
<1>7. PeersCovered
  BY <1>2, <1>3, GridPeers
<1>8. Calls # <<>> => AllConnected
  BY <1>2, <1>3, <1>4, GridPiece
<1>9. QED
  BY <1>4, <1>5, <1>6, <1>7, <1>8

LEMMA BareTorusFits ==
  ASSUME DrawnInv, NEW short, 1 \in short, IsBareTorus(Calls, short)
  PROVE  /\ LinksPaired /\ PortsWired /\ PeersCovered
         /\ Calls # <<>> => AllConnected
         /\ 2 \in short => NoDoubleLinks
<1>1. PICK a \in Nat, b \in Nat, p \in STRING : Calls = BareTorus(a, b, p) /\ a \notin short /\ b \notin short
  BY DEF IsBareTorus
<1>2. PICK F : /\ Ringed(F) /\ Makes(BareTorus(a, b, p), BareCalls(F, p), {})
               /\ a # 2 /\ b # 2 => Apart(F)
               /\ Spanned(F)
  BY <1>1, BareLaidOut
<1>3. Makes(Calls, BareCalls(F, p), {})
  BY <1>1, <1>2
<1>4. Simple(BareCalls(F, p)) /\ OncePerPort(BareCalls(F, p)) /\ PortsFit(BareCalls(F, p))
  BY <1>2, BareFits
<1>5. Drawn
  BY <1>3, <1>4 DEF DrawnInv, Drawable
<1>6. LinksPaired
  <2>1. Paired(BareCalls(F, p))
    BY <1>2, BarePaired
  <2>2. QED
    BY <1>3, <1>5, <2>1, PairsOfEnds
<1>7. PortsWired
  BY <1>3, <1>4, <1>5, PortsOfEnds
<1>8. PeersCovered
  <2>1. PICK number : PeersFit(BareCalls(F, p), 0, number)
    BY <1>2, BareFits
  <2>2. QED
    BY <1>3, <1>5, <2>1, PeersOfCalls
<1>9. ASSUME 2 \in short PROVE NoDoubleLinks
  <2>1. SingleTrunks(BareCalls(F, p))
    BY <1>1, <1>2, <1>9, BareFits
  <2>2. QED
    BY <1>3, <1>5, <2>1, TrunksOfEnds
<1>10. ASSUME Calls # <<>> PROVE AllConnected
  <2>1. Calls[1] \in BareCalls(F, p)
    BY <1>3, <1>10, FirstCall
  <2>2. F.node # {}
    BY <2>1 DEF BareCalls
  <2>3. InOnePiece(BareCalls(F, p))
    BY <1>2, <2>2, BarePiece
  <2>4. QED
    BY <1>3, <1>5, <2>3, PieceOfCalls
<1>11. QED
  BY <1>6, <1>7, <1>8, <1>9, <1>10

\* A script that lays out a mesh or a torus of any size, with any number of endpoints at a
\* router.  A torus of one router would give both its trunks one name, and in a bare torus a
\* ring of one router would call twice for the same end of a link.
GridScript(s) ==
  \/ IsMesh(s)
  \/ \E most \in Nat : IsTorus(s, most, {})
  \/ IsBareTorus(s, {1})

\* While sst runs such a script no link ever has a third end, and when it is done every link
\* joins two ports.
THEOREM GridLinksPaired == Spec => [](GridScript(Calls) => LinksPaired)
<1>1. DrawnInv => (GridScript(Calls) => LinksPaired)
  BY MeshFits, TorusFits, BareTorusFits DEF GridScript
<1>2. QED
  BY <1>1, AlwaysDrawn, PTL

\* Every link end has a port of its own, which the router has; a torus with more than one
\* endpoint at a router numbers its ports past the last one.
THEOREM GridPortsWired ==
  Spec => [](IsMesh(Calls) \/ IsTorus(Calls, 1, {}) \/ IsBareTorus(Calls, {1}) => PortsWired)
<1>1. DrawnInv => (IsMesh(Calls) \/ IsTorus(Calls, 1, {}) \/ IsBareTorus(Calls, {1}) => PortsWired)
  BY MeshFits, TorusFits, BareTorusFits
<1>2. QED
  BY <1>1, AlwaysDrawn, PTL

\* No two routers are joined twice, unless a torus has a ring of two routers.
THEOREM GridSingleLinks ==
  Spec => [](IsMesh(Calls) \/ (\E most \in Nat : IsTorus(Calls, most, {2})) \/ IsBareTorus(Calls, {1, 2})
             => NoDoubleLinks)
<1>1. DrawnInv => (IsMesh(Calls) \/ (\E most \in Nat : IsTorus(Calls, most, {2})) \/ IsBareTorus(Calls, {1, 2})
                   => NoDoubleLinks)
  BY MeshFits, TorusFits, BareTorusFits
<1>2. QED
  BY <1>1, AlwaysDrawn, PTL

\* The endpoints of a mesh or torus have different numbers, all below the number of peers each
\* is told.
THEOREM GridPeersCovered == Spec => [](GridScript(Calls) => PeersCovered)
<1>1. DrawnInv => (GridScript(Calls) => PeersCovered)
  BY MeshFits, TorusFits, BareTorusFits DEF GridScript
<1>2. QED
  BY <1>1, AlwaysDrawn, PTL

\* Once sst has read the script every component of a mesh or torus can reach every other,
\* provided that it has a router at all.
THEOREM GridConnected == Spec => [](GridScript(Calls) /\ Calls # <<>> => AllConnected)
<1>1. DrawnInv => (GridScript(Calls) /\ Calls # <<>> => AllConnected)
  BY MeshFits, TorusFits, BareTorusFits DEF GridScript
<1>2. QED
  BY <1>1, AlwaysDrawn, PTL

=============================================================================
