---------------------------- MODULE GroundingProofs ----------------------------
(* What grounding reports, for every document, every sequence of claims, every *)
(* threshold and every budget: what a range of the document shows, and that    *)
(* the filter of candidates overlooks nothing.                                 *)
EXTENDS Evidence, SequenceTheorems, FiniteSetTheorems, TLAPS

document == v1
claims == v2
foreign == v3
at == v4
taken == v5
outcomes == v6

USE DEF document, claims, foreign, at, taken, outcomes

-----------------------------------------------------------------------------
(* Numbers                                                                   *)

LEMMA Least ==
  ASSUME NEW T \in SUBSET Nat, T # {}
  PROVE  \E n \in T : \A m \in T : n <= m
<1> DEFINE R == OpToRel(<, Nat)
<1>1. \A a, b \in Nat : a < b => <<a, b>> \in R
  BY DEF OpToRel
<1>2. IsWellFoundedOn(R, Nat)
  BY NatLessThanWellFounded
<1> HIDE DEF R
<1>3. PICK n \in T : \A m \in T : <<m, n>> \notin R
  BY <1>2, WFMin
<1>4. ASSUME NEW m \in T PROVE n <= m
  <2>1. n \in Nat /\ m \in Nat
    OBVIOUS
  <2>2. ~(m < n)
    BY <2>1, <1>1, <1>3
  <2> QED BY <2>1, <2>2
<1> QED BY <1>4

LEMMA Steps ==
  ASSUME NEW T, 0 \in T, \A n \in Nat : n \in T => n + 1 \in T
  PROVE  Nat \subseteq T
<1> DEFINE U == Nat \ T
<1> SUFFICES ASSUME U # {} PROVE FALSE
  OBVIOUS
<1>1. U \in SUBSET Nat
  OBVIOUS
<1>2. PICK n \in U : \A m \in U : n <= m
  <2> HIDE DEF U
  <2> QED BY <1>1, Least
<1>3. n \in Nat /\ n # 0 /\ n - 1 \in Nat /\ ~(n <= n - 1)
  BY <1>2
<1>4. n - 1 \in T
  BY <1>2, <1>3
<1>5. n - 1 + 1 \in T
  BY <1>3, <1>4
<1> QED BY <1>2, <1>3, <1>5

LEMMA MinIs ==
  ASSUME NEW T \in SUBSET Nat, T # {}
  PROVE  Grounding!Min(T) \in T /\ \A m \in T : Grounding!Min(T) <= m
<1>1. \E x \in T : \A y \in T : x =< y
  BY Least
<1> QED BY <1>1 DEF Grounding!Min

LEMMA MaxIs ==
  ASSUME NEW T \in SUBSET Nat, T # {}, NEW b \in Nat, \A m \in T : m <= b
  PROVE  Grounding!Max(T) \in T /\ \A m \in T : m <= Grounding!Max(T)
<1> DEFINE U == {b - m : m \in T}
<1>0. PICK x \in T : TRUE
  OBVIOUS
<1>1. U \in SUBSET Nat /\ U # {}
  <2>1. b - x \in U
    OBVIOUS
  <2>2. ASSUME NEW m \in T PROVE b - m \in Nat
    OBVIOUS
  <2> QED BY <2>1, <2>2
<1>2. PICK u \in U : \A v \in U : u <= v
  <2> HIDE DEF U
  <2> QED BY <1>1, Least
<1>3. PICK m \in T : u = b - m
  BY <1>2
<1>4. ASSUME NEW n \in T PROVE m >= n
  <2>1. b - n \in U
    OBVIOUS
  <2> QED BY <2>1, <1>2, <1>3
<1>5. \E w \in T : \A y \in T : w >= y
  BY <1>4
<1> QED BY <1>5 DEF Grounding!Max

-----------------------------------------------------------------------------
(* Segments                                                                  *)

Emitted == Grounding!Character \union {c \o "^" : c \in Grounding!Character} \union {"f", "i"}
ASegment == [text : Seq(Emitted), from : Nat, to : Nat]

LEMMA RunsHaveEnds ==
  ASSUME NEW s \in Seq(Grounding!Character), NEW i \in Nat, i <= Len(s) + 1, NEW class
  PROVE  /\ Grounding!RunEnd(s, i, class) \in i .. Len(s) + 1
         /\ Grounding!RunEnd(s, i, class) > Len(s) \/ s[Grounding!RunEnd(s, i, class)] \notin class
         /\ \A j \in i .. Len(s) : j < Grounding!RunEnd(s, i, class) => s[j] \in class
<1> DEFINE T == {j \in i .. Len(s) + 1 : j > Len(s) \/ s[j] \notin class}
<1>1. T \in SUBSET Nat /\ Len(s) + 1 \in T
  OBVIOUS
<1>2. Grounding!Min(T) \in T /\ \A m \in T : Grounding!Min(T) <= m
  <2> HIDE DEF T
  <2> QED BY <1>1, MinIs
<1>3. Grounding!RunEnd(s, i, class) = Grounding!Min(T)
  BY DEF Grounding!RunEnd
<1>4. ASSUME NEW j \in i .. Len(s), j < Grounding!Min(T) PROVE s[j] \in class
  <2>1. j \notin T
    <3>1. PICK m : m = Grounding!Min(T)
      OBVIOUS
    <3>2. m \in Nat /\ j \in Nat /\ j < m
      BY <1>1, <1>2, <1>4, <3>1
    <3>3. \A n \in T : m <= n
      BY <1>2, <3>1
    <3> HIDE DEF T
    <3> QED BY <3>2, <3>3
  <2> QED BY <2>1
<1> QED BY <1>2, <1>3, <1>4

LEMMA RunsEndOnce ==
  ASSUME NEW s \in Seq(Grounding!Character), NEW i \in Nat, i <= Len(s) + 1, NEW class,
         NEW r \in i .. Len(s) + 1, r > Len(s) \/ s[r] \notin class,
         \A j \in i .. Len(s) : j < r => s[j] \in class
  PROVE  Grounding!RunEnd(s, i, class) = r
<1>1. PICK e : e = Grounding!RunEnd(s, i, class)
  OBVIOUS
<1>2. /\ e \in i .. Len(s) + 1
      /\ e > Len(s) \/ s[e] \notin class
      /\ \A j \in i .. Len(s) : j < e => s[j] \in class
  BY <1>1, RunsHaveEnds
<1>3. ~(e < r) /\ ~(r < e)
  BY <1>2
<1> QED BY <1>1, <1>2, <1>3

(* A segment is not empty and ends within the text.                          *)
LEMMA SegmentsAdvance ==
  ASSUME NEW s \in Seq(Grounding!Character), NEW i \in Nat, i <= Len(s)
  PROVE  /\ Grounding!SegmentAt(s, i).from = i
         /\ Grounding!SegmentAt(s, i).to \in i + 1 .. Len(s) + 1
<1>1. Len(s) \in Nat /\ i + 1 \in Nat /\ i + 1 <= Len(s) + 1 /\ i <= Len(s) + 1
  OBVIOUS
<1>2. PICK blank : blank = Grounding!RunEnd(s, i, Grounding!Space)
  OBVIOUS
<1>3. PICK broken : broken = Grounding!RunEnd(s, i + 1, Grounding!Space)
  OBVIOUS
<1>4. PICK marked : marked = Grounding!RunEnd(s, i + 1, {"^"})
  OBVIOUS
<1>5. broken \in i + 1 .. Len(s) + 1 /\ marked \in i + 1 .. Len(s) + 1
  BY <1>1, <1>3, <1>4, RunsHaveEnds
<1>6. blank \in i .. Len(s) + 1 /\ (blank > Len(s) \/ s[blank] \notin Grounding!Space)
  BY <1>1, <1>2, RunsHaveEnds
<1>7. s[i] \in Grounding!Space => blank \in i + 1 .. Len(s) + 1
  BY <1>1, <1>6
<1> HIDE DEF Grounding!Space
<1> QED BY <1>1, <1>2, <1>3, <1>4, <1>5, <1>7 DEF Grounding!SegmentAt, Grounding!Segment

LEMMA SegmentsAreTyped ==
  ASSUME NEW s \in Seq(Grounding!Character), NEW i \in 1 .. Len(s)
  PROVE  Grounding!SegmentAt(s, i) \in ASegment
<1>1. Grounding!SegmentAt(s, i).from \in Nat /\ Grounding!SegmentAt(s, i).to \in Nat
  BY SegmentsAdvance
<1>2. s[i] \in Grounding!Character
  OBVIOUS
<1>3. /\ <<>> \in Seq(Emitted) /\ <<"-">> \in Seq(Emitted) /\ <<" ">> \in Seq(Emitted) /\ <<"f", "i">> \in Seq(Emitted)
      /\ <<s[i]>> \in Seq(Emitted) /\ <<s[i] \o "^">> \in Seq(Emitted)
  <2>1. "-" \in Emitted /\ " " \in Emitted /\ "f" \in Emitted /\ "i" \in Emitted /\ s[i] \in Emitted /\ s[i] \o "^" \in Emitted
    BY <1>2 DEF Emitted, Grounding!Character, Grounding!Space
  <2> HIDE DEF Emitted
  <2>2. \A c \in Emitted : <<c>> \in Seq(Emitted)
    OBVIOUS
  <2>3. <<>> \in Seq(Emitted) /\ \A c, d \in Emitted : <<c, d>> \in Seq(Emitted)
    OBVIOUS
  <2> QED BY <2>1, <2>2, <2>3, Zenon
<1>4. Grounding!SegmentAt(s, i).text \in Seq(Emitted)
  <2> HIDE DEF Emitted
  <2> QED BY <1>3 DEF Grounding!SegmentAt, Grounding!Segment
<1>5. Grounding!SegmentAt(s, i) = [text |-> Grounding!SegmentAt(s, i).text, from |-> Grounding!SegmentAt(s, i).from, to |-> Grounding!SegmentAt(s, i).to]
  BY DEF Grounding!SegmentAt, Grounding!Segment
<1> QED BY <1>1, <1>4, <1>5 DEF ASegment

(* q are the segments of s from its i-th character on.                       *)
Chain(s, i, q) ==
  /\ q \in Seq(ASegment)
  /\ q = <<>> => i = Len(s) + 1
  /\ q # <<>> => q[1].from = i /\ q[Len(q)].to = Len(s) + 1
  /\ \A k \in 1 .. Len(q) :
       /\ q[k] = Grounding!SegmentAt(s, q[k].from)
       /\ q[k].from \in i .. Len(s) /\ q[k].to \in q[k].from + 1 .. Len(s) + 1
  /\ \A k \in 1 .. Len(q) - 1 : q[k + 1].from = q[k].to

LEMMA ChainsGrow ==
  ASSUME NEW s \in Seq(Grounding!Character), NEW i \in 1 .. Len(s), NEW q, Chain(s, Grounding!SegmentAt(s, i).to, q)
  PROVE  Chain(s, i, <<Grounding!SegmentAt(s, i)>> \o q)
<1>1. PICK g : g = Grounding!SegmentAt(s, i)
  OBVIOUS
<1>2. g \in ASegment /\ g.from = i /\ g.to \in i + 1 .. Len(s) + 1
  BY <1>1, SegmentsAdvance, SegmentsAreTyped
<1>3. /\ q \in Seq(ASegment)
      /\ q = <<>> => g.to = Len(s) + 1
      /\ q # <<>> => q[1].from = g.to /\ q[Len(q)].to = Len(s) + 1
      /\ \A k \in 1 .. Len(q) :
           /\ q[k] = Grounding!SegmentAt(s, q[k].from)
           /\ q[k].from \in g.to .. Len(s) /\ q[k].to \in q[k].from + 1 .. Len(s) + 1
      /\ \A k \in 1 .. Len(q) - 1 : q[k + 1].from = q[k].to
  BY <1>1 DEF Chain
<1>4. PICK p : p = <<g>> \o q
  OBVIOUS
<1>5. /\ p \in Seq(ASegment) /\ p # <<>> /\ Len(p) = Len(q) + 1 /\ p[1] = g
      /\ \A k \in 1 .. Len(q) : p[k + 1] = q[k]
  BY <1>2, <1>3, <1>4
<1>6. \A k \in 2 .. Len(p) : k - 1 \in 1 .. Len(q) /\ p[k] = q[k - 1]
  <2> SUFFICES ASSUME NEW k \in 2 .. Len(p) PROVE k - 1 \in 1 .. Len(q) /\ p[k] = q[k - 1]
    OBVIOUS
  <2>1. k - 1 \in 1 .. Len(q) /\ (k - 1) + 1 = k
    BY <1>3, <1>5
  <2> QED BY <2>1, <1>5
<1>7. p[1].from = i
  BY <1>2, <1>5
<1>8. p[Len(p)].to = Len(s) + 1
  <2>1. CASE q = <<>>
    BY <2>1, <1>2, <1>3, <1>5
  <2>2. CASE q # <<>>
    <3>1. Len(p) \in 2 .. Len(p) /\ Len(p) - 1 = Len(q)
      BY <2>2, <1>3, <1>5
    <3> QED BY <3>1, <2>2, <1>3, <1>6
  <2> QED BY <2>1, <2>2
<1>9. ASSUME NEW k \in 1 .. Len(p)
      PROVE  /\ p[k] = Grounding!SegmentAt(s, p[k].from)
             /\ p[k].from \in i .. Len(s) /\ p[k].to \in p[k].from + 1 .. Len(s) + 1
  <2>1. CASE k = 1
    BY <2>1, <1>1, <1>2, <1>5
  <2>2. CASE k # 1
    <3>1. k \in 2 .. Len(p)
      BY <2>2, <1>5
    <3>2. PICK j \in 1 .. Len(q) : p[k] = q[j]
      BY <3>1, <1>6
    <3> QED BY <3>2, <1>2, <1>3
  <2> QED BY <2>1, <2>2
<1>10. ASSUME NEW k \in 1 .. Len(p) - 1 PROVE p[k + 1].from = p[k].to
  <2>0. k \in 1 .. Len(q) /\ p[k + 1] = q[k]
    BY <1>5
  <2>1. CASE k = 1
    BY <2>0, <2>1, <1>2, <1>3, <1>5
  <2>2. CASE k # 1
    <3>1. k \in 2 .. Len(p) /\ k - 1 \in 1 .. Len(q) - 1 /\ (k - 1) + 1 = k
      BY <2>0, <2>2, <1>3, <1>5
    <3>2. p[k] = q[k - 1] /\ q[k].from = q[k - 1].to
      BY <3>1, <1>3, <1>6
    <3> QED BY <2>0, <3>2
  <2> QED BY <2>1, <2>2
<1> QED BY <1>1, <1>4, <1>5, <1>7, <1>8, <1>9, <1>10 DEF Chain

(* The recursion of Segments has a solution: from the last character back.   *)
Following(s, i, f) == IF i > Len(s) THEN <<>> ELSE <<Grounding!SegmentAt(s, i)>> \o f[Grounding!SegmentAt(s, i).to]

LEMMA SegmentsRecur ==
  ASSUME NEW s \in Seq(Grounding!Character)
  PROVE  \E f : f = [i \in Nat |-> Following(s, i, f)]
<1> DEFINE From(m) == {i \in Nat : i >= m}
           T == {m \in Nat : \E f : f = [i \in From(m) |-> Following(s, i, f)]}
<1>1. Len(s) + 1 \in T
  <2>1. PICK f : f = [i \in From(Len(s) + 1) |-> <<>>]
    OBVIOUS
  <2>2. \A i \in From(Len(s) + 1) : Following(s, i, f) = <<>>
    BY DEF Following
  <2>3. f = [i \in From(Len(s) + 1) |-> Following(s, i, f)]
    <3> HIDE DEF From
    <3> QED BY <2>1, <2>2
  <2>4. Len(s) + 1 \in Nat
    OBVIOUS
  <2> HIDE DEF From
  <2> QED BY <2>3, <2>4
<1>2. T \in SUBSET Nat /\ T # {}
  BY <1>1
<1>3. PICK m \in T : \A n \in T : m <= n
  <2> HIDE DEF T
  <2> QED BY <1>2, Least
<1>4. m <= Len(s) + 1 /\ m \in Nat
  BY <1>1, <1>3
<1>5. m = 0
  <2> SUFFICES ASSUME m # 0 PROVE FALSE
    OBVIOUS
  <2>1. PICK f : f = [i \in From(m) |-> Following(s, i, f)]
    BY <1>3
  <2>2. PICK g : g = [i \in From(m - 1) |-> IF i = m - 1 THEN Following(s, m - 1, f) ELSE f[i]]
    OBVIOUS
  <2>3. From(m) \subseteq From(m - 1) /\ m - 1 \in From(m - 1) /\ From(m - 1) = From(m) \union {m - 1} /\ m - 1 \notin From(m)
    BY <1>4
  <2>4. \A i \in From(m) : g[i] = f[i]
    <3> HIDE DEF From
    <3> QED BY <2>2, <2>3
  <2>5. ASSUME NEW i \in From(m - 1) PROVE Following(s, i, g) = Following(s, i, f)
    <3>1. CASE i > Len(s)
      BY <3>1 DEF Following
    <3>2. CASE ~(i > Len(s))
      <4>1. Grounding!SegmentAt(s, i).to \in From(m)
        BY <1>4, <3>2, SegmentsAdvance
      <4>2. g[Grounding!SegmentAt(s, i).to] = f[Grounding!SegmentAt(s, i).to]
        BY <4>1, <2>4
      <4> QED BY <4>2 DEF Following
    <3> QED BY <3>1, <3>2
  <2>6. ASSUME NEW i \in From(m - 1) PROVE g[i] = Following(s, i, g)
    <3>1. CASE i = m - 1
      <4> HIDE DEF From
      <4> QED BY <3>1, <2>2, <2>5
    <3>2. CASE i # m - 1
      <4>1. i \in From(m) /\ g[i] = f[i]
        BY <3>2, <1>4, <2>4
      <4>2. f[i] = Following(s, i, f)
        <5> HIDE DEF From
        <5> QED BY <4>1, <2>1
      <4> QED BY <4>1, <4>2, <2>5
    <3> QED BY <3>1, <3>2
  <2>7. g = [i \in From(m - 1) |-> Following(s, i, g)]
    <3> HIDE DEF From
    <3> QED BY <2>2, <2>6
  <2>8. m - 1 \in T
    <3>1. m - 1 \in Nat
      BY <1>4
    <3> HIDE DEF From
    <3> QED BY <2>7, <3>1
  <2>9. m <= m - 1
    BY <2>8, <1>3
  <2> QED BY <2>9, <1>4
<1>6. From(0) = Nat
  OBVIOUS
<1> QED BY <1>3, <1>5, <1>6

LEMMA SegmentsAreChained ==
  ASSUME NEW s \in Seq(Grounding!Character)
  PROVE  Chain(s, 1, Grounding!Segments(s))
<1> DEFINE f == CHOOSE from : from = [i \in Nat |-> Following(s, i, from)]
<1>1. Grounding!Segments(s) = f[1]
  BY DEF Grounding!Segments, Following
<1>2. f = [i \in Nat |-> Following(s, i, f)]
  BY SegmentsRecur
<1> HIDE DEF f
<1>3. \A i \in Nat : f[i] = Following(s, i, f)
  BY <1>2
<1> DEFINE T == {n \in Nat : \A i \in 1 .. Len(s) + 1 : i + n >= Len(s) + 1 => Chain(s, i, f[i])}
<1>4. Chain(s, Len(s) + 1, f[Len(s) + 1])
  <2>1. Len(s) + 1 \in Nat /\ Len(s) + 1 > Len(s)
    OBVIOUS
  <2>3. f[Len(s) + 1] = <<>>
    BY <1>3, <2>1 DEF Following
  <2>2. Chain(s, Len(s) + 1, <<>>)
    BY DEF Chain
  <2> QED BY <2>3, <2>2
<1>5. 0 \in T
  <2>1. \A i \in 1 .. Len(s) + 1 : i + 0 >= Len(s) + 1 => i = Len(s) + 1
    OBVIOUS
  <2> QED BY <2>1, <1>4
<1>6. ASSUME NEW n \in Nat, n \in T PROVE n + 1 \in T
  <2> SUFFICES ASSUME NEW i \in 1 .. Len(s) + 1, i + (n + 1) >= Len(s) + 1 PROVE Chain(s, i, f[i])
    OBVIOUS
  <2>1. CASE i = Len(s) + 1
    BY <2>1, <1>4
  <2>2. CASE i # Len(s) + 1
    <3>1. i \in 1 .. Len(s) /\ i \in Nat /\ ~(i > Len(s))
      BY <2>2
    <3>2. Grounding!SegmentAt(s, i).to \in i + 1 .. Len(s) + 1
      BY <3>1, SegmentsAdvance
    <3>3. Chain(s, Grounding!SegmentAt(s, i).to, f[Grounding!SegmentAt(s, i).to])
      BY <3>1, <3>2, <1>6
    <3>4. f[i] = <<Grounding!SegmentAt(s, i)>> \o f[Grounding!SegmentAt(s, i).to]
      BY <3>1, <1>3 DEF Following
    <3> QED BY <3>1, <3>3, <3>4, ChainsGrow
  <2> QED BY <2>1, <2>2
<1>7. Len(s) \in T
  <2> HIDE DEF T
  <2> QED BY <1>5, <1>6, Steps
<1> QED BY <1>1, <1>7

(* There is no other way to cut it.                                          *)
LEMMA ChainsAreUnique ==
  ASSUME NEW s \in Seq(Grounding!Character), NEW i \in 1 .. Len(s) + 1, NEW p, NEW q, Chain(s, i, p), Chain(s, i, q)
  PROVE  p = q
<1>1. p \in Seq(ASegment) /\ q \in Seq(ASegment)
  BY DEF Chain
<1> DEFINE T == {k \in Nat : k + 1 \in 1 .. Len(p) /\ k + 1 \in 1 .. Len(q) => p[k + 1] = q[k + 1]}
<1>2. 0 \in T
  <2> SUFFICES ASSUME 1 \in 1 .. Len(p), 1 \in 1 .. Len(q) PROVE p[1] = q[1]
    OBVIOUS
  <2>1. p # <<>> /\ q # <<>>
    BY <1>1
  <2>2. p[1].from = i /\ q[1].from = i /\ p[1] = Grounding!SegmentAt(s, p[1].from) /\ q[1] = Grounding!SegmentAt(s, q[1].from)
    BY <2>1 DEF Chain
  <2> QED BY <2>2
<1>3. ASSUME NEW k \in Nat, k \in T PROVE k + 1 \in T
  <2> DEFINE j == k + 1
  <2> SUFFICES ASSUME j + 1 \in 1 .. Len(p), j + 1 \in 1 .. Len(q) PROVE p[j + 1] = q[j + 1]
    OBVIOUS
  <2>1. j \in 1 .. Len(p) /\ j \in 1 .. Len(q) /\ j \in 1 .. Len(p) - 1 /\ j \in 1 .. Len(q) - 1
    BY <1>1
  <2>2. p[j] = q[j]
    BY <1>3, <2>1
  <2> HIDE DEF j
  <2>3. p[j + 1].from = p[j].to /\ q[j + 1].from = q[j].to
    BY <2>1 DEF Chain
  <2>4. p[j + 1] = Grounding!SegmentAt(s, p[j + 1].from) /\ q[j + 1] = Grounding!SegmentAt(s, q[j + 1].from)
    BY DEF Chain
  <2> QED BY <2>2, <2>3, <2>4
<1>4. Nat \subseteq T
  <2> HIDE DEF T
  <2> QED BY <1>2, <1>3, Steps
<1>5. \A k \in 1 .. Len(p) : k \in 1 .. Len(q) => p[k] = q[k]
  <2> SUFFICES ASSUME NEW k \in 1 .. Len(p), k \in 1 .. Len(q) PROVE p[k] = q[k]
    OBVIOUS
  <2>1. k - 1 \in T /\ k - 1 + 1 = k
    BY <1>1, <1>4
  <2> QED BY <2>1
<1>6. ASSUME NEW a, NEW b, Chain(s, i, a), Chain(s, i, b),
             \A k \in 1 .. Len(a) : k \in 1 .. Len(b) => a[k] = b[k]
      PROVE  ~(Len(a) < Len(b))
  <2> SUFFICES ASSUME Len(a) < Len(b) PROVE FALSE
    OBVIOUS
  <2>1. a \in Seq(ASegment) /\ b \in Seq(ASegment)
    BY <1>6 DEF Chain
  <2>2. CASE a = <<>>
    <3>1. i = Len(s) + 1 /\ 1 \in 1 .. Len(b)
      BY <2>1, <2>2, <1>6 DEF Chain
    <3>2. b[1].from \in i .. Len(s)
      BY <3>1, <1>6 DEF Chain
    <3> QED BY <3>1, <3>2
  <2>3. CASE a # <<>>
    <3>1. PICK n : n = Len(a)
      OBVIOUS
    <3>2. n \in 1 .. Len(a) /\ n \in 1 .. Len(b) /\ n \in 1 .. Len(b) - 1 /\ n + 1 \in 1 .. Len(b)
      BY <2>1, <2>3, <3>1
    <3>3. a[n].to = Len(s) + 1 /\ b[n + 1].from = b[n].to /\ b[n + 1].from \in i .. Len(s)
      BY <2>3, <3>1, <3>2, <1>6 DEF Chain
    <3>4. a[n] = b[n]
      BY <3>2, <1>6
    <3> QED BY <3>3, <3>4
  <2> QED BY <2>2, <2>3
<1>7. ~(Len(p) < Len(q))
  BY <1>5, <1>6
<1>8. \A k \in 1 .. Len(q) : k \in 1 .. Len(p) => q[k] = p[k]
  BY <1>5
<1>9. ~(Len(q) < Len(p))
  BY <1>8, <1>6
<1>10. Len(p) = Len(q)
  BY <1>1, <1>7, <1>9
<1> QED BY <1>1, <1>5, <1>10

-----------------------------------------------------------------------------
(* Joining texts                                                             *)

Joined(q, i, f) == IF i = 1 THEN q[i] ELSE f[i - 1] \o q[i]

LEMMA JoinsRecur ==
  ASSUME NEW S, NEW q \in Seq(Seq(S))
  PROVE  \E f : f = [i \in 1 .. Len(q) |-> Joined(q, i, f)]
<1> DEFINE T == {n \in Nat : \E f : f = [i \in 1 .. n |-> Joined(q, i, f)]}
<1>1. 0 \in T
  <2>1. PICK f : f = [i \in 1 .. 0 |-> 0]
    OBVIOUS
  <2>2. f = [i \in 1 .. 0 |-> Joined(q, i, f)]
    BY <2>1
  <2> QED BY <2>2
<1>2. ASSUME NEW n \in Nat, n \in T PROVE n + 1 \in T
  <2>1. PICK f : f = [i \in 1 .. n |-> Joined(q, i, f)]
    BY <1>2
  <2>2. PICK g : g = [i \in 1 .. n + 1 |-> IF i = n + 1 THEN Joined(q, n + 1, f) ELSE f[i]]
    OBVIOUS
  <2>3. \A i \in 1 .. n : g[i] = f[i]
    BY <2>2
  <2>4. ASSUME NEW i \in 1 .. n + 1 PROVE Joined(q, i, g) = Joined(q, i, f)
    <3>1. CASE i = 1
      BY <3>1 DEF Joined
    <3>2. CASE i # 1
      <4>1. g[i - 1] = f[i - 1]
        BY <3>2, <2>3
      <4> QED BY <3>2, <4>1 DEF Joined
    <3> QED BY <3>1, <3>2
  <2>5. ASSUME NEW i \in 1 .. n + 1 PROVE g[i] = Joined(q, i, g)
    <3>1. CASE i = n + 1
      BY <3>1, <2>2, <2>4
    <3>2. CASE i # n + 1
      <4>1. i \in 1 .. n
        BY <3>2
      <4>2. f[i] = Joined(q, i, f)
        BY <4>1, <2>1
      <4> QED BY <4>1, <4>2, <2>3, <2>4
    <3> QED BY <3>1, <3>2
  <2>6. g = [i \in 1 .. n + 1 |-> Joined(q, i, g)]
    BY <2>2, <2>5
  <2> QED BY <2>6
<1>3. Len(q) \in T
  <2>1. Len(q) \in Nat
    OBVIOUS
  <2> HIDE DEF T
  <2> QED BY <1>1, <1>2, <2>1, Steps
<1> QED BY <1>3

(* What FlattenSeq computes, by the texts joined so far.                     *)
LEMMA Joining ==
  ASSUME NEW S, NEW q \in Seq(Seq(S)), q # <<>>
  PROVE  \E f : /\ f \in [1 .. Len(q) -> Seq(S)] /\ f[1] = q[1]
                /\ \A i \in 2 .. Len(q) : f[i] = f[i - 1] \o q[i]
                /\ Grounding!FlattenSeq(q) = f[Len(q)]
<1> DEFINE f == CHOOSE flatten : flatten = [i \in 1 .. Len(q) |-> Joined(q, i, flatten)]
<1>1. Len(q) \in Nat /\ Len(q) # 0
  OBVIOUS
<1>2. Grounding!FlattenSeq(q) = f[Len(q)]
  BY <1>1 DEF Grounding!FlattenSeq, Joined
<1>3. f = [i \in 1 .. Len(q) |-> Joined(q, i, f)]
  BY JoinsRecur
<1> HIDE DEF f
<1>4. \A i \in 1 .. Len(q) : f[i] = Joined(q, i, f)
  BY <1>3
<1>5. f[1] = q[1]
  BY <1>1, <1>4 DEF Joined
<1>6. \A i \in 2 .. Len(q) : f[i] = f[i - 1] \o q[i]
  <2> SUFFICES ASSUME NEW i \in 2 .. Len(q) PROVE f[i] = f[i - 1] \o q[i]
    OBVIOUS
  <2>1. i \in 1 .. Len(q) /\ i # 1
    BY <1>1
  <2>2. Joined(q, i, f) = f[i - 1] \o q[i]
    BY <2>1 DEF Joined
  <2> QED BY <2>1, <2>2, <1>4
<1> DEFINE T == {n \in Nat : n + 1 \in 1 .. Len(q) => f[n + 1] \in Seq(S)}
<1>7. 0 \in T
  BY <1>1, <1>5
<1>8. ASSUME NEW n \in Nat, n \in T PROVE n + 1 \in T
  <2> SUFFICES ASSUME (n + 1) + 1 \in 1 .. Len(q) PROVE f[(n + 1) + 1] \in Seq(S)
    OBVIOUS
  <2>1. PICK m : m = (n + 1) + 1
    OBVIOUS
  <2>2. m \in 2 .. Len(q) /\ m - 1 = n + 1 /\ n + 1 \in 1 .. Len(q)
    BY <1>1, <2>1
  <2>3. f[m] = f[n + 1] \o q[m]
    BY <2>2, <1>6
  <2>4. f[n + 1] \in Seq(S) /\ q[m] \in Seq(S)
    BY <2>2, <1>8
  <2> QED BY <2>1, <2>3, <2>4
<1>9. Nat \subseteq T
  <2> HIDE DEF T
  <2> QED BY <1>7, <1>8, Steps
<1>10. \A i \in 1 .. Len(q) : f[i] \in Seq(S)
  <2> SUFFICES ASSUME NEW i \in 1 .. Len(q) PROVE f[i] \in Seq(S)
    OBVIOUS
  <2>1. \A n \in Nat : n + 1 \in 1 .. Len(q) => f[n + 1] \in Seq(S)
    BY <1>9
  <2>2. i - 1 \in Nat /\ i - 1 + 1 = i
    BY <1>1
  <2> QED BY <2>1, <2>2
<1>11. f \in [1 .. Len(q) -> Seq(S)]
  BY <1>3, <1>10
<1> QED BY <1>2, <1>5, <1>6, <1>11

LEMMA FlatIsASequence ==
  ASSUME NEW S, NEW q \in Seq(Seq(S))
  PROVE  Grounding!FlattenSeq(q) \in Seq(S)
<1>1. CASE q = <<>>
  BY <1>1 DEF Grounding!FlattenSeq
<1>2. CASE q # <<>>
  <2>1. Len(q) \in 1 .. Len(q)
    BY <1>2
  <2>2. PICK f : f \in [1 .. Len(q) -> Seq(S)] /\ Grounding!FlattenSeq(q) = f[Len(q)]
    BY <1>2, Joining
  <2> QED BY <2>1, <2>2
<1> QED BY <1>1, <1>2

LEMMA FlatOfNothing == Grounding!FlattenSeq(<<>>) = <<>>
BY DEF Grounding!FlattenSeq

LEMMA FlatAppends ==
  ASSUME NEW S, NEW q \in Seq(Seq(S)), NEW x \in Seq(S)
  PROVE  Grounding!FlattenSeq(Append(q, x)) = Grounding!FlattenSeq(q) \o x
<1>1. PICK p : p = Append(q, x)
  OBVIOUS
<1>2. p \in Seq(Seq(S)) /\ p # <<>> /\ Len(p) = Len(q) + 1 /\ p[Len(q) + 1] = x /\ \A i \in 1 .. Len(q) : p[i] = q[i]
  <2> DEFINE U == Seq(S)
  <2>1. q \in Seq(U) /\ x \in U
    OBVIOUS
  <2> HIDE DEF U
  <2>2. p \in Seq(U) /\ p # <<>> /\ Len(p) = Len(q) + 1 /\ p[Len(q) + 1] = x /\ \A i \in 1 .. Len(q) : p[i] = q[i]
    BY <1>1, <2>1
  <2> QED BY <2>2 DEF U
<1>3. PICK g : /\ g \in [1 .. Len(p) -> Seq(S)] /\ g[1] = p[1]
               /\ \A i \in 2 .. Len(p) : g[i] = g[i - 1] \o p[i]
               /\ Grounding!FlattenSeq(p) = g[Len(p)]
  BY <1>2, Joining
<1>4. CASE q = <<>>
  <2>1. Grounding!FlattenSeq(p) = x
    BY <1>2, <1>3, <1>4
  <2>2. Grounding!FlattenSeq(q) \o x = x
    BY <1>4, FlatOfNothing
  <2> QED BY <1>1, <2>1, <2>2
<1>5. CASE q # <<>>
  <2>1. PICK f : /\ f \in [1 .. Len(q) -> Seq(S)] /\ f[1] = q[1]
                 /\ \A i \in 2 .. Len(q) : f[i] = f[i - 1] \o q[i]
                 /\ Grounding!FlattenSeq(q) = f[Len(q)]
    BY <1>5, Joining
  <2> DEFINE T == {n \in Nat : n + 1 \in 1 .. Len(q) => f[n + 1] = g[n + 1]}
  <2>2. Len(q) \in Nat /\ Len(q) # 0
    BY <1>5
  <2>3. 0 \in T
    <3>1. 1 \in 1 .. Len(q)
      BY <2>2
    <3> QED BY <3>1, <2>1, <1>2, <1>3
  <2>4. ASSUME NEW n \in Nat, n \in T PROVE n + 1 \in T
    <3> SUFFICES ASSUME (n + 1) + 1 \in 1 .. Len(q) PROVE f[(n + 1) + 1] = g[(n + 1) + 1]
      OBVIOUS
    <3>1. PICK m : m = (n + 1) + 1
      OBVIOUS
    <3>2. m \in 2 .. Len(q) /\ m \in 2 .. Len(p) /\ m \in 1 .. Len(q) /\ m - 1 = n + 1 /\ n + 1 \in 1 .. Len(q)
      BY <2>2, <3>1, <1>2
    <3>3. f[m] = f[n + 1] \o q[m] /\ g[m] = g[n + 1] \o p[m] /\ p[m] = q[m]
      BY <3>2, <2>1, <1>2, <1>3
    <3>4. f[n + 1] = g[n + 1]
      BY <3>2, <2>4
    <3> QED BY <3>1, <3>3, <3>4
  <2>5. Nat \subseteq T
    <3> HIDE DEF T
    <3> QED BY <2>3, <2>4, Steps
  <2>6. f[Len(q)] = g[Len(q)]
    <3>1. \A n \in Nat : n + 1 \in 1 .. Len(q) => f[n + 1] = g[n + 1]
      BY <2>5
    <3>2. Len(q) - 1 \in Nat /\ Len(q) - 1 + 1 = Len(q) /\ Len(q) \in 1 .. Len(q)
      BY <2>2
    <3> QED BY <3>1, <3>2
  <2>7. Len(p) \in 2 .. Len(p) /\ Len(p) - 1 = Len(q)
    BY <2>2, <1>2
  <2>8. Grounding!FlattenSeq(p) = g[Len(q)] \o x
    BY <2>7, <1>2, <1>3
  <2> QED BY <1>1, <2>1, <2>6, <2>8
<1> QED BY <1>4, <1>5


Regroups(x, b, c, d, y) == ((x \o b) \o c) \o (d \o y) = (x \o ((b \o c) \o d)) \o y

LEMMA FiveTexts ==
  ASSUME NEW x \in Seq(Emitted), NEW b \in Seq(Emitted), NEW c \in Seq(Emitted),
         NEW d \in Seq(Emitted), NEW y \in Seq(Emitted)
  PROVE  Regroups(x, b, c, d, y)
<1> DEFINE U == Seq(Emitted)
<1>1. ASSUME NEW p \in U, NEW q \in U, NEW r \in U PROVE (p \o q) \o r = p \o (q \o r)
  BY SMTT(60)
<1>2. \A p, q \in U : p \o q \in U
  OBVIOUS
<1>3. x \in U /\ b \in U /\ c \in U /\ d \in U /\ y \in U
  OBVIOUS
<1> HIDE DEF U
<1>4. PICK m : m = b \o c
  OBVIOUS
<1>5. m \in U
  BY <1>2, <1>3, <1>4
<1>6. (x \o b) \o c = x \o m
  BY <1>1, <1>3, <1>4
<1>7. (x \o m) \o d = x \o (m \o d)
  <2>1. x \in U /\ m \in U /\ d \in U
    BY <1>3, <1>5
  <2> QED BY <2>1, <1>1
<1>8. PICK n : n = x \o m
  OBVIOUS
<1>9. n \in U
  BY <1>2, <1>3, <1>5, <1>8
<1>10. n \o (d \o y) = (n \o d) \o y
  BY <1>1, <1>3, <1>9, Zenon
<1> QED BY <1>4, <1>6, <1>7, <1>8, <1>10, Zenon DEF Regroups

LEMMA FlatConcatenates ==
  ASSUME NEW S, NEW p \in Seq(Seq(S)), NEW q \in Seq(Seq(S))
  PROVE  Grounding!FlattenSeq(p \o q) = Grounding!FlattenSeq(p) \o Grounding!FlattenSeq(q)
<1> DEFINE U == Seq(S)
<1> DEFINE T == {n \in Nat : n <= Len(q) => Grounding!FlattenSeq(p \o SubSeq(q, 1, n)) = Grounding!FlattenSeq(p) \o Grounding!FlattenSeq(SubSeq(q, 1, n))}
<1>1. p \in Seq(U) /\ q \in Seq(U)
  OBVIOUS
<1>2. Grounding!FlattenSeq(p) \in Seq(S)
  BY FlatIsASequence
<1>3. 0 \in T
  <2>1. SubSeq(q, 1, 0) = <<>> /\ p \o <<>> = p
    <3> HIDE DEF U
    <3> QED BY <1>1
  <2>2. Grounding!FlattenSeq(p) \o <<>> = Grounding!FlattenSeq(p)
    BY <1>2
  <2> QED BY <2>1, <2>2, FlatOfNothing
<1>4. ASSUME NEW n \in Nat, n \in T PROVE n + 1 \in T
  <2> SUFFICES ASSUME n + 1 <= Len(q)
               PROVE  Grounding!FlattenSeq(p \o SubSeq(q, 1, n + 1)) = Grounding!FlattenSeq(p) \o Grounding!FlattenSeq(SubSeq(q, 1, n + 1))
    OBVIOUS
  <2>1. PICK r : r = SubSeq(q, 1, n)
    OBVIOUS
  <2>2. PICK x : x = q[n + 1]
    OBVIOUS
  <2>3. /\ r \in Seq(U) /\ p \o r \in Seq(U) /\ x \in U
        /\ SubSeq(q, 1, n + 1) = Append(r, x)
        /\ p \o Append(r, x) = Append(p \o r, x)
    <3> HIDE DEF U
    <3>1. n + 1 \in 1 .. Len(q)
      BY <1>1
    <3>2. r \in Seq(U) /\ x \in U /\ Len(r) = n
      BY <1>1, <2>1, <2>2, <3>1
    <3>3. SubSeq(q, 1, n + 1) = Append(r, x)
      <4>1. \A i \in 1 .. n + 1 : SubSeq(q, 1, n + 1)[i] = Append(r, x)[i]
        BY <1>1, <2>1, <2>2, <3>1, <3>2
      <4>2. SubSeq(q, 1, n + 1) \in Seq(U) /\ Len(SubSeq(q, 1, n + 1)) = n + 1 /\ Append(r, x) \in Seq(U) /\ Len(Append(r, x)) = n + 1
        BY <1>1, <3>1, <3>2
      <4> QED BY <4>1, <4>2, SeqEqual
    <3>4. p \o Append(r, x) = Append(p \o r, x)
      BY <1>1, <3>2
    <3> QED BY <1>1, <3>2, <3>3, <3>4
  <2>4. Grounding!FlattenSeq(Append(r, x)) = Grounding!FlattenSeq(r) \o x /\ Grounding!FlattenSeq(Append(p \o r, x)) = Grounding!FlattenSeq(p \o r) \o x
    BY <2>3, FlatAppends
  <2>5. Grounding!FlattenSeq(p \o r) = Grounding!FlattenSeq(p) \o Grounding!FlattenSeq(r)
    BY <1>4, <2>1
  <2>6. Grounding!FlattenSeq(r) \in Seq(S) /\ x \in Seq(S)
    BY <2>3, FlatIsASequence
  <2>8. (Grounding!FlattenSeq(p) \o Grounding!FlattenSeq(r)) \o x = Grounding!FlattenSeq(p) \o (Grounding!FlattenSeq(r) \o x)
    <3>1. ASSUME NEW a \in Seq(S), NEW b \in Seq(S), NEW c \in Seq(S) PROVE (a \o b) \o c = a \o (b \o c)
      BY SMTT(60)
    <3>2. Grounding!FlattenSeq(p) \in Seq(S) /\ Grounding!FlattenSeq(r) \in Seq(S) /\ x \in Seq(S)
      BY <1>2, <2>6
    <3> QED BY <3>1, <3>2, Zenon
  <2> QED BY <2>3, <2>4, <2>5, <2>8
<1>5. Len(q) \in T
  <2>1. Len(q) \in Nat
    OBVIOUS
  <2> HIDE DEF T
  <2> QED BY <1>3, <1>4, <2>1, Steps
<1>6. SubSeq(q, 1, Len(q)) = q
  BY SubSeqFull
<1>7. Grounding!FlattenSeq(p \o SubSeq(q, 1, Len(q))) = Grounding!FlattenSeq(p) \o Grounding!FlattenSeq(SubSeq(q, 1, Len(q)))
  BY <1>5
<1> QED BY <1>6, <1>7

LEMMA PartsJoin ==
  ASSUME NEW S, NEW q \in Seq(S), NEW m \in 0 .. Len(q), NEW n \in m .. Len(q)
  PROVE  SubSeq(q, 1, m) \o SubSeq(q, m + 1, n) = SubSeq(q, 1, n)
<1>1. PICK a, b, c : a = SubSeq(q, 1, m) /\ b = SubSeq(q, m + 1, n) /\ c = SubSeq(q, 1, n)
  OBVIOUS
<1>2. a \in Seq(S) /\ Len(a) = m /\ \A k \in 1 .. m : a[k] = q[k]
  BY <1>1
<1>3. b \in Seq(S) /\ Len(b) = n - m /\ \A k \in 1 .. n - m : b[k] = q[m + k]
  BY <1>1
<1>4. c \in Seq(S) /\ Len(c) = n /\ \A k \in 1 .. n : c[k] = q[k]
  BY <1>1
<1>0. m \in Nat /\ n \in Nat /\ m <= n /\ n <= Len(q)
  OBVIOUS
<1>5. a \o b \in Seq(S) /\ Len(a \o b) = n
  BY <1>0, <1>2, <1>3
<1>6. ASSUME NEW k \in 1 .. n PROVE (a \o b)[k] = c[k]
  <2>1. CASE k <= m
    <3>1. k \in 1 .. m
      BY <1>0, <2>1
    <3>2. (a \o b)[k] = a[k]
      BY <3>1, <1>0, <1>2, <1>3
    <3> QED BY <3>1, <3>2, <1>2, <1>4
  <2>2. CASE ~(k <= m)
    <3>1. k - m \in 1 .. n - m /\ m + (k - m) = k
      BY <1>0, <2>2
    <3>2. (a \o b)[k] = b[k - m]
      <4>1. k \in 1 .. Len(a) + Len(b) /\ ~(k <= Len(a)) /\ Len(a) = m
        BY <2>2, <1>0, <1>2, <1>3
      <4> QED BY <4>1, <1>2, <1>3
    <3>3. b[k - m] = q[k]
      BY <3>1, <1>3
    <3> QED BY <3>2, <3>3, <1>4
  <2> QED BY <2>1, <2>2
<1> QED BY <1>1, <1>4, <1>5, <1>6, SeqEqual

LEMMA OneElement ==
  ASSUME NEW S, NEW q \in Seq(S), Len(q) = 1
  PROVE  q = <<q[1]>> /\ q[1] \in S
<1>1. q[1] \in S
  OBVIOUS
<1>2. <<q[1]>> \in Seq(S) /\ Len(<<q[1]>>) = 1 /\ <<q[1]>>[1] = q[1]
  BY <1>1
<1> QED BY <1>1, <1>2, SeqEqual

LEMMA OnePart ==
  ASSUME NEW S, NEW q \in Seq(S), NEW k \in 1 .. Len(q)
  PROVE  SubSeq(q, k, k) = <<q[k]>>
<1>1. PICK p : p = SubSeq(q, k, k)
  OBVIOUS
<1>2. p \in Seq(S) /\ Len(p) = 1
  BY <1>1
<1>4. p[1] = q[k]
  BY <1>1
<1>3. p = <<p[1]>>
  BY <1>2, OneElement
<1> QED BY <1>1, <1>4, <1>3

LEMMA FlatSplits ==
  ASSUME NEW S, NEW q \in Seq(Seq(S)), NEW m \in 0 .. Len(q), NEW n \in m .. Len(q)
  PROVE  Grounding!FlattenSeq(SubSeq(q, 1, n)) = Grounding!FlattenSeq(SubSeq(q, 1, m)) \o Grounding!FlattenSeq(SubSeq(q, m + 1, n))
<1> DEFINE U == Seq(S)
<1>1. PICK a : a = SubSeq(q, 1, m)
  OBVIOUS
<1>2. PICK b : b = SubSeq(q, m + 1, n)
  OBVIOUS
<1>3. a \in Seq(U) /\ b \in Seq(U) /\ a \o b = SubSeq(q, 1, n)
  <2>1. q \in Seq(U) /\ 1 \in 1 .. Len(q) + 1 /\ m \in 0 .. Len(q)
    OBVIOUS
  <2> HIDE DEF U
  <2>2. SubSeq(q, 1, m) \o SubSeq(q, m + 1, n) = SubSeq(q, 1, n)
    BY <2>1, PartsJoin
  <2>3. a \in Seq(U) /\ b \in Seq(U)
    BY <2>1, <1>1, <1>2
  <2> QED BY <2>2, <2>3, <1>1, <1>2, Zenon
<1> QED BY <1>1, <1>2, <1>3, FlatConcatenates

LEMMA FlatOfOne ==
  ASSUME NEW S, NEW x \in Seq(S)
  PROVE  Grounding!FlattenSeq(<<x>>) = x
<1>1. <<x>> = Append(<<>>, x) /\ <<>> \in Seq(Seq(S))
  OBVIOUS
<1>2. <<>> \o x = x
  OBVIOUS
<1> QED BY <1>1, <1>2, FlatAppends, FlatOfNothing

(* A part of the middle of three texts.                                      *)
LEMMA MiddlePart ==
  ASSUME NEW S, NEW a \in Seq(S), NEW m \in Seq(S), NEW c \in Seq(S), NEW i \in Nat, NEW j \in Nat,
         i <= j, j <= Len(m)
  PROVE  Grounding!Slice((a \o m) \o c, Len(a) + i, Len(a) + j) = Grounding!Slice(m, i, j)
<1>1. PICK t : t = (a \o m) \o c
  OBVIOUS
<1>2. t \in Seq(S) /\ Len(t) = Len(a) + Len(m) + Len(c) /\ \A k \in 1 .. Len(m) : t[Len(a) + k] = m[k]
  BY <1>1
<1>3. PICK p : p = Grounding!Slice(t, Len(a) + i, Len(a) + j)
  OBVIOUS
<1>4. PICK r : r = Grounding!Slice(m, i, j)
  OBVIOUS
<1>5. p \in Seq(S) /\ Len(p) = j - i /\ \A k \in 1 .. j - i : p[k] = t[Len(a) + i + k]
  BY <1>2, <1>3 DEF Grounding!Slice
<1>6. r \in Seq(S) /\ Len(r) = j - i /\ \A k \in 1 .. j - i : r[k] = m[i + k]
  BY <1>4 DEF Grounding!Slice
<1>7. ASSUME NEW k \in 1 .. j - i PROVE p[k] = r[k]
  <2>1. i + k \in 1 .. Len(m) /\ Len(a) + i + k = Len(a) + (i + k)
    OBVIOUS
  <2> QED BY <2>1, <1>2, <1>5, <1>6
<1> QED BY <1>1, <1>3, <1>4, <1>5, <1>6, <1>7, SeqEqual

LEMMA SlicesAreTexts ==
  ASSUME NEW S, NEW t \in Seq(S), NEW i \in Nat, NEW j \in Nat, i <= j, j <= Len(t)
  PROVE  Grounding!Slice(t, i, j) \in Seq(S) /\ Len(Grounding!Slice(t, i, j)) = j - i /\ \A k \in 1 .. j - i : Grounding!Slice(t, i, j)[k] = t[i + k]
<1> QED BY DEF Grounding!Slice

(* What lies in the middle of a text occurs in it.                           *)
LEMMA MiddleOccurs ==
  ASSUME NEW S, NEW a \in Seq(S), NEW m \in Seq(S), NEW c \in Seq(S), NEW i \in Nat, NEW j \in Nat,
         i <= j, j <= Len(m)
  PROVE  Grounding!IsWithin((a \o m) \o c, Grounding!Slice(m, i, j))
<1>1. PICK t : t = (a \o m) \o c
  OBVIOUS
<1>2. t \in Seq(S) /\ Len(t) = Len(a) + Len(m) + Len(c)
  BY <1>1
<1>3. PICK r : r = Grounding!Slice(m, i, j)
  OBVIOUS
<1>4. r \in Seq(S) /\ Len(r) = j - i
  BY <1>3, SlicesAreTexts
<1>5. Grounding!Slice(t, Len(a) + i, (Len(a) + i) + Len(r)) = r
  <2>1. (Len(a) + i) + Len(r) = Len(a) + j
    BY <1>4
  <2> QED BY <2>1, <1>1, <1>3, MiddlePart
<1>6. Len(a) + i \in 0 .. Len(t) - Len(r)
  BY <1>2, <1>4
<1>7. Len(a) + i \in Grounding!Occurrences(t, r)
  BY <1>5, <1>6 DEF Grounding!Occurrences
<1> QED BY <1>1, <1>3, <1>7 DEF Grounding!IsWithin

(* Two texts of segments that differ, if at all, where the one is empty at an *)
(* end: the one occurs in the other.                                         *)
LEMMA PatchedAtTheEnds ==
  ASSUME NEW t \in Seq(Seq(Emitted)), NEW h \in Seq(Seq(Emitted)), Len(t) = Len(h), t # <<>>,
         \A k \in 1 .. Len(t) : h[k] = t[k] \/ (t[k] = <<>> /\ (k = 1 \/ k = Len(t)))
  PROVE  \E x, y \in Seq(Emitted) : Grounding!FlattenSeq(h) = (x \o Grounding!FlattenSeq(t)) \o y
<1> DEFINE U == Seq(Emitted)
<1>0. t \in Seq(U) /\ h \in Seq(U) /\ Len(t) \in Nat \ {0}
  OBVIOUS
<1>1. CASE Len(t) = 1
  <2>1. t = <<t[1]>> /\ h = <<h[1]>> /\ t[1] \in U /\ h[1] \in U
    <3> HIDE DEF U
    <3> QED BY <1>0, <1>1, OneElement
  <2>2. Grounding!FlattenSeq(t) = t[1] /\ Grounding!FlattenSeq(h) = h[1]
    BY <2>1, FlatOfOne
  <2>3. CASE h[1] = t[1]
    <3>1. h[1] = (<<>> \o t[1]) \o <<>> /\ <<>> \in Seq(Emitted)
      BY <2>1, <2>3
    <3> QED BY <3>1, <2>2
  <2>4. CASE h[1] # t[1]
    <3>1. t[1] = <<>>
      BY <1>0, <1>1, <2>4
    <3>2. h[1] = (h[1] \o t[1]) \o <<>> /\ <<>> \in Seq(Emitted)
      BY <2>1, <3>1
    <3> QED BY <2>1, <3>2, <2>2
  <2> QED BY <2>3, <2>4
<1>2. CASE Len(t) # 1
  <2>1. PICK n : n = Len(t)
    OBVIOUS
  <2>2. n \in Nat /\ n >= 2 /\ 1 \in 1 .. n /\ n \in 1 .. n /\ n - 1 \in 1 .. n /\ n - 1 \in 0 .. n
    BY <1>0, <1>2, <2>1
  <2>3. PICK m : m = SubSeq(t, 2, n - 1)
    OBVIOUS
  <2>4. SubSeq(h, 2, n - 1) = m
    <3> HIDE DEF U
    <3>1. \A k \in 2 .. n - 1 : h[k] = t[k]
      BY <2>1, <2>2
    <3>2. SubSeq(t, 2, n - 1) \in Seq(U) /\ SubSeq(h, 2, n - 1) \in Seq(U) /\ Len(SubSeq(t, 2, n - 1)) = n - 2 /\ Len(SubSeq(h, 2, n - 1)) = n - 2
      BY <1>0, <2>1, <2>2
    <3>3. ASSUME NEW k \in 1 .. n - 2 PROVE SubSeq(h, 2, n - 1)[k] = SubSeq(t, 2, n - 1)[k]
      <4>1. k + 1 \in 2 .. n - 1
        BY <2>2
      <4>2. SubSeq(h, 2, n - 1)[k] = h[k + 1] /\ SubSeq(t, 2, n - 1)[k] = t[k + 1]
        BY <1>0, <2>1, <2>2
      <4> QED BY <4>1, <4>2, <3>1
    <3> QED BY <2>2, <2>3, <3>2, <3>3, SeqEqual
  <2>5. m \in Seq(U) /\ t[1] \in U /\ h[1] \in U /\ t[n] \in U /\ h[n] \in U
    <3> HIDE DEF U
    <3> QED BY <1>0, <2>1, <2>2, <2>3
  <2>6. Grounding!FlattenSeq(m) \in Seq(Emitted)
    BY <2>5, FlatIsASequence
  <2>7. ASSUME NEW q \in Seq(U), Len(q) = n, SubSeq(q, 2, n - 1) = m
        PROVE  Grounding!FlattenSeq(q) = (q[1] \o Grounding!FlattenSeq(m)) \o q[n]
    <3>1. q = SubSeq(q, 1, n) /\ SubSeq(q, 1, 1) = <<q[1]>> /\ SubSeq(q, n, n) = <<q[n]>> /\ n - 1 + 1 = n /\ 1 + 1 = 2
      <4> HIDE DEF U
      <4>1. SubSeq(q, 1, Len(q)) = q
        BY <2>7, SubSeqFull
      <4>2. \A k \in 1 .. Len(q) : SubSeq(q, k, k) = <<q[k]>>
        BY <2>7, OnePart
      <4> QED BY <2>2, <2>7, <4>1, <4>2
    <3>2. Grounding!FlattenSeq(q) = Grounding!FlattenSeq(SubSeq(q, 1, n - 1)) \o Grounding!FlattenSeq(SubSeq(q, n, n))
      <4>1. n - 1 \in 0 .. Len(q) /\ n \in n - 1 .. Len(q)
        BY <2>2, <2>7
      <4>2. Grounding!FlattenSeq(SubSeq(q, 1, n)) = Grounding!FlattenSeq(SubSeq(q, 1, n - 1)) \o Grounding!FlattenSeq(SubSeq(q, n - 1 + 1, n))
        BY <4>1, FlatSplits
      <4> QED BY <4>2, <3>1
    <3>3. Grounding!FlattenSeq(SubSeq(q, 1, n - 1)) = Grounding!FlattenSeq(SubSeq(q, 1, 1)) \o Grounding!FlattenSeq(m)
      <4>1. 1 \in 0 .. Len(q) /\ n - 1 \in 1 .. Len(q)
        BY <2>2, <2>7
      <4>2. Grounding!FlattenSeq(SubSeq(q, 1, n - 1)) = Grounding!FlattenSeq(SubSeq(q, 1, 1)) \o Grounding!FlattenSeq(SubSeq(q, 1 + 1, n - 1))
        BY <4>1, FlatSplits
      <4> QED BY <4>2, <3>1, <2>7
    <3>4. q[1] \in Seq(Emitted) /\ q[n] \in Seq(Emitted)
      BY <2>2, <2>7
    <3>5. Grounding!FlattenSeq(<<q[1]>>) = q[1] /\ Grounding!FlattenSeq(<<q[n]>>) = q[n]
      BY <3>4, FlatOfOne
    <3> QED BY <3>1, <3>2, <3>3, <3>5
  <2>8. Grounding!FlattenSeq(t) = (t[1] \o Grounding!FlattenSeq(m)) \o t[n] /\ Grounding!FlattenSeq(h) = (h[1] \o Grounding!FlattenSeq(m)) \o h[n]
    BY <1>0, <2>1, <2>3, <2>4, <2>7
  <2>9. PICK x \in Seq(Emitted) : h[1] = x \o t[1]
    <3>1. CASE h[1] = t[1]
      <4>1. h[1] = <<>> \o t[1] /\ <<>> \in Seq(Emitted)
        BY <2>5, <3>1
      <4> QED BY <4>1
    <3>2. CASE h[1] # t[1]
      <4>1. t[1] = <<>>
        BY <2>1, <2>2, <3>2
      <4>2. h[1] = h[1] \o t[1] /\ h[1] \in Seq(Emitted)
        BY <2>5, <4>1
      <4> QED BY <4>2
    <3> QED BY <3>1, <3>2
  <2>10. PICK y \in Seq(Emitted) : h[n] = t[n] \o y
    <3>1. CASE h[n] = t[n]
      <4>1. h[n] = t[n] \o <<>> /\ <<>> \in Seq(Emitted)
        BY <2>5, <3>1
      <4> QED BY <4>1
    <3>2. CASE h[n] # t[n]
      <4>1. t[n] = <<>>
        BY <2>1, <2>2, <3>2
      <4>2. h[n] = t[n] \o h[n] /\ h[n] \in Seq(Emitted)
        BY <2>5, <4>1
      <4> QED BY <4>2
    <3> QED BY <3>1, <3>2
  <2>11. ((x \o t[1]) \o Grounding!FlattenSeq(m)) \o (t[n] \o y) = (x \o ((t[1] \o Grounding!FlattenSeq(m)) \o t[n])) \o y
    <3>1. PICK b, d, c : b = t[1] /\ d = t[n] /\ c = Grounding!FlattenSeq(m)
      OBVIOUS
    <3>2. b \in Seq(Emitted) /\ c \in Seq(Emitted) /\ d \in Seq(Emitted)
      BY <2>5, <2>6, <3>1
    <3>3. ((x \o b) \o c) \o (d \o y) = (x \o ((b \o c) \o d)) \o y
      <4>1. Regroups(x, b, c, d, y)
        BY <3>2, FiveTexts
      <4> QED BY <4>1 DEF Regroups
    <3> QED BY <3>1, <3>3, Zenon
  <2> QED BY <2>8, <2>9, <2>10, <2>11
<1> QED BY <1>1, <1>2

-----------------------------------------------------------------------------
(* A view and the segments it is joined from                                 *)

LEMMA TextsAreTyped ==
  ASSUME NEW g \in Seq(ASegment)
  PROVE  /\ Grounding!Texts(g) \in Seq(Seq(Emitted)) /\ Len(Grounding!Texts(g)) = Len(g)
         /\ \A k \in 1 .. Len(g) : Grounding!Texts(g)[k] = g[k].text
<1> DEFINE U == Seq(Emitted)
<1>1. ASSUME NEW k \in 1 .. Len(g) PROVE g[k].text \in U
  <2>1. g[k] \in ASegment
    OBVIOUS
  <2> HIDE DEF U
  <2>2. ASegment = [text : U, from : Nat, to : Nat]
    BY DEF ASegment, U
  <2> QED BY <2>1, <2>2
<1>2. Grounding!Texts(g) = [k \in 1 .. Len(g) |-> g[k].text]
  BY DEF Grounding!Texts
<1> HIDE DEF U
<1>3. Grounding!Texts(g) \in Seq(U) /\ Len(Grounding!Texts(g)) = Len(g) /\ \A k \in 1 .. Len(g) : Grounding!Texts(g)[k] = g[k].text
  BY <1>1, <1>2
<1> QED BY <1>3 DEF U

LEMMA TextsOfParts ==
  ASSUME NEW g \in Seq(ASegment), NEW a \in 1 .. Len(g) + 1, NEW b \in a - 1 .. Len(g)
  PROVE  Grounding!Texts(SubSeq(g, a, b)) = SubSeq(Grounding!Texts(g), a, b)
<1> DEFINE U == Seq(Emitted)
<1>1. PICK p : p = SubSeq(g, a, b)
  OBVIOUS
<1>2. p \in Seq(ASegment) /\ Len(p) = b - a + 1 /\ \A k \in 1 .. b - a + 1 : p[k] = g[a + k - 1]
  BY <1>1
<1>3. Grounding!Texts(p) \in Seq(U) /\ Len(Grounding!Texts(p)) = b - a + 1 /\ \A k \in 1 .. b - a + 1 : Grounding!Texts(p)[k] = g[a + k - 1].text
  BY <1>2, TextsAreTyped
<1>4. Grounding!Texts(g) \in Seq(U) /\ Len(Grounding!Texts(g)) = Len(g) /\ \A k \in 1 .. Len(g) : Grounding!Texts(g)[k] = g[k].text
  BY TextsAreTyped
<1> HIDE DEF U
<1>5. PICK t, r : t = Grounding!Texts(g) /\ r = SubSeq(t, a, b)
  OBVIOUS
<1>6. r \in Seq(U) /\ Len(r) = b - a + 1 /\ \A k \in 1 .. b - a + 1 : r[k] = t[a + k - 1]
  BY <1>4, <1>5
<1>7. ASSUME NEW k \in 1 .. b - a + 1 PROVE Grounding!Texts(p)[k] = r[k]
  <2>1. a + k - 1 \in 1 .. Len(g)
    OBVIOUS
  <2> QED BY <2>1, <1>3, <1>4, <1>5, <1>6
<1> QED BY <1>1, <1>3, <1>5, <1>6, <1>7, SeqEqual

(* Where the texts of segments begin in the view.                            *)
LEMMA ViewStarts ==
  ASSUME NEW g \in Seq(ASegment)
  PROVE  /\ \A k \in 1 .. Len(g) + 1 : Grounding!ViewStart(g, k) \in Nat
         /\ Grounding!ViewStart(g, 1) = 0
         /\ Grounding!ViewStart(g, Len(g) + 1) = Len(Grounding!FlattenSeq(Grounding!Texts(g)))
         /\ \A a, b \in 1 .. Len(g) + 1 : a <= b =>
              Grounding!ViewStart(g, b) = Grounding!ViewStart(g, a) + Len(Grounding!FlattenSeq(SubSeq(Grounding!Texts(g), a, b - 1)))
<1>1. PICK t : t = Grounding!Texts(g)
  OBVIOUS
<1>2. t \in Seq(Seq(Emitted)) /\ Len(t) = Len(g) /\ Len(g) \in Nat
  BY <1>1, TextsAreTyped
<1>3. ASSUME NEW k \in 1 .. Len(g) + 1 PROVE Grounding!ViewStart(g, k) = Len(Grounding!FlattenSeq(SubSeq(t, 1, k - 1)))
  <2>1. 1 \in 1 .. Len(g) + 1 /\ k - 1 \in 1 - 1 .. Len(g)
    BY <1>2
  <2>2. Grounding!Texts(SubSeq(g, 1, k - 1)) = SubSeq(t, 1, k - 1)
    BY <2>1, <1>1, TextsOfParts
  <2> QED BY <2>2 DEF Grounding!ViewStart
<1> DEFINE U == Seq(Emitted)
<1>4. ASSUME NEW a \in Int, NEW b \in Int, a >= 1, b <= Len(t) PROVE SubSeq(t, a, b) \in Seq(U)
  <2>1. t \in Seq(U)
    BY <1>2
  <2> HIDE DEF U
  <2> QED BY <2>1, <1>4
<1>5. ASSUME NEW a \in Int, NEW b \in Int, a >= 1, b <= Len(t) PROVE Grounding!FlattenSeq(SubSeq(t, a, b)) \in Seq(Emitted)
  BY <1>4, <1>5, FlatIsASequence
<1>6. ASSUME NEW k \in 1 .. Len(g) + 1 PROVE Grounding!ViewStart(g, k) \in Nat
  <2>1. Grounding!FlattenSeq(SubSeq(t, 1, k - 1)) \in Seq(Emitted)
    BY <1>2, <1>5
  <2> QED BY <2>1, <1>3
<1>7. Grounding!ViewStart(g, 1) = 0
  <2>1. SubSeq(t, 1, 1 - 1) = <<>>
    BY <1>2
  <2>2. 1 \in 1 .. Len(g) + 1
    BY <1>2
  <2>3. Grounding!ViewStart(g, 1) = Len(Grounding!FlattenSeq(SubSeq(t, 1, 1 - 1)))
    BY <2>2, <1>3
  <2>4. Grounding!FlattenSeq(SubSeq(t, 1, 1 - 1)) = <<>>
    BY <2>1, FlatOfNothing
  <2> QED BY <2>3, <2>4
<1>8. Grounding!ViewStart(g, Len(g) + 1) = Len(Grounding!FlattenSeq(t))
  <2>1. SubSeq(t, 1, Len(g)) = t
    BY <1>2, SubSeqFull
  <2>2. Len(g) + 1 \in 1 .. Len(g) + 1 /\ Len(g) + 1 - 1 = Len(g)
    BY <1>2
  <2>3. Grounding!ViewStart(g, Len(g) + 1) = Len(Grounding!FlattenSeq(SubSeq(t, 1, Len(g) + 1 - 1)))
    BY <2>2, <1>3
  <2> QED BY <2>1, <2>2, <2>3
<1>9. ASSUME NEW a \in 1 .. Len(g) + 1, NEW b \in 1 .. Len(g) + 1, a <= b
      PROVE  Grounding!ViewStart(g, b) = Grounding!ViewStart(g, a) + Len(Grounding!FlattenSeq(SubSeq(t, a, b - 1)))
  <2>1. a - 1 \in 0 .. Len(t) /\ b - 1 \in a - 1 .. Len(t) /\ a - 1 + 1 = a
    BY <1>2, <1>9
  <2>2. Grounding!FlattenSeq(SubSeq(t, 1, b - 1)) = Grounding!FlattenSeq(SubSeq(t, 1, a - 1)) \o Grounding!FlattenSeq(SubSeq(t, a - 1 + 1, b - 1))
    BY <2>1, <1>2, FlatSplits
  <2>3. PICK p, q : p = Grounding!FlattenSeq(SubSeq(t, 1, a - 1)) /\ q = Grounding!FlattenSeq(SubSeq(t, a, b - 1))
    OBVIOUS
  <2>4. p \in Seq(Emitted) /\ q \in Seq(Emitted)
    BY <2>1, <2>3, <1>2, <1>5
  <2>5. Len(p \o q) = Len(p) + Len(q)
    BY <2>4
  <2> QED BY <2>1, <2>2, <2>3, <2>5, <1>3
<1> QED BY <1>1, <1>6, <1>7, <1>8, <1>9

(* A window that begins in segment a or later and ends in b or before is in  *)
(* the text of those segments.                                               *)
LEMMA WindowsInSegments ==
  ASSUME NEW g \in Seq(ASegment), NEW a \in 1 .. Len(g), NEW b \in a .. Len(g),
         NEW i \in Nat, NEW j \in Nat, Grounding!ViewStart(g, a) <= i, i <= j, j <= Grounding!ViewStart(g, b + 1)
  PROVE  LET part == Grounding!FlattenSeq(SubSeq(Grounding!Texts(g), a, b)) IN
         /\ part \in Seq(Emitted) /\ j - Grounding!ViewStart(g, a) <= Len(part)
         /\ Grounding!Slice(Grounding!FlattenSeq(Grounding!Texts(g)), i, j) = Grounding!Slice(part, i - Grounding!ViewStart(g, a), j - Grounding!ViewStart(g, a))
<1>1. PICK t : t = Grounding!Texts(g)
  OBVIOUS
<1>2. t \in Seq(Seq(Emitted)) /\ Len(t) = Len(g) /\ Len(g) \in Nat
  BY <1>1, TextsAreTyped
<1> DEFINE U == Seq(Emitted)
<1>3. ASSUME NEW m \in Int, NEW n \in Int, m >= 1, n <= Len(t) PROVE Grounding!FlattenSeq(SubSeq(t, m, n)) \in Seq(Emitted)
  <2>1. t \in Seq(U)
    BY <1>2
  <2>2. SubSeq(t, m, n) \in Seq(U)
    <3> HIDE DEF U
    <3> QED BY <2>1, <1>3
  <2> QED BY <2>2, FlatIsASequence
<1>4. PICK p, q, r, s : /\ p = Grounding!FlattenSeq(SubSeq(t, 1, a - 1)) /\ q = Grounding!FlattenSeq(SubSeq(t, a, b))
                        /\ r = Grounding!FlattenSeq(SubSeq(t, b + 1, Len(g))) /\ s = Grounding!FlattenSeq(SubSeq(t, 1, b))
  OBVIOUS
<1>5. p \in Seq(Emitted) /\ q \in Seq(Emitted) /\ r \in Seq(Emitted) /\ s \in Seq(Emitted)
  <2>1. a - 1 \in Int /\ b + 1 \in Int /\ a >= 1 /\ a - 1 <= Len(t) /\ b <= Len(t) /\ b + 1 >= 1 /\ Len(g) <= Len(t) /\ b \in Int /\ a \in Int
    BY <1>2
  <2>2. p \in Seq(Emitted)
    BY <2>1, <1>3, <1>4
  <2>3. q \in Seq(Emitted)
    BY <2>1, <1>3, <1>4
  <2>4. r \in Seq(Emitted)
    BY <2>1, <1>2, <1>3, <1>4
  <2>5. s \in Seq(Emitted)
    BY <2>1, <1>3, <1>4
  <2> QED BY <2>2, <2>3, <2>4, <2>5
<1>6. s = p \o q
  <2>1. a - 1 \in 0 .. Len(t) /\ b \in a - 1 .. Len(t) /\ a - 1 + 1 = a
    BY <1>2
  <2> QED BY <2>1, <1>2, <1>4, FlatSplits
<1>7. Grounding!FlattenSeq(t) = s \o r
  <2>1. b \in 0 .. Len(t) /\ Len(g) \in b .. Len(t)
    BY <1>2
  <2>2. SubSeq(t, 1, Len(g)) = t
    BY <1>2, SubSeqFull
  <2>3. Grounding!FlattenSeq(SubSeq(t, 1, Len(g))) = s \o r
    BY <2>1, <1>2, <1>4, FlatSplits
  <2> QED BY <2>2, <2>3
<1>8. Grounding!ViewStart(g, a) = Len(p)
  <2>1. SubSeq(t, 1, 1 - 1) = <<>>
    BY <1>2
  <2>2. 1 \in 1 .. Len(g) + 1 /\ a \in 1 .. Len(g) + 1 /\ 1 <= a
    BY <1>2
  <2>3. Grounding!ViewStart(g, a) = Grounding!ViewStart(g, 1) + Len(Grounding!FlattenSeq(SubSeq(t, 1, a - 1))) /\ Grounding!ViewStart(g, 1) = 0
    BY <2>2, <1>1, ViewStarts
  <2> QED BY <2>3, <1>4, <1>5
<1>9. Grounding!ViewStart(g, b + 1) = Len(p) + Len(q)
  <2>1. a \in 1 .. Len(g) + 1 /\ b + 1 \in 1 .. Len(g) + 1 /\ a <= b + 1 /\ b + 1 - 1 = b
    BY <1>2
  <2>2. Grounding!ViewStart(g, b + 1) = Grounding!ViewStart(g, a) + Len(Grounding!FlattenSeq(SubSeq(t, a, b + 1 - 1)))
    BY <2>1, <1>1, ViewStarts
  <2> QED BY <2>1, <2>2, <1>4, <1>8
<1>10. PICK x, y : x = i - Len(p) /\ y = j - Len(p)
  OBVIOUS
<1>11. x \in Nat /\ y \in Nat /\ x <= y /\ y <= Len(q) /\ i = Len(p) + x /\ j = Len(p) + y
  BY <1>5, <1>8, <1>9, <1>10
<1>12. Grounding!Slice((p \o q) \o r, Len(p) + x, Len(p) + y) = Grounding!Slice(q, x, y)
  BY <1>5, <1>11, MiddlePart
<1> QED BY <1>1, <1>4, <1>5, <1>6, <1>7, <1>8, <1>10, <1>11, <1>12

-----------------------------------------------------------------------------
(* A range of the source, folded for itself                                  *)

\* positions x .. y - 1 of s
Cut(s, x, y) == SubSeq(s, x, y - 1)

LEMMA Cuts ==
  ASSUME NEW s \in Seq(Grounding!Character), NEW x \in 1 .. Len(s) + 1, NEW y \in x .. Len(s) + 1
  PROVE  /\ Cut(s, x, y) \in Seq(Grounding!Character) /\ Len(Cut(s, x, y)) = y - x
         /\ \A i \in x .. y - 1 : Cut(s, x, y)[i - x + 1] = s[i]
<1>1. PICK u : u = SubSeq(s, x, y - 1)
  OBVIOUS
<1>2. u \in Seq(Grounding!Character) /\ Len(u) = y - x /\ \A k \in 1 .. y - x : u[k] = s[x + k - 1]
  BY <1>1
<1>3. ASSUME NEW i \in x .. y - 1 PROVE u[i - x + 1] = s[i]
  <2>1. i - x + 1 \in 1 .. y - x /\ x + (i - x + 1) - 1 = i
    OBVIOUS
  <2> QED BY <2>1, <1>2
<1> QED BY <1>1, <1>2, <1>3 DEF Cut

(* Runs of the range are those of the text, as far as the range goes.        *)
LEMMA CutRuns ==
  ASSUME NEW s \in Seq(Grounding!Character), NEW x \in 1 .. Len(s) + 1, NEW y \in x .. Len(s) + 1,
         NEW i \in x .. y, NEW class
  PROVE  Grounding!RunEnd(Cut(s, x, y), i - x + 1, class) =
           IF Grounding!RunEnd(s, i, class) <= y THEN Grounding!RunEnd(s, i, class) - x + 1 ELSE y - x + 1
<1>1. PICK u : u = Cut(s, x, y)
  OBVIOUS
<1>2. u \in Seq(Grounding!Character) /\ Len(u) = y - x /\ \A k \in x .. y - 1 : u[k - x + 1] = s[k]
  BY <1>1, Cuts
<1>3. PICK e : e = Grounding!RunEnd(s, i, class)
  OBVIOUS
<1>4. i \in Nat /\ i <= Len(s) + 1 /\ x \in Nat /\ y \in Nat /\ x <= i /\ i <= y /\ y <= Len(s) + 1
  OBVIOUS
<1>5. /\ e \in i .. Len(s) + 1
      /\ e > Len(s) \/ s[e] \notin class
      /\ \A j \in i .. Len(s) : j < e => s[j] \in class
  BY <1>3, <1>4, RunsHaveEnds
<1>6. PICK r : r = IF e <= y THEN e ELSE y
  OBVIOUS
<1>7. r \in i .. y /\ r <= e /\ (r = y \/ r = e)
  BY <1>4, <1>5, <1>6
<1>8. r - x + 1 > Len(u) \/ u[r - x + 1] \notin class
  <2>1. CASE r = y
    BY <2>1, <1>2, <1>4
  <2>2. CASE r # y
    <3>1. r = e /\ r \in x .. y - 1 /\ r <= Len(s)
      BY <2>2, <1>4, <1>7
    <3> QED BY <3>1, <1>2, <1>5
  <2> QED BY <2>1, <2>2
<1>9. ASSUME NEW j \in i - x + 1 .. Len(u), j < r - x + 1 PROVE u[j] \in class
  <2>0. j \in Int /\ i - x + 1 <= j /\ j <= y - x /\ j < r - x + 1 /\ r \in Int /\ e \in Int /\ r <= e /\ r <= y
    BY <1>2, <1>4, <1>5, <1>7, <1>9
  <2>1. PICK n : n = j + x - 1
    OBVIOUS
  <2>4. n \in Int /\ x <= n /\ i <= n /\ n <= y - 1 /\ n < e /\ n - x + 1 = j /\ n <= Len(s)
    BY <2>0, <2>1, <1>4
  <2>5. n \in x .. y - 1 /\ n \in i .. Len(s)
    BY <2>4, <1>4
  <2>2. s[n] \in class
    BY <2>4, <2>5, <1>5
  <2>3. u[j] = s[n]
    BY <2>4, <2>5, <1>2
  <2> QED BY <2>2, <2>3
<1>10. r - x + 1 \in i - x + 1 .. Len(u) + 1 /\ i - x + 1 \in Nat /\ i - x + 1 <= Len(u) + 1
  BY <1>2, <1>4, <1>7
<1>11. Grounding!RunEnd(u, i - x + 1, class) = r - x + 1
  BY <1>2, <1>8, <1>9, <1>10, RunsEndOnce
<1> QED BY <1>1, <1>3, <1>6, <1>11

LEMMA CutLooks ==
  ASSUME NEW s \in Seq(Grounding!Character), NEW x \in 1 .. Len(s) + 1, NEW y \in x .. Len(s) + 1,
         NEW i \in Int, NEW class
  PROVE  Grounding!Is(Cut(s, x, y), i - x + 1, class) <=> i \in x .. y - 1 /\ Grounding!Is(s, i, class)
<1>1. PICK u : u = Cut(s, x, y)
  OBVIOUS
<1>2. u \in Seq(Grounding!Character) /\ Len(u) = y - x /\ \A k \in x .. y - 1 : u[k - x + 1] = s[k]
  BY <1>1, Cuts
<1>3. i - x + 1 \in DOMAIN u <=> i \in x .. y - 1
  BY <1>2
<1>4. i \in x .. y - 1 => i \in DOMAIN s
  OBVIOUS
<1> QED BY <1>1, <1>2, <1>3, <1>4 DEF Grounding!Is

(* A segment that lies in the range is one of the range, at its place, with  *)
(* its text; but a hyphen deleted between two letters stands where one of     *)
(* them is cut off.                                                          *)
LEMMA CutSegments ==
  ASSUME NEW s \in Seq(Grounding!Character), NEW x \in 1 .. Len(s) + 1, NEW y \in x .. Len(s) + 1,
         NEW i \in x .. Len(s), Grounding!SegmentAt(s, i).to <= y
  PROVE  /\ Grounding!SegmentAt(Cut(s, x, y), i - x + 1).from = i - x + 1
         /\ Grounding!SegmentAt(Cut(s, x, y), i - x + 1).to = Grounding!SegmentAt(s, i).to - x + 1
         /\ \/ Grounding!SegmentAt(Cut(s, x, y), i - x + 1).text = Grounding!SegmentAt(s, i).text
            \/ Grounding!SegmentAt(s, i).text = <<>> /\ (i = x \/ Grounding!SegmentAt(s, i).to = y)
<1>1. PICK u, c : u = Cut(s, x, y) /\ c = i - x + 1
  OBVIOUS
<1>2. i \in Nat /\ x \in Nat /\ y \in Nat /\ x <= i /\ i <= Len(s) /\ y <= Len(s) + 1
  OBVIOUS
<1>3. Grounding!SegmentAt(s, i).to \in i + 1 .. Len(s) + 1
  BY <1>2, SegmentsAdvance
<1>4. i \in x .. y - 1 /\ i + 1 \in x .. y /\ i \in x .. y
  BY <1>2, <1>3
<1>5. u[c] = s[i]
  BY <1>1, <1>4, Cuts
<1>6. PICK blank, broken, marked :
        blank = Grounding!RunEnd(s, i, Grounding!Space) /\ broken = Grounding!RunEnd(s, i + 1, Grounding!Space) /\ marked = Grounding!RunEnd(s, i + 1, {"^"})
  OBVIOUS
<1>7. blank \in i .. Len(s) + 1 /\ broken \in i + 1 .. Len(s) + 1 /\ marked \in i + 1 .. Len(s) + 1
  BY <1>2, <1>6, RunsHaveEnds
<1>8. /\ Grounding!RunEnd(u, c, Grounding!Space) = IF blank <= y THEN blank - x + 1 ELSE y - x + 1
      /\ Grounding!RunEnd(u, c + 1, Grounding!Space) = IF broken <= y THEN broken - x + 1 ELSE y - x + 1
      /\ Grounding!RunEnd(u, c + 1, {"^"}) = IF marked <= y THEN marked - x + 1 ELSE y - x + 1
  <2>1. c + 1 = (i + 1) - x + 1
    BY <1>1
  <2> QED BY <2>1, <1>1, <1>4, <1>6, CutRuns
<1>9. /\ Grounding!Is(u, c + 1, {"nl"}) <=> i + 1 \in x .. y - 1 /\ Grounding!Is(s, i + 1, {"nl"})
      /\ Grounding!Is(u, c - 1, Grounding!Letter) <=> i - 1 \in x .. y - 1 /\ Grounding!Is(s, i - 1, Grounding!Letter)
      /\ broken <= y => (Grounding!Is(u, Grounding!RunEnd(u, c + 1, Grounding!Space), Grounding!Letter) <=> broken \in x .. y - 1 /\ Grounding!Is(s, broken, Grounding!Letter))
  <2>1. c + 1 = (i + 1) - x + 1 /\ c - 1 = (i - 1) - x + 1 /\ i + 1 \in Int /\ i - 1 \in Int /\ broken \in Int
    BY <1>1, <1>2, <1>7
  <2>2. Grounding!Is(u, c + 1, {"nl"}) <=> i + 1 \in x .. y - 1 /\ Grounding!Is(s, i + 1, {"nl"})
    BY <2>1, <1>1, CutLooks
  <2>3. Grounding!Is(u, c - 1, Grounding!Letter) <=> i - 1 \in x .. y - 1 /\ Grounding!Is(s, i - 1, Grounding!Letter)
    BY <2>1, <1>1, CutLooks
  <2>4. Grounding!Is(u, broken - x + 1, Grounding!Letter) <=> broken \in x .. y - 1 /\ Grounding!Is(s, broken, Grounding!Letter)
    BY <2>1, <1>1, CutLooks
  <2> QED BY <2>2, <2>3, <2>4, <1>8
<1>10. CASE s[i] = "sh"
  BY <1>10, <1>1, <1>5 DEF Grounding!SegmentAt, Grounding!Segment
<1>11. CASE s[i] # "sh" /\ s[i] = "-" /\ Grounding!Is(s, i + 1, {"nl"})
  <2>1. /\ Grounding!SegmentAt(s, i).to = broken
        /\ Grounding!SegmentAt(s, i).text = IF Grounding!Is(s, i - 1, Grounding!Letter) /\ Grounding!Is(s, broken, Grounding!Letter) THEN <<>> ELSE <<"-">>
    BY <1>11, <1>6 DEF Grounding!SegmentAt, Grounding!Segment
  <2>2. broken > i + 1
    <3>1. i + 1 \in DOMAIN s /\ s[i + 1] \in Grounding!Space
      BY <1>11 DEF Grounding!Is, Grounding!Space
    <3>2. broken # i + 1
      <4>1. broken > Len(s) \/ s[broken] \notin Grounding!Space
        BY <1>2, <1>6, RunsHaveEnds
      <4> QED BY <3>1, <4>1
    <3> QED BY <3>2, <1>7
  <2>6. broken <= y
    BY <2>1
  <2>7. i + 1 \in x .. y - 1
    BY <2>2, <2>6, <1>2, <1>4, <1>7
  <2>3. Grounding!Is(u, c + 1, {"nl"}) /\ broken <= y
    BY <2>6, <2>7, <1>9, <1>11
  <2>4. /\ Grounding!SegmentAt(u, c).from = c
        /\ Grounding!SegmentAt(u, c).to = broken - x + 1
        /\ Grounding!SegmentAt(u, c).text = IF Grounding!Is(u, c - 1, Grounding!Letter) /\ Grounding!Is(u, Grounding!RunEnd(u, c + 1, Grounding!Space), Grounding!Letter) THEN <<>> ELSE <<"-">>
    BY <2>3, <1>5, <1>8, <1>11 DEF Grounding!SegmentAt, Grounding!Segment
  <2>5. i # x /\ broken # y => (i - 1 \in x .. y - 1 /\ broken \in x .. y - 1)
    BY <2>1, <2>3, <1>2, <1>4, <1>7
  <2> QED BY <2>1, <2>3, <2>4, <2>5, <1>1, <1>9
<1>12. CASE s[i] # "sh" /\ ~(s[i] = "-" /\ Grounding!Is(s, i + 1, {"nl"})) /\ s[i] \in Grounding!Space
  <2>1. Grounding!SegmentAt(s, i) = Grounding!Segment(<<" ">>, i, blank)
    BY <1>12, <1>6 DEF Grounding!SegmentAt
  <2>2. Grounding!SegmentAt(u, c) = Grounding!Segment(<<" ">>, c, Grounding!RunEnd(u, c, Grounding!Space))
    BY <1>5, <1>9, <1>12 DEF Grounding!SegmentAt
  <2>6. PICK tx : tx = <<" ">>
    OBVIOUS
  <2>7. Grounding!SegmentAt(s, i) = Grounding!Segment(tx, i, blank) /\ Grounding!SegmentAt(u, c) = Grounding!Segment(tx, c, Grounding!RunEnd(u, c, Grounding!Space))
    BY <2>1, <2>2, <2>6
  <2>3. Grounding!SegmentAt(s, i).to = blank /\ Grounding!SegmentAt(s, i).text = tx
    BY <2>7 DEF Grounding!Segment
  <2>4. Grounding!RunEnd(u, c, Grounding!Space) = blank - x + 1
    BY <2>3, <1>8
  <2>5. Grounding!SegmentAt(u, c).from = c /\ Grounding!SegmentAt(u, c).to = blank - x + 1 /\ Grounding!SegmentAt(u, c).text = tx
    BY <2>4, <2>7 DEF Grounding!Segment
  <2> QED BY <2>3, <2>5, <1>1
<1>13. CASE s[i] # "sh" /\ ~(s[i] = "-" /\ Grounding!Is(s, i + 1, {"nl"})) /\ s[i] \notin Grounding!Space /\ marked > i + 1
  <2>1. Grounding!SegmentAt(s, i) = Grounding!Segment(<<s[i] \o "^">>, i, marked)
    BY <1>13, <1>6 DEF Grounding!SegmentAt
  <2>4. Grounding!SegmentAt(s, i).to = marked /\ Grounding!SegmentAt(s, i).text = <<s[i] \o "^">>
    BY <2>1 DEF Grounding!Segment
  <2>5. marked <= y /\ Grounding!RunEnd(u, c + 1, {"^"}) = marked - x + 1
    BY <2>4, <1>8
  <2>2. Grounding!RunEnd(u, c + 1, {"^"}) > c + 1
    BY <2>5, <1>1, <1>2, <1>7, <1>13
  <2>3. Grounding!SegmentAt(u, c) = Grounding!Segment(<<u[c] \o "^">>, c, Grounding!RunEnd(u, c + 1, {"^"}))
    BY <2>2, <1>5, <1>9, <1>13 DEF Grounding!SegmentAt
  <2>6. Grounding!SegmentAt(u, c).from = c /\ Grounding!SegmentAt(u, c).to = marked - x + 1 /\ Grounding!SegmentAt(u, c).text = <<s[i] \o "^">>
    BY <2>3, <2>5, <1>5 DEF Grounding!Segment
  <2> QED BY <2>4, <2>6, <1>1
<1>14. CASE s[i] # "sh" /\ ~(s[i] = "-" /\ Grounding!Is(s, i + 1, {"nl"})) /\ s[i] \notin Grounding!Space /\ ~(marked > i + 1)
  <2>1. Grounding!SegmentAt(s, i) = Grounding!Segment(IF s[i] = "fi" THEN <<"f", "i">> ELSE <<s[i]>>, i, i + 1)
    BY <1>14, <1>6 DEF Grounding!SegmentAt
  <2>2. ~(Grounding!RunEnd(u, c + 1, {"^"}) > c + 1)
    BY <1>1, <1>2, <1>4, <1>7, <1>8, <1>14
  <2>3. Grounding!SegmentAt(u, c) = Grounding!Segment(IF u[c] = "fi" THEN <<"f", "i">> ELSE <<u[c]>>, c, c + 1)
    BY <2>2, <1>5, <1>9, <1>14 DEF Grounding!SegmentAt
  <2> QED BY <2>1, <2>3, <1>1, <1>2, <1>5 DEF Grounding!Segment
<1> QED BY <1>10, <1>11, <1>12, <1>13, <1>14

Climbs(g, a, j) ==
  /\ g[j].from >= g[a].from /\ g[j].to > g[a].from
  /\ \A m \in a .. j : g[m].to <= g[j].to
  /\ \A m \in a .. j : m < j => g[m].to < g[j].to /\ g[m + 1].from > g[a].from

LEMMA ChainsClimb ==
  ASSUME NEW s \in Seq(Grounding!Character), NEW g, Chain(s, 1, g), NEW a \in 1 .. Len(g), NEW b \in a .. Len(g)
  PROVE  Climbs(g, a, b)
<1>1. /\ g \in Seq(ASegment) /\ Len(g) \in Nat /\ Len(s) \in Nat
      /\ \A k \in 1 .. Len(g) : g[k].from \in Nat /\ g[k].to \in Nat /\ g[k].from < g[k].to
      /\ \A k \in 1 .. Len(g) - 1 : g[k + 1].from = g[k].to
  BY DEF Chain
<1>2. a \in Nat /\ a >= 1 /\ a <= Len(g) /\ b \in Nat /\ a <= b /\ b <= Len(g)
  BY <1>1
<1> DEFINE T == {n \in Nat : a + n <= Len(g) => Climbs(g, a, a + n)}
<1>3. 0 \in T
  <2>1. g[a].from \in Nat /\ g[a].to \in Nat /\ g[a].from < g[a].to
    BY <1>1
  <2>2. Climbs(g, a, a)
    BY <1>2, <2>1 DEF Climbs
  <2>3. a + 0 = a
    BY <1>2
  <2> QED BY <2>2, <2>3
<1>4. ASSUME NEW n \in Nat, n \in T PROVE n + 1 \in T
  <2> SUFFICES ASSUME a + (n + 1) <= Len(g) PROVE Climbs(g, a, a + (n + 1))
    OBVIOUS
  <2>1. PICK j : j = a + n
    OBVIOUS
  <2>2. j \in Nat /\ j <= Len(g) - 1 /\ 1 <= j /\ a + (n + 1) = j + 1 /\ a <= j
    BY <2>1, <1>2
  <2>3. Climbs(g, a, j)
    BY <2>1, <2>2, <1>1, <1>4
  <2>4. /\ g[j + 1].from = g[j].to /\ g[j + 1].to > g[j + 1].from /\ g[j].to \in Nat /\ g[j + 1].to \in Nat /\ g[j].from \in Nat
    BY <2>2, <1>1
  <2>5. \A m \in a .. j + 1 : g[m].to \in Nat /\ g[m].from \in Nat
    BY <2>2, <1>1, <1>2
  <2>6. \A m \in a .. j + 1 : m = j + 1 \/ m \in a .. j
    BY <2>2, <1>2
  <2>7. g[a].from \in Nat /\ a \in a .. j
    BY <2>2, <1>1, <1>2
  <2>8. g[j + 1].from >= g[a].from /\ g[j + 1].to > g[a].from
    BY <2>3, <2>4, <2>7 DEF Climbs
  <2>9. ASSUME NEW m \in a .. j + 1 PROVE g[m].to <= g[j + 1].to
    <3>1. CASE m = j + 1
      BY <3>1, <2>4
    <3>2. CASE m \in a .. j
      <4>1. g[m].to <= g[j].to /\ g[m].to \in Nat
        BY <3>2, <2>3, <2>5 DEF Climbs
      <4> QED BY <4>1, <2>4
    <3> QED BY <3>1, <3>2, <2>6
  <2>10. ASSUME NEW m \in a .. j + 1, m < j + 1 PROVE g[m].to < g[j + 1].to /\ g[m + 1].from > g[a].from
    <3>1. CASE m = j
      BY <3>1, <2>3, <2>4, <2>7 DEF Climbs
    <3>2. CASE m # j
      <4>0. m \in a .. j /\ m < j
        BY <3>2, <2>2, <2>10
      <4>1. g[m].to < g[j].to /\ g[m].to \in Nat /\ g[m + 1].from > g[a].from
        BY <4>0, <2>3, <2>5 DEF Climbs
      <4>2. PICK p, q, z : p = g[m].to /\ q = g[j + 1].to /\ z = g[j].to
        OBVIOUS
      <4>a. p \in Nat /\ p < z
        BY <4>1, <4>2
      <4>b. z \in Nat /\ q \in Nat /\ z < q
        <5>1. PICK y : y = g[j + 1].from
          OBVIOUS
        <5>2. y = z /\ q > y /\ z \in Nat /\ q \in Nat
          BY <4>2, <5>1, <2>4
        <5> QED BY <5>2
      <4>3. p < q
        BY <4>a, <4>b
      <4> QED BY <4>1, <4>2, <4>3
    <3> QED BY <3>1, <3>2
  <2>11. Climbs(g, a, j + 1)
    BY <2>8, <2>9, <2>10 DEF Climbs
  <2> QED BY <2>2, <2>11
<1>5. b - a \in T
  <2>1. b - a \in Nat
    BY <1>2
  <2> HIDE DEF T
  <2> QED BY <1>3, <1>4, <2>1, Steps
<1>6. a + (b - a) = b
  BY <1>2
<1>7. a + (b - a) <= Len(g) => Climbs(g, a, a + (b - a))
  BY <1>5
<1> QED BY <1>2, <1>6, <1>7

LEMMA Shifted ==
  ASSUME NEW x \in Int, NEW y \in Int, NEW i \in Int, NEW e \in Int, x <= i, i < e, e <= y
  PROVE  i - x + 1 \in 1 .. y - x /\ e - x + 1 \in i - x + 1 + 1 .. y - x + 1
OBVIOUS

(* The segments of a range that begins and ends with segments of the text.   *)
KeepsSegments(g, a, b, h) ==
  /\ h \in Seq(ASegment) /\ Len(h) = b - a + 1
  /\ \A k \in 1 .. b - a + 1 :
       h[k].text = g[a + k - 1].text \/ (g[a + k - 1].text = <<>> /\ (k = 1 \/ k = b - a + 1))

LEMMA CutChains ==
  ASSUME NEW s \in Seq(Grounding!Character), NEW a \in 1 .. Len(Grounding!Segments(s)), NEW b \in a .. Len(Grounding!Segments(s)),
         NEW x, x = Grounding!Segments(s)[a].from, NEW y, y = Grounding!Segments(s)[b].to
  PROVE  /\ x \in 1 .. Len(s) /\ y \in x + 1 .. Len(s) + 1
         /\ KeepsSegments(Grounding!Segments(s), a, b, Grounding!Segments(Cut(s, x, y)))
<1>1. PICK g : g = Grounding!Segments(s)
  OBVIOUS
<1>2. Chain(s, 1, g)
  BY <1>1, SegmentsAreChained
<1>3. /\ g \in Seq(ASegment) /\ Len(g) \in Nat /\ Len(s) \in Nat
      /\ \A k \in 1 .. Len(g) : /\ g[k] = Grounding!SegmentAt(s, g[k].from) /\ g[k].from \in 1 .. Len(s)
                                /\ g[k].to \in g[k].from + 1 .. Len(s) + 1
      /\ \A k \in 1 .. Len(g) - 1 : g[k + 1].from = g[k].to
  BY <1>2 DEF Chain
<1>4. a \in 1 .. Len(g) /\ b \in a .. Len(g) /\ b \in 1 .. Len(g)
  BY <1>1, <1>3
<1>7. g[a].from = x /\ g[b].to = y
  BY <1>1
<1>5. Climbs(g, a, b)
  BY <1>2, <1>4, ChainsClimb
<1>6. /\ x \in Int /\ 1 <= x /\ x <= Len(s) /\ y \in Int /\ y <= Len(s) + 1
      /\ \A m \in 1 .. Len(g) : g[m].from \in Int /\ g[m].to \in Int /\ g[m].from < g[m].to /\ g[m].from <= Len(s)
  BY <1>3, <1>4, <1>7
<1>8. /\ y > x
      /\ \A m \in a .. b : g[m].to <= y
      /\ \A m \in a .. b : m < b => g[m].to < y /\ g[m + 1].from > x
  BY <1>5, <1>7 DEF Climbs
<1>9. x \in 1 .. Len(s) /\ y \in x + 1 .. Len(s) + 1 /\ x \in 1 .. Len(s) + 1 /\ y \in x .. Len(s) + 1
  BY <1>3, <1>6, <1>8
<1>10. PICK u : u = Cut(s, x, y)
  OBVIOUS
<1>11. u \in Seq(Grounding!Character) /\ Len(u) = y - x
  BY <1>9, <1>10, Cuts
<1>12. PICK h : h = [k \in 1 .. b - a + 1 |-> Grounding!SegmentAt(u, g[a + k - 1].from - x + 1)]
  OBVIOUS
<1>13. ASSUME NEW k \in 1 .. b - a + 1
       PROVE  /\ h[k] \in ASegment
              /\ h[k] = Grounding!SegmentAt(u, h[k].from)
              /\ h[k].from = g[a + k - 1].from - x + 1
              /\ h[k].to = g[a + k - 1].to - x + 1
              /\ h[k].from \in 1 .. Len(u)
              /\ h[k].to \in h[k].from + 1 .. Len(u) + 1
              /\ h[k].text = g[a + k - 1].text \/ (g[a + k - 1].text = <<>> /\ (k = 1 \/ k = b - a + 1))
  <2>1. PICK m : m = a + k - 1
    OBVIOUS
  <2>12. a \in Int /\ b \in Int /\ k \in Int /\ 1 <= a /\ a <= b /\ b <= Len(g) /\ 1 <= k /\ k <= b - a + 1
    BY <1>3, <1>4
  <2>2. m \in a .. b /\ m \in 1 .. Len(g) /\ (m = a <=> k = 1) /\ (m = b <=> k = b - a + 1)
    BY <2>1, <2>12
  <2>3. g[m].to <= y /\ (m # b => g[m].to # y)
    BY <2>2, <2>12, <1>6, <1>8
  <2>4. g[m].from >= x /\ (m # a => g[m].from # x)
    <3>1. CASE m = a
      BY <3>1, <1>6, <1>7
    <3>2. CASE m # a
      <4>1. m - 1 \in a .. b /\ m - 1 < b /\ m - 1 + 1 = m
        BY <3>2, <2>2, <2>12
      <4>2. g[m - 1 + 1].from > x
        BY <4>1, <1>8
      <4>3. g[m].from > x
        BY <4>1, <4>2
      <4>4. g[m].from \in Int
        BY <2>2, <1>6
      <4>5. PICK p : p = g[m].from
        OBVIOUS
      <4>6. p >= x /\ p # x
        BY <4>3, <4>4, <4>5, <1>6
      <4> QED BY <4>5, <4>6
    <3> QED BY <3>1, <3>2
  <2>5. PICK i : i = g[m].from
    OBVIOUS
  <2>6. g[m] = Grounding!SegmentAt(s, i) /\ i \in x .. Len(s) /\ g[m].to \in i + 1 .. Len(s) + 1
    BY <2>2, <2>4, <2>5, <1>3, <1>9
  <2>13. i \in Int /\ x <= i /\ i < g[m].to /\ g[m].to <= y /\ g[m].to \in Int
    BY <2>2, <2>3, <2>4, <2>5, <1>6
  <2>14. PICK e : e = g[m].to
    OBVIOUS
  <2>15. e \in Int /\ i < e /\ e <= y /\ x \in Int /\ y \in Int /\ Len(u) = y - x
    BY <1>6, <1>11, <2>13, <2>14
  <2>16. x <= i /\ i \in Int
    BY <2>13
  <2>17. i - x + 1 \in 1 .. y - x /\ e - x + 1 \in i - x + 1 + 1 .. y - x + 1
    BY <2>15, <2>16, Shifted
  <2>7. i - x + 1 \in 1 .. Len(u)
    BY <2>15, <2>17
  <2>8. /\ Grounding!SegmentAt(u, i - x + 1).from = i - x + 1
        /\ Grounding!SegmentAt(u, i - x + 1).to = g[m].to - x + 1
        /\ Grounding!SegmentAt(u, i - x + 1).text = g[m].text \/ (g[m].text = <<>> /\ (i = x \/ g[m].to = y))
    <3>1. Grounding!SegmentAt(s, i) = g[m] /\ Grounding!SegmentAt(s, i).to <= y /\ i \in x .. Len(s)
      BY <2>3, <2>6
    <3>2. /\ Grounding!SegmentAt(Cut(s, x, y), i - x + 1).from = i - x + 1
          /\ Grounding!SegmentAt(Cut(s, x, y), i - x + 1).to = Grounding!SegmentAt(s, i).to - x + 1
          /\ \/ Grounding!SegmentAt(Cut(s, x, y), i - x + 1).text = Grounding!SegmentAt(s, i).text
             \/ Grounding!SegmentAt(s, i).text = <<>> /\ (i = x \/ Grounding!SegmentAt(s, i).to = y)
      BY <3>1, <1>9, CutSegments
    <3> QED BY <3>1, <3>2, <1>10
  <2>9. h[k] = Grounding!SegmentAt(u, i - x + 1)
    BY <2>1, <2>5, <1>12
  <2>10. Grounding!SegmentAt(u, i - x + 1) \in ASegment
    BY <2>7, <1>11, SegmentsAreTyped
  <2>11. g[m].to - x + 1 \in i - x + 1 + 1 .. Len(u) + 1
    BY <2>14, <2>15, <2>17
  <2> QED BY <2>1, <2>2, <2>3, <2>4, <2>5, <2>7, <2>8, <2>9, <2>10, <2>11
<1>14. h \in Seq(ASegment) /\ Len(h) = b - a + 1 /\ h # <<>>
  <2>1. b - a + 1 \in Nat \ {0}
    BY <1>4
  <2>2. \A k \in 1 .. b - a + 1 : h[k] \in ASegment
    BY <1>13
  <2> QED BY <2>1, <2>2, <1>12
<1>15. Chain(u, 1, h)
  <2>1. h[1].from = 1
    <3>1. 1 \in 1 .. b - a + 1 /\ a + 1 - 1 = a
      BY <1>4
    <3>2. h[1].from = g[a + 1 - 1].from - x + 1
      BY <3>1, <1>13
    <3> QED BY <3>1, <3>2, <1>1, <1>9
  <2>2. h[Len(h)].to = Len(u) + 1
    <3>1. b - a + 1 \in 1 .. b - a + 1 /\ a + (b - a + 1) - 1 = b
      BY <1>4
    <3>2. h[b - a + 1].to = g[a + (b - a + 1) - 1].to - x + 1
      BY <3>1, <1>13
    <3> QED BY <3>1, <3>2, <1>1, <1>9, <1>11, <1>14
  <2>3. ASSUME NEW k \in 1 .. Len(h) - 1 PROVE h[k + 1].from = h[k].to
    <3>1. PICK m : m = a + k - 1
      OBVIOUS
    <3>2. k \in 1 .. b - a + 1 /\ k + 1 \in 1 .. b - a + 1 /\ a + (k + 1) - 1 = m + 1 /\ m \in 1 .. Len(g) - 1
      BY <3>1, <1>3, <1>4, <1>14
    <3>3. h[k].to = g[m].to - x + 1 /\ h[k + 1].from = g[m + 1].from - x + 1
      BY <3>1, <3>2, <1>13
    <3>4. g[m + 1].from = g[m].to
      BY <3>2, <1>3
    <3> QED BY <3>3, <3>4
  <2>4. \A k \in 1 .. Len(h) : /\ h[k] = Grounding!SegmentAt(u, h[k].from)
                               /\ h[k].from \in 1 .. Len(u) /\ h[k].to \in h[k].from + 1 .. Len(u) + 1
    BY <1>13, <1>14
  <2> QED BY <2>1, <2>2, <2>3, <2>4, <1>14 DEF Chain
<1>16. h = Grounding!Segments(u)
  <2>1. Chain(u, 1, Grounding!Segments(u)) /\ 1 \in 1 .. Len(u) + 1
    BY <1>11, SegmentsAreChained
  <2> QED BY <2>1, <1>11, <1>15, ChainsAreUnique
<1>17. KeepsSegments(g, a, b, h)
  BY <1>13, <1>14 DEF KeepsSegments
<1> QED BY <1>1, <1>9, <1>10, <1>16, <1>17
-----------------------------------------------------------------------------
(* Mapping a window of the view back to a range of the source                *)

LEMMA StartsGrow ==
  ASSUME NEW g \in Seq(ASegment), NEW a \in 1 .. Len(g) + 1, NEW b \in 1 .. Len(g) + 1, a <= b
  PROVE  Grounding!ViewStart(g, a) <= Grounding!ViewStart(g, b)
<1>1. PICK t : t = Grounding!Texts(g)
  OBVIOUS
<1>2. t \in Seq(Seq(Emitted)) /\ Len(t) = Len(g) /\ Len(g) \in Nat
  BY <1>1, TextsAreTyped
<1> DEFINE U == Seq(Emitted)
<1>3. PICK p : p = SubSeq(t, a, b - 1)
  OBVIOUS
<1>4. p \in Seq(U)
  <2>1. t \in Seq(U) /\ a \in Int /\ b - 1 \in Int /\ a >= 1 /\ b - 1 <= Len(t)
    BY <1>2
  <2> HIDE DEF U
  <2> QED BY <2>1, <1>3
<1>5. Grounding!FlattenSeq(p) \in Seq(Emitted)
  BY <1>4, FlatIsASequence
<1>6. PICK l : l = Len(Grounding!FlattenSeq(p))
  OBVIOUS
<1>7. l \in Nat
  BY <1>5, <1>6
<1>8. Grounding!ViewStart(g, b) = Grounding!ViewStart(g, a) + l /\ Grounding!ViewStart(g, a) \in Nat
  BY <1>1, <1>3, <1>6, ViewStarts
<1> QED BY <1>7, <1>8

LEMMA LastHolding ==
  ASSUME NEW g \in Seq(ASegment), g # <<>>, NEW pos \in Nat
  PROVE  LET last == Grounding!Max(Grounding!Holding(g, pos)) IN
         /\ last \in 1 .. Len(g) /\ Grounding!ViewStart(g, last) <= pos
         /\ \A k \in 1 .. Len(g) : Grounding!ViewStart(g, k) <= pos => k <= last
<1>1. Len(g) \in Nat /\ 1 \in 1 .. Len(g) /\ DOMAIN g = 1 .. Len(g)
  OBVIOUS
<1>2. PICK T : T = Grounding!Holding(g, pos)
  OBVIOUS
<1>3. T = {k \in 1 .. Len(g) : Grounding!ViewStart(g, k) <= pos}
  BY <1>1, <1>2 DEF Grounding!Holding
<1>4. 1 \in T
  BY <1>1, <1>3, ViewStarts
<1>5. T \in SUBSET Nat /\ T # {} /\ \A m \in T : m <= Len(g)
  BY <1>3, <1>4
<1>6. Grounding!Max(T) \in T /\ \A m \in T : m <= Grounding!Max(T)
  BY <1>1, <1>5, MaxIs
<1> QED BY <1>2, <1>3, <1>6

(* The range of a window is that of whole segments, which cover the window.  *)
LEMMA SpansCover ==
  ASSUME NEW s \in Seq(Grounding!Character), NEW w, w.start \in Nat, w.end \in Nat,
         w.start < w.end, w.end <= Len(Grounding!Fold(s))
  PROVE  \E a \in 1 .. Len(Grounding!Segments(s)) : \E b \in a .. Len(Grounding!Segments(s)) :
           /\ Grounding!Span(s, w) = <<Grounding!Segments(s)[a].from, Grounding!Segments(s)[b].to>>
           /\ Grounding!ViewStart(Grounding!Segments(s), a) <= w.start /\ w.end <= Grounding!ViewStart(Grounding!Segments(s), b + 1)
<1>1. PICK g : g = Grounding!Segments(s)
  OBVIOUS
<1>2. Chain(s, 1, g)
  BY <1>1, SegmentsAreChained
<1>3. g \in Seq(ASegment) /\ Len(g) \in Nat /\ (g # <<>> => g[Len(g)].to = Len(s) + 1)
      /\ \A k \in 1 .. Len(g) - 1 : g[k + 1].from = g[k].to
  BY <1>2 DEF Chain
<1>4. PICK i, j, n : i = w.start /\ j = w.end /\ n = Len(g)
  OBVIOUS
<1>5. PICK size : size = Len(Grounding!FlattenSeq(Grounding!Texts(g)))
  OBVIOUS
<1>6. i \in Nat /\ j \in Nat /\ i < j /\ j <= size /\ n \in Nat
  BY <1>1, <1>3, <1>4, <1>5 DEF Grounding!Fold
<1>7. /\ \A k \in 1 .. n + 1 : Grounding!ViewStart(g, k) \in Nat
      /\ Grounding!ViewStart(g, 1) = 0 /\ Grounding!ViewStart(g, n + 1) = size
  BY <1>3, <1>4, <1>5, ViewStarts
<1>8. \A a, b \in 1 .. n + 1 : a <= b => Grounding!ViewStart(g, a) <= Grounding!ViewStart(g, b)
  BY <1>3, <1>4, StartsGrow
<1>9. g # <<>> /\ n >= 1
  <2>1. g # <<>>
    <3> SUFFICES ASSUME g = <<>> PROVE FALSE
      OBVIOUS
    <3>1. n + 1 = 1
      BY <1>4
    <3>2. Grounding!ViewStart(g, n + 1) = Grounding!ViewStart(g, 1)
      BY <3>1
    <3> QED BY <3>2, <1>6, <1>7
  <2> QED BY <2>1, <1>3, <1>4
<1>10. PICK first : first = Grounding!Max(Grounding!Holding(g, i))
  OBVIOUS
<1>11. first \in 1 .. n /\ Grounding!ViewStart(g, first) <= i
  BY <1>3, <1>4, <1>6, <1>9, <1>10, LastHolding
<1>12. PICK last : last = Grounding!Max(Grounding!Holding(g, j))
  OBVIOUS
<1>13. last \in 1 .. n /\ Grounding!ViewStart(g, last) <= j /\ \A k \in 1 .. n : Grounding!ViewStart(g, k) <= j => k <= last
  BY <1>3, <1>4, <1>6, <1>9, <1>12, LastHolding
<1>14. first <= last
  BY <1>6, <1>7, <1>11, <1>13
<1>15. PICK a \in 1 .. first : Grounding!SourceStart(g, i, Len(s)) = g[a].from
  <2> DEFINE deleted(k) == \A m \in k .. first - 1 : g[m].text = <<>> /\ Grounding!ViewStart(g, m) = i
             T == {k \in 1 .. first : deleted(k)}
  <2>1. Grounding!SourceStart(g, i, Len(s)) = g[Grounding!Min(T)].from
    BY <1>5, <1>6, <1>10 DEF Grounding!SourceStart
  <2>2. first \in T
    BY <1>6, <1>11
  <2>3. T \in SUBSET Nat /\ T \subseteq 1 .. first
    BY <1>6, <1>11
  <2> HIDE DEF T
  <2>4. Grounding!Min(T) \in T
    BY <2>2, <2>3, MinIs
  <2> QED BY <2>1, <2>3, <2>4
<1>16. a \in 1 .. n /\ Grounding!ViewStart(g, a) <= i
  <2>1. a \in 1 .. n + 1 /\ first \in 1 .. n + 1 /\ a <= first /\ a \in 1 .. n
    BY <1>6, <1>11
  <2>2. Grounding!ViewStart(g, a) <= Grounding!ViewStart(g, first) /\ Grounding!ViewStart(g, a) \in Nat /\ Grounding!ViewStart(g, first) \in Nat
    BY <2>1, <1>7, <1>8
  <2>3. PICK p, q : p = Grounding!ViewStart(g, a) /\ q = Grounding!ViewStart(g, first)
    OBVIOUS
  <2> QED BY <2>1, <2>2, <2>3, <1>6, <1>11
<1>17. \E b \in a .. n : Grounding!SourceEnd(g, j, Len(s)) = g[b].to /\ j <= Grounding!ViewStart(g, b + 1)
  <2>1. CASE j = size
    <3>1. Grounding!SourceEnd(g, j, Len(s)) = g[n].to
      BY <2>1, <1>3, <1>4, <1>5, <1>9 DEF Grounding!SourceEnd
    <3>2. n \in a .. n /\ j <= Grounding!ViewStart(g, n + 1)
      BY <2>1, <1>6, <1>7, <1>16
    <3> QED BY <3>1, <3>2
  <2>2. CASE j # size /\ j > Grounding!ViewStart(g, last)
    <3>1. Grounding!SourceEnd(g, j, Len(s)) = g[last].to
      BY <2>2, <1>5, <1>12 DEF Grounding!SourceEnd
    <3>2. last \in a .. n
      BY <1>6, <1>11, <1>13, <1>14
    <3>3. j <= Grounding!ViewStart(g, last + 1)
      <4>1. CASE last = n
        BY <4>1, <1>6, <1>7
      <4>2. CASE last # n
        <5>1. last + 1 \in 1 .. n /\ last + 1 \in 1 .. n + 1 /\ ~(last + 1 <= last)
          BY <4>2, <1>6, <1>13
        <5>2. ~(Grounding!ViewStart(g, last + 1) <= j) /\ Grounding!ViewStart(g, last + 1) \in Nat
          BY <5>1, <1>7, <1>13
        <5>3. PICK p : p = Grounding!ViewStart(g, last + 1)
          OBVIOUS
        <5> QED BY <5>2, <5>3, <1>6
      <4> QED BY <4>1, <4>2
    <3> QED BY <3>1, <3>2, <3>3
  <2>3. CASE j # size /\ ~(j > Grounding!ViewStart(g, last))
    <3>1. Grounding!SourceEnd(g, j, Len(s)) = g[last].from
      BY <2>3, <1>5, <1>12 DEF Grounding!SourceEnd
    <3>0. PICK p : p = Grounding!ViewStart(g, last)
      OBVIOUS
    <3>9. p \in Nat /\ p <= j /\ ~(j > p)
      <4>1. last \in 1 .. n + 1
        BY <1>6, <1>13
      <4> QED BY <4>1, <3>0, <2>3, <1>7, <1>13
    <3>2. Grounding!ViewStart(g, last) = j
      BY <3>0, <3>9, <1>6
    <3>3. last # 1
      BY <3>2, <1>6, <1>7
    <3>4. PICK b : b = last - 1
      OBVIOUS
    <3>5. b \in 1 .. n - 1 /\ b + 1 = last /\ b \in Int /\ b \in 1 .. n
      BY <3>3, <3>4, <1>6, <1>13
    <3>6. g[last].from = g[b].to
      BY <3>5, <1>3, <1>4
    <3>7. ~(last <= a)
      <4> SUFFICES ASSUME last <= a PROVE FALSE
        OBVIOUS
      <4>1. last \in 1 .. n + 1 /\ a \in 1 .. n + 1
        BY <1>6, <1>13, <1>16
      <4>2. Grounding!ViewStart(g, last) <= Grounding!ViewStart(g, a) /\ Grounding!ViewStart(g, a) \in Nat
        BY <4>1, <1>7, <1>8
      <4>3. PICK q : q = Grounding!ViewStart(g, a)
        OBVIOUS
      <4> QED BY <4>2, <4>3, <3>2, <1>6, <1>16
    <3>8. b \in a .. n
      BY <3>5, <3>7, <1>6, <1>16
    <3>10. j <= Grounding!ViewStart(g, b + 1)
      BY <3>2, <3>5, <1>6
    <3> QED BY <3>1, <3>6, <3>8, <3>10
  <2> QED BY <2>1, <2>2, <2>3
<1>18. PICK b \in a .. n : Grounding!SourceEnd(g, j, Len(s)) = g[b].to /\ j <= Grounding!ViewStart(g, b + 1)
  BY <1>17
<1>19. Grounding!Span(s, w) = <<g[a].from, g[b].to>>
  BY <1>1, <1>4, <1>15, <1>18 DEF Grounding!Span
<1> QED BY <1>1, <1>4, <1>16, <1>18, <1>19

(* The range of a window lies in the source and shows it.                    *)
Shows(s, range, w) ==
  /\ range = <<range[1], range[2]>>
  /\ range[1] \in 1 .. Len(s) /\ range[2] \in range[1] + 1 .. Len(s) + 1
  /\ Grounding!IsWithin(Grounding!Fold(Cut(s, range[1], range[2])), Grounding!Slice(Grounding!Fold(s), w.start, w.end))

LEMMA SpansShow ==
  ASSUME NEW s \in Seq(Grounding!Character), NEW w, w.start \in Nat, w.end \in Nat,
         w.start < w.end, w.end <= Len(Grounding!Fold(s))
  PROVE  Shows(s, Grounding!Span(s, w), w)
<1>1. PICK g : g = Grounding!Segments(s)
  OBVIOUS
<1>2. g \in Seq(ASegment) /\ Len(g) \in Nat
  BY <1>1, SegmentsAreChained DEF Chain
<1>3. PICK a \in 1 .. Len(g) : \E b \in a .. Len(g) :
        /\ Grounding!Span(s, w) = <<g[a].from, g[b].to>>
        /\ Grounding!ViewStart(g, a) <= w.start /\ w.end <= Grounding!ViewStart(g, b + 1)
  BY <1>1, SpansCover
<1>4. PICK b \in a .. Len(g) :
        /\ Grounding!Span(s, w) = <<g[a].from, g[b].to>>
        /\ Grounding!ViewStart(g, a) <= w.start /\ w.end <= Grounding!ViewStart(g, b + 1)
  BY <1>3
<1>5. PICK x, y : x = g[a].from /\ y = g[b].to
  OBVIOUS
<1>6. PICK h : h = Grounding!Segments(Cut(s, x, y))
  OBVIOUS
<1>7. /\ x \in 1 .. Len(s) /\ y \in x + 1 .. Len(s) + 1
      /\ h \in Seq(ASegment) /\ Len(h) = b - a + 1
      /\ \A k \in 1 .. b - a + 1 :
           h[k].text = g[a + k - 1].text \/ (g[a + k - 1].text = <<>> /\ (k = 1 \/ k = b - a + 1))
  <2>1. a \in 1 .. Len(Grounding!Segments(s)) /\ b \in a .. Len(Grounding!Segments(s)) /\ x = Grounding!Segments(s)[a].from /\ y = Grounding!Segments(s)[b].to
    BY <1>1, <1>5
  <2>2. x \in 1 .. Len(s) /\ y \in x + 1 .. Len(s) + 1 /\ KeepsSegments(Grounding!Segments(s), a, b, Grounding!Segments(Cut(s, x, y)))
    BY <2>1, CutChains
  <2>3. KeepsSegments(g, a, b, h)
    BY <2>2, <1>1, <1>6
  <2> QED BY <2>2, <2>3 DEF KeepsSegments
<1> DEFINE U == Seq(Emitted)
<1>8. PICK t : t = SubSeq(Grounding!Texts(g), a, b)
  OBVIOUS
<1>9. t \in Seq(U) /\ Len(t) = b - a + 1 /\ \A k \in 1 .. b - a + 1 : t[k] = g[a + k - 1].text
  <2>1. Grounding!Texts(g) \in Seq(U) /\ Len(Grounding!Texts(g)) = Len(g) /\ \A k \in 1 .. Len(g) : Grounding!Texts(g)[k] = g[k].text
    BY <1>2, TextsAreTyped
  <2>2. a \in Int /\ b \in Int /\ 1 <= a /\ a <= b /\ b <= Len(g)
    BY <1>2
  <2> HIDE DEF U
  <2>3. PICK tx : tx = Grounding!Texts(g)
    OBVIOUS
  <2>4. t \in Seq(U) /\ Len(t) = b - a + 1 /\ \A k \in 1 .. b - a + 1 : t[k] = tx[a + k - 1]
    BY <2>1, <2>2, <2>3, <1>8
  <2>5. \A k \in 1 .. b - a + 1 : a + k - 1 \in 1 .. Len(g)
    BY <2>2
  <2> QED BY <2>1, <2>3, <2>4, <2>5
<1>10. PICK q : q = Grounding!Texts(h)
  OBVIOUS
<1>11. q \in Seq(U) /\ Len(q) = b - a + 1 /\ \A k \in 1 .. b - a + 1 : q[k] = h[k].text
  <2>1. q \in Seq(U) /\ Len(q) = Len(h) /\ \A k \in 1 .. Len(h) : q[k] = h[k].text
    BY <1>7, <1>10, TextsAreTyped
  <2> QED BY <2>1, <1>7
<1>12. t # <<>> /\ b - a + 1 \in Nat \ {0}
  BY <1>2, <1>9
<1>13. \A k \in 1 .. Len(t) : q[k] = t[k] \/ (t[k] = <<>> /\ (k = 1 \/ k = Len(t)))
  BY <1>7, <1>9, <1>11
<1>14. PICK c, d \in Seq(Emitted) : Grounding!FlattenSeq(q) = (c \o Grounding!FlattenSeq(t)) \o d
  <2>1. t \in Seq(Seq(Emitted)) /\ q \in Seq(Seq(Emitted)) /\ Len(t) = Len(q)
    BY <1>9, <1>11
  <2> QED BY <2>1, <1>12, <1>13, PatchedAtTheEnds
<1>15. PICK part : part = Grounding!FlattenSeq(t)
  OBVIOUS
<1>16. PICK o : o = Grounding!ViewStart(g, a)
  OBVIOUS
<1>17. /\ part \in Seq(Emitted) /\ w.end - o <= Len(part)
       /\ Grounding!Slice(Grounding!FlattenSeq(Grounding!Texts(g)), w.start, w.end) = Grounding!Slice(part, w.start - o, w.end - o)
  <2>1. w.start <= w.end
    OBVIOUS
  <2> QED BY <2>1, <1>2, <1>4, <1>8, <1>15, <1>16, WindowsInSegments
<1>18. o \in Nat /\ o <= w.start
  <2>1. a \in 1 .. Len(g) + 1
    BY <1>2
  <2> QED BY <2>1, <1>2, <1>4, <1>16, ViewStarts
<1>19. PICK i, j : i = w.start - o /\ j = w.end - o
  OBVIOUS
<1>20. i \in Nat /\ j \in Nat /\ i <= j /\ j <= Len(part)
  <2>1. PICK p, q1 : p = w.start /\ q1 = w.end
    OBVIOUS
  <2>2. p \in Nat /\ q1 \in Nat /\ p < q1 /\ o <= p /\ o \in Nat /\ i = p - o /\ j = q1 - o
    BY <2>1, <1>18, <1>19
  <2>3. i \in Nat /\ j \in Nat /\ i <= j
    BY <2>2
  <2> QED BY <2>3, <1>17, <1>19
<1>21. Grounding!IsWithin((c \o part) \o d, Grounding!Slice(part, i, j))
  BY <1>14, <1>17, <1>20, MiddleOccurs
<1>22. Grounding!FlattenSeq(q) = Grounding!Fold(Cut(s, x, y)) /\ Grounding!FlattenSeq(Grounding!Texts(g)) = Grounding!Fold(s)
  BY <1>1, <1>6, <1>10 DEF Grounding!Fold
<1>23. Grounding!IsWithin(Grounding!Fold(Cut(s, x, y)), Grounding!Slice(Grounding!Fold(s), w.start, w.end))
  BY <1>14, <1>15, <1>17, <1>19, <1>21, <1>22
<1>24. Grounding!Span(s, w) = <<x, y>>
  BY <1>4, <1>5
<1>25. Grounding!Span(s, w)[1] = x /\ Grounding!Span(s, w)[2] = y
  BY <1>24
<1> QED BY <1>7, <1>23, <1>24, <1>25 DEF Shows
-----------------------------------------------------------------------------
(* Verbatim occurrences                                                      *)

Succeeding(P, width, c, f) ==
  IF {p \in P : p >= c} = {} THEN {} ELSE {Grounding!Min({p \in P : p >= c})} \union f[Grounding!Min({p \in P : p >= c}) + width]

LEMMA SuccessorsRecur ==
  ASSUME NEW P \in SUBSET Nat, NEW b \in Nat, \A p \in P : p <= b, NEW width \in Nat, width >= 1
  PROVE  \E f : f = [c \in Nat |-> Succeeding(P, width, c, f)]
<1> DEFINE From(m) == {i \in Nat : i >= m}
           T == {m \in Nat : \E f : f = [i \in From(m) |-> Succeeding(P, width, i, f)]}
<1>1. b + 1 \in T
  <2>1. PICK f : f = [i \in From(b + 1) |-> {}]
    OBVIOUS
  <2>2. \A i \in From(b + 1) : Succeeding(P, width, i, f) = {}
    <3> SUFFICES ASSUME NEW i \in From(b + 1) PROVE Succeeding(P, width, i, f) = {}
      OBVIOUS
    <3>1. i \in Nat /\ i >= b + 1
      OBVIOUS
    <3>3. ASSUME NEW p \in P PROVE ~(p >= i)
      <4>1. p \in Nat /\ p <= b
        OBVIOUS
      <4> QED BY <3>1, <4>1
    <3>2. {p \in P : p >= i} = {}
      BY <3>3
    <3> QED BY <3>2 DEF Succeeding
  <2>3. f = [i \in From(b + 1) |-> Succeeding(P, width, i, f)]
    <3> HIDE DEF From
    <3> QED BY <2>1, <2>2
  <2> HIDE DEF From
  <2> QED BY <2>3
<1>2. T \in SUBSET Nat /\ T # {}
  BY <1>1
<1>3. PICK m \in T : \A n \in T : m <= n
  <2> HIDE DEF T
  <2> QED BY <1>2, Least
<1>4. m \in Nat
  BY <1>3
<1>5. m = 0
  <2> SUFFICES ASSUME m # 0 PROVE FALSE
    OBVIOUS
  <2>1. PICK f : f = [i \in From(m) |-> Succeeding(P, width, i, f)]
    BY <1>3
  <2>2. PICK g : g = [i \in From(m - 1) |-> IF i = m - 1 THEN Succeeding(P, width, m - 1, f) ELSE f[i]]
    OBVIOUS
  <2>3. From(m) \subseteq From(m - 1) /\ m - 1 \in From(m - 1) /\ From(m - 1) = From(m) \union {m - 1} /\ m - 1 \notin From(m)
    BY <1>4
  <2>4. \A i \in From(m) : g[i] = f[i]
    <3> HIDE DEF From
    <3> QED BY <2>2, <2>3
  <2>5. ASSUME NEW i \in From(m - 1) PROVE Succeeding(P, width, i, g) = Succeeding(P, width, i, f)
    <3>0. PICK S : S = {p \in P : p >= i}
      OBVIOUS
    <3>1. CASE S = {}
      BY <3>0, <3>1 DEF Succeeding
    <3>2. CASE S # {}
      <4>1. S \in SUBSET Nat /\ \A p \in S : p >= i
        BY <3>0
      <4>2. PICK n : n = Grounding!Min(S)
        OBVIOUS
      <4>3. n \in S
        BY <3>2, <4>1, <4>2, MinIs
      <4>4. n \in Nat /\ n >= i /\ i \in Nat /\ i >= m - 1
        BY <4>1, <4>3
      <4>5. n + width \in From(m)
        BY <4>4, <1>4
      <4>6. g[n + width] = f[n + width]
        BY <4>5, <2>4
      <4> QED BY <3>0, <4>2, <4>6 DEF Succeeding
    <3> QED BY <3>1, <3>2
  <2>6. ASSUME NEW i \in From(m - 1) PROVE g[i] = Succeeding(P, width, i, g)
    <3>1. CASE i = m - 1
      <4> HIDE DEF From
      <4> QED BY <3>1, <2>2, <2>5
    <3>2. CASE i # m - 1
      <4>1. i \in From(m) /\ g[i] = f[i]
        BY <3>2, <1>4, <2>4
      <4>2. f[i] = Succeeding(P, width, i, f)
        <5> HIDE DEF From
        <5> QED BY <4>1, <2>1
      <4> QED BY <4>1, <4>2, <2>5
    <3> QED BY <3>1, <3>2
  <2>7. g = [i \in From(m - 1) |-> Succeeding(P, width, i, g)]
    <3> HIDE DEF From
    <3> QED BY <2>2, <2>6
  <2>8. m - 1 \in T
    <3>1. m - 1 \in Nat
      BY <1>4
    <3> HIDE DEF From
    <3> QED BY <2>7, <3>1
  <2>9. m <= m - 1
    BY <2>8, <1>3
  <2> QED BY <2>9, <1>4
<1>6. From(0) = Nat
  OBVIOUS
<1> QED BY <1>3, <1>5, <1>6

(* Left to right, some of the positions are taken, and one if there is one.  *)
LEMMA SuccessorsAre ==
  ASSUME NEW P \in SUBSET Nat, NEW b \in Nat, \A p \in P : p <= b, NEW width \in Nat, width >= 1
  PROVE  Grounding!Successive(P, width) \subseteq P /\ (P # {} => Grounding!Successive(P, width) # {})
<1> DEFINE f == CHOOSE from : from = [cursor \in Nat |-> Succeeding(P, width, cursor, from)]
<1>1. Grounding!Successive(P, width) = f[0]
  BY DEF Grounding!Successive, Succeeding
<1>2. f = [cursor \in Nat |-> Succeeding(P, width, cursor, f)]
  BY SuccessorsRecur
<1> HIDE DEF f
<1>3. \A i \in Nat : f[i] = Succeeding(P, width, i, f)
  BY <1>2
<1> DEFINE T == {n \in Nat : \A i \in Nat : i + n >= b + 1 => f[i] \subseteq P}
<1>4. 0 \in T
  <2> SUFFICES ASSUME NEW i \in Nat, i + 0 >= b + 1 PROVE f[i] \subseteq P
    OBVIOUS
  <2>3. ASSUME NEW p \in P PROVE ~(p >= i)
    <3>1. p \in Nat /\ p <= b
      OBVIOUS
    <3> QED BY <3>1
  <2>1. {p \in P : p >= i} = {}
    BY <2>3
  <2>2. f[i] = {}
    BY <2>1, <1>3 DEF Succeeding
  <2> QED BY <2>2
<1>5. ASSUME NEW n \in Nat, n \in T PROVE n + 1 \in T
  <2> SUFFICES ASSUME NEW i \in Nat, i + (n + 1) >= b + 1 PROVE f[i] \subseteq P
    OBVIOUS
  <2>0. PICK S : S = {p \in P : p >= i}
    OBVIOUS
  <2>1. CASE S = {}
    BY <2>0, <2>1, <1>3 DEF Succeeding
  <2>2. CASE S # {}
    <3>1. S \in SUBSET Nat /\ S \subseteq P /\ \A p \in S : p >= i
      BY <2>0
    <3>2. PICK k : k = Grounding!Min(S)
      OBVIOUS
    <3>3. k \in S
      BY <2>2, <3>1, <3>2, MinIs
    <3>4. k \in Nat /\ k >= i
      BY <3>1, <3>3
    <3>5. k + width \in Nat /\ (k + width) + n >= b + 1
      BY <3>4
    <3>6. f[k + width] \subseteq P
      BY <3>5, <1>5
    <3>7. f[i] = {k} \union f[k + width]
      BY <2>0, <2>2, <3>2, <1>3 DEF Succeeding
    <3> QED BY <3>1, <3>3, <3>6, <3>7
  <2> QED BY <2>1, <2>2
<1>6. b + 1 \in T
  <2>1. b + 1 \in Nat
    OBVIOUS
  <2> HIDE DEF T
  <2> QED BY <1>4, <1>5, <2>1, Steps
<1>7. f[0] \subseteq P
  <2>1. 0 + (b + 1) >= b + 1
    OBVIOUS
  <2> QED BY <2>1, <1>6
<1>8. P # {} => f[0] # {}
  <2>2. ASSUME NEW p \in P PROVE p >= 0
    <3>1. p \in Nat
      OBVIOUS
    <3> QED BY <3>1
  <2>1. {p \in P : p >= 0} = P
    BY <2>2
  <2> QED BY <2>1, <1>3 DEF Succeeding
<1> QED BY <1>1, <1>7, <1>8

LEMMA OccurrencesAre ==
  ASSUME NEW S, NEW text \in Seq(S), NEW part \in Seq(S), NEW p \in Grounding!Occurrences(text, part)
  PROVE  p \in Nat /\ p + Len(part) <= Len(text) /\ p <= Len(text) /\ Grounding!Slice(text, p, p + Len(part)) = part
BY DEF Grounding!Occurrences

(* A window in the text, whose edits are those of what it shows.             *)
IsWindow(text, claim, w) ==
  /\ w = Grounding!Window(w.start, w.end, w.edits)
  /\ w.start \in Nat /\ w.end \in Nat /\ w.edits \in Nat
  /\ w.start < w.end /\ w.end <= Len(text)
  /\ w.edits = 0 => Grounding!Slice(text, w.start, w.end) = claim

LEMMA ExactWindows ==
  ASSUME NEW S, NEW text \in Seq(S), NEW claim \in Seq(S), claim # <<>>
  PROVE  /\ \A w \in Grounding!FindExact(text, claim) : IsWindow(text, claim, w) /\ w.edits = 0 /\ w.start \in Grounding!Occurrences(text, claim)
         /\ Grounding!Occurrences(text, claim) # {} => Grounding!FindExact(text, claim) # {}
<1>1. PICK m, P : m = Len(claim) /\ P = Grounding!Occurrences(text, claim)
  OBVIOUS
<1>2. m \in Nat /\ m >= 1 /\ Len(text) \in Nat
  BY <1>1
<1>3. \A p \in P : p \in Nat /\ p + m <= Len(text) /\ p <= Len(text) /\ Grounding!Slice(text, p, p + m) = claim
  BY <1>1, OccurrencesAre
<1>4. P \in SUBSET Nat
  BY <1>3
<1>5. Grounding!Successive(P, m) \subseteq P /\ (P # {} => Grounding!Successive(P, m) # {})
  BY <1>2, <1>3, <1>4, SuccessorsAre
<1>6. Grounding!FindExact(text, claim) = {Grounding!Window(p, p + m, 0) : p \in Grounding!Successive(P, m)}
  BY <1>1 DEF Grounding!FindExact
<1>7. ASSUME NEW w \in Grounding!FindExact(text, claim)
      PROVE  IsWindow(text, claim, w) /\ w.edits = 0 /\ w.start \in Grounding!Occurrences(text, claim)
  <2>1. PICK p \in Grounding!Successive(P, m) : w = Grounding!Window(p, p + m, 0)
    BY <1>6
  <2>2. w.start = p /\ w.end = p + m /\ w.edits = 0 /\ w = Grounding!Window(w.start, w.end, w.edits)
    BY <2>1 DEF Grounding!Window
  <2>3. p \in P /\ p \in Nat /\ p + m <= Len(text) /\ Grounding!Slice(text, p, p + m) = claim
    BY <2>1, <1>3, <1>5
  <2>4. p + m \in Nat /\ p < p + m
    BY <2>3, <1>2
  <2> QED BY <2>2, <2>3, <2>4, <1>1 DEF IsWindow
<1>8. P # {} => Grounding!FindExact(text, claim) # {}
  BY <1>5, <1>6
<1> QED BY <1>1, <1>7, <1>8
-----------------------------------------------------------------------------
(* Edits                                                                     *)

Differing(s, t, i, j, f) ==
  IF i > Len(s) \/ j > Len(t) THEN (Len(s) + 1 - i) + (Len(t) + 1 - j)
  ELSE IF s[i] = t[j] THEN f[<<i + 1, j + 1>>]
  ELSE 1 + Grounding!Min({f[<<i + 1, j>>], f[<<i, j + 1>>], f[<<i + 1, j + 1>>]})

LEMMA EditsRecur ==
  ASSUME NEW S, NEW s \in Seq(S), NEW t \in Seq(S)
  PROVE  \E f : f = [p \in Nat \X Nat |-> Differing(s, t, p[1], p[2], f)]
<1> DEFINE From(m) == {p \in Nat \X Nat : p[1] + p[2] >= m}
           T == {m \in Nat : \E f : f = [p \in From(m) |-> Differing(s, t, p[1], p[2], f)]}
           base == Len(s) + Len(t) + 1
<1>0. Len(s) \in Nat /\ Len(t) \in Nat /\ base \in Nat
  OBVIOUS
<1>1. base \in T
  <2>1. PICK f : f = [p \in From(base) |-> (Len(s) + 1 - p[1]) + (Len(t) + 1 - p[2])]
    OBVIOUS
  <2>2. ASSUME NEW p \in From(base)
        PROVE  Differing(s, t, p[1], p[2], f) = (Len(s) + 1 - p[1]) + (Len(t) + 1 - p[2])
    <3>1. p[1] \in Nat /\ p[2] \in Nat /\ p[1] + p[2] >= base
      OBVIOUS
    <3>2. p[1] > Len(s) \/ p[2] > Len(t)
      BY <3>1, <1>0
    <3> QED BY <3>2 DEF Differing
  <2>3. f = [p \in From(base) |-> Differing(s, t, p[1], p[2], f)]
    <3> HIDE DEF From
    <3> QED BY <2>1, <2>2
  <2> HIDE DEF From
  <2> QED BY <2>3, <1>0
<1>2. T \in SUBSET Nat /\ T # {}
  BY <1>1
<1>3. PICK m \in T : \A n \in T : m <= n
  <2> HIDE DEF T
  <2> QED BY <1>2, Least
<1>4. m \in Nat
  BY <1>3
<1>5. m = 0
  <2> SUFFICES ASSUME m # 0 PROVE FALSE
    OBVIOUS
  <2>1. PICK f : f = [p \in From(m) |-> Differing(s, t, p[1], p[2], f)]
    BY <1>3
  <2>2. PICK g : g = [p \in From(m - 1) |-> IF p \in From(m) THEN f[p] ELSE Differing(s, t, p[1], p[2], f)]
    OBVIOUS
  <2>3. From(m) \subseteq From(m - 1)
    BY <1>4
  <2>4. \A p \in From(m) : g[p] = f[p]
    <3> HIDE DEF From
    <3> QED BY <2>2, <2>3
  <2>5. ASSUME NEW p \in From(m - 1) PROVE Differing(s, t, p[1], p[2], g) = Differing(s, t, p[1], p[2], f)
    <3>1. PICK i, j : i = p[1] /\ j = p[2]
      OBVIOUS
    <3>2. i \in Nat /\ j \in Nat /\ i + j >= m - 1
      BY <3>1
    <3>3. <<i + 1, j>> \in From(m) /\ <<i, j + 1>> \in From(m) /\ <<i + 1, j + 1>> \in From(m)
      BY <3>2, <1>4
    <3>4. g[<<i + 1, j>>] = f[<<i + 1, j>>] /\ g[<<i, j + 1>>] = f[<<i, j + 1>>] /\ g[<<i + 1, j + 1>>] = f[<<i + 1, j + 1>>]
      BY <3>3, <2>4
    <3> QED BY <3>1, <3>4 DEF Differing
  <2>6. ASSUME NEW p \in From(m - 1) PROVE g[p] = Differing(s, t, p[1], p[2], g)
    <3>1. CASE p \notin From(m)
      <4> HIDE DEF From
      <4> QED BY <3>1, <2>2, <2>5
    <3>2. CASE p \in From(m)
      <4>1. g[p] = f[p]
        BY <3>2, <2>4
      <4>2. f[p] = Differing(s, t, p[1], p[2], f)
        <5> HIDE DEF From
        <5> QED BY <3>2, <2>1
      <4> QED BY <4>1, <4>2, <2>5
    <3> QED BY <3>1, <3>2
  <2>7. g = [p \in From(m - 1) |-> Differing(s, t, p[1], p[2], g)]
    <3> HIDE DEF From
    <3> QED BY <2>2, <2>6
  <2>8. m - 1 \in T
    <3>1. m - 1 \in Nat
      BY <1>4
    <3> HIDE DEF From
    <3> QED BY <2>7, <3>1
  <2>9. m <= m - 1
    BY <2>8, <1>3
  <2> QED BY <2>9, <1>4
<1>6. From(0) = Nat \X Nat
  OBVIOUS
<1> HIDE DEF From
<1> QED BY <1>3, <1>5, <1>6

LEMMA EditsSolve ==
  ASSUME NEW S, NEW s \in Seq(S), NEW t \in Seq(S)
  PROVE  \E f : Grounding!Edits(s, t) = f[<<1, 1>>] /\ \A i \in Nat : \A j \in Nat : f[<<i, j>>] = Differing(s, t, i, j, f)
<1> DEFINE f == CHOOSE from : from = [p \in Nat \X Nat |-> Differing(s, t, p[1], p[2], from)]
<1>1. Grounding!Edits(s, t) = f[<<1, 1>>]
  BY DEF Grounding!Edits, Differing
<1>2. f = [p \in Nat \X Nat |-> Differing(s, t, p[1], p[2], f)]
  BY EditsRecur
<1> HIDE DEF f
<1>3. \A i \in Nat : \A j \in Nat : f[<<i, j>>] = Differing(s, t, i, j, f)
  BY <1>2
<1> QED BY <1>1, <1>3
(* Turning s from i on into t from j on turns s from a on into t from b on,  *)
(* and what is between with c edits or more.                                 *)
SplitAt(s, t, f, i, j, a, b, c) ==
  /\ f[<<a, b>>] \in Nat /\ f[<<i, j>>] >= f[<<a, b>>] + c
  /\ (b - j) - (a - i) <= c /\ (a - i) - (b - j) <= c
  /\ c = 0 => \A k \in i .. a - 1 : s[k] = t[j + (k - i)]
Splits(s, t, f, i, j) ==
  /\ f[<<i, j>>] \in Nat
  /\ \A a \in i .. Len(s) + 1 : \E b \in j .. Len(t) + 1 : \E c \in Nat : SplitAt(s, t, f, i, j, a, b, c)

LEMMA SplitsHere ==
  ASSUME NEW s, NEW t, NEW f, NEW i \in Nat, NEW j \in Nat, f[<<i, j>>] \in Nat
  PROVE  SplitAt(s, t, f, i, j, i, j, 0)
<1>1. i .. i - 1 = {}
  OBVIOUS
<1> QED BY <1>1 DEF SplitAt

LEMMA OneCloser ==
  ASSUME NEW i \in Int, NEW j \in Int, NEW a \in Int, NEW b \in Int, NEW c \in Nat, NEW p \in {0, 1}, NEW q \in {0, 1},
         (b - (j + q)) - (a - (i + p)) <= c, (a - (i + p)) - (b - (j + q)) <= c
  PROVE  (b - j) - (a - i) <= c + 1 /\ (a - i) - (b - j) <= c + 1
OBVIOUS

LEMMA SplitsOn ==
  ASSUME NEW S, NEW s \in Seq(S), NEW t \in Seq(S), NEW f,
         \A i \in Nat : \A j \in Nat : f[<<i, j>>] = Differing(s, t, i, j, f),
         NEW i \in 1 .. Len(s) + 1, NEW j \in 1 .. Len(t) + 1,
         i <= Len(s) => Splits(s, t, f, i + 1, j),
         j <= Len(t) => Splits(s, t, f, i, j + 1),
         i <= Len(s) /\ j <= Len(t) => Splits(s, t, f, i + 1, j + 1)
  PROVE  Splits(s, t, f, i, j)
<1>1. PICK m, n : m = Len(s) /\ n = Len(t)
  OBVIOUS
<1>2. m \in Nat /\ n \in Nat /\ i \in Nat /\ j \in Nat /\ 1 <= i /\ 1 <= j /\ i <= m + 1 /\ j <= n + 1
  BY <1>1
<1>8. f[<<i, j>>] = Differing(s, t, i, j, f)
  BY <1>2
<1>3. CASE i = m + 1
  <2>6. i > Len(s)
    BY <1>1, <1>2, <1>3
  <2>7. f[<<i, j>>] = (Len(s) + 1 - i) + (Len(t) + 1 - j)
    BY <2>6, <1>8 DEF Differing
  <2>1. f[<<i, j>>] = n + 1 - j
    BY <2>7, <1>1, <1>2, <1>3
  <2>2. f[<<i, j>>] \in Nat
    BY <2>1, <1>2
  <2>3. SplitAt(s, t, f, i, j, i, j, 0)
    BY <2>2, <1>2, SplitsHere
  <2>4. \A a \in i .. m + 1 : a = i
    BY <1>2, <1>3
  <2>5. j \in j .. n + 1
    BY <1>2
  <2> QED BY <2>2, <2>3, <2>4, <2>5, <1>1 DEF Splits
<1>4. CASE i <= m /\ j = n + 1
  <2>1. \A a \in i .. m + 1 : f[<<a, j>>] = m + 1 - a
    <3> SUFFICES ASSUME NEW a \in i .. m + 1 PROVE f[<<a, j>>] = m + 1 - a
      OBVIOUS
    <3>1. a \in Nat /\ j \in Nat /\ j > Len(t)
      BY <1>1, <1>2, <1>4
    <3>2. f[<<a, j>>] = (Len(s) + 1 - a) + (Len(t) + 1 - j)
      BY <3>1 DEF Differing
    <3> QED BY <3>1, <3>2, <1>1, <1>2, <1>4
  <2>2. f[<<i, j>>] \in Nat /\ f[<<i, j>>] = m + 1 - i
    BY <2>1, <1>2, <1>4
  <2>3. ASSUME NEW a \in i .. m + 1 PROVE SplitAt(s, t, f, i, j, a, j, a - i) /\ a - i \in Nat
    <3>1. f[<<a, j>>] = m + 1 - a /\ a \in Nat /\ i <= a /\ a <= m + 1
      BY <2>1, <1>2
    <3>2. a - i = 0 => i .. a - 1 = {}
      BY <3>1, <1>2
    <3>3. f[<<a, j>>] \in Nat /\ f[<<i, j>>] >= f[<<a, j>>] + (a - i)
      BY <3>1, <2>2, <1>2
    <3>4. (j - j) - (a - i) <= a - i /\ (a - i) - (j - j) <= a - i
      BY <3>1, <1>2
    <3>5. a - i \in Nat
      BY <3>1, <1>2
    <3> QED BY <3>2, <3>3, <3>4, <3>5 DEF SplitAt
  <2>5. j \in j .. n + 1
    BY <1>2
  <2> QED BY <2>2, <2>3, <2>5, <1>1 DEF Splits
<1>5. CASE i <= m /\ j <= n /\ s[i] = t[j]
  <2>5. ~(i > Len(s)) /\ ~(j > Len(t))
    BY <1>1, <1>2, <1>5
  <2>1. f[<<i, j>>] = f[<<i + 1, j + 1>>]
    BY <2>5, <1>5, <1>8 DEF Differing
  <2>2. Splits(s, t, f, i + 1, j + 1)
    BY <1>1, <1>5
  <2>3. f[<<i, j>>] \in Nat
    BY <2>1, <2>2 DEF Splits
  <2>4. ASSUME NEW a \in i .. m + 1 PROVE \E b \in j .. n + 1 : \E c \in Nat : SplitAt(s, t, f, i, j, a, b, c)
    <3>1. CASE a = i
      <4>1. SplitAt(s, t, f, i, j, i, j, 0) /\ j \in j .. n + 1
        BY <2>3, <1>2, SplitsHere
      <4> QED BY <3>1, <4>1
    <3>2. CASE a # i
      <4>1. a \in i + 1 .. Len(s) + 1
        BY <3>2, <1>1, <1>2
      <4>2. PICK b \in j + 1 .. n + 1, c \in Nat : SplitAt(s, t, f, i + 1, j + 1, a, b, c)
        BY <4>1, <2>2, <1>1 DEF Splits
      <4>3. /\ f[<<a, b>>] \in Nat /\ f[<<i, j>>] >= f[<<a, b>>] + c
            /\ (b - (j + 1)) - (a - (i + 1)) <= c /\ (a - (i + 1)) - (b - (j + 1)) <= c
            /\ c = 0 => \A k \in i + 1 .. a - 1 : s[k] = t[(j + 1) + (k - (i + 1))]
        BY <4>2, <2>1 DEF SplitAt
      <4>4. b \in j .. n + 1 /\ b \in Int /\ a \in Int
        BY <1>2
      <4>5. (b - j) - (a - i) <= c /\ (a - i) - (b - j) <= c
        BY <4>3, <4>4, <1>2
      <4>6. ASSUME c = 0, NEW k \in i .. a - 1 PROVE s[k] = t[j + (k - i)]
        <5>1. CASE k = i
          <6>1. j + (k - i) = j
            BY <5>1, <1>2
          <6> QED BY <5>1, <6>1, <1>5
        <5>2. CASE k # i
          <6>1. k \in i + 1 .. a - 1 /\ (j + 1) + (k - (i + 1)) = j + (k - i)
            BY <5>2, <4>4, <1>2
          <6>2. s[k] = t[(j + 1) + (k - (i + 1))]
            BY <6>1, <4>3, <4>6
          <6> QED BY <6>1, <6>2
        <5> QED BY <5>1, <5>2
      <4>7. SplitAt(s, t, f, i, j, a, b, c)
        BY <4>3, <4>5, <4>6 DEF SplitAt
      <4> QED BY <4>4, <4>7
    <3> QED BY <3>1, <3>2
  <2> QED BY <2>3, <2>4, <1>1 DEF Splits
<1>6. CASE i <= m /\ j <= n /\ s[i] # t[j]
  <2>1. f[<<i, j>>] = 1 + Grounding!Min({f[<<i + 1, j>>], f[<<i, j + 1>>], f[<<i + 1, j + 1>>]})
    <3>1. ~(i > Len(s)) /\ ~(j > Len(t))
      BY <1>1, <1>2, <1>6
    <3> QED BY <3>1, <1>6, <1>8 DEF Differing
  <2>2. Splits(s, t, f, i + 1, j) /\ Splits(s, t, f, i, j + 1) /\ Splits(s, t, f, i + 1, j + 1)
    BY <1>1, <1>6
  <2>3. PICK x, y, z : x = f[<<i + 1, j>>] /\ y = f[<<i, j + 1>>] /\ z = f[<<i + 1, j + 1>>]
    OBVIOUS
  <2>4. x \in Nat /\ y \in Nat /\ z \in Nat
    BY <2>2, <2>3 DEF Splits
  <2>5. Grounding!Min({x, y, z}) \in {x, y, z}
    <3>1. {x, y, z} \in SUBSET Nat /\ {x, y, z} # {}
      BY <2>4
    <3> QED BY <3>1, MinIs
  <2>6. PICK w : w = Grounding!Min({x, y, z})
    OBVIOUS
  <2>7. f[<<i, j>>] = 1 + w /\ w \in Nat
    BY <2>1, <2>3, <2>4, <2>5, <2>6
  <2>8. f[<<i, j>>] \in Nat
    BY <2>7
  \* by way of u and v, the next place
  <2>9. ASSUME NEW u \in {i, i + 1}, NEW v \in {j, j + 1}, Splits(s, t, f, u, v), f[<<u, v>>] = w,
               NEW a \in i .. m + 1, a # i
        PROVE  \E b \in j .. n + 1 : \E c \in Nat : SplitAt(s, t, f, i, j, a, b, c)
    <3>1. a \in u .. Len(s) + 1
      BY <2>9, <1>1, <1>2
    <3>2. PICK b \in v .. n + 1, c \in Nat : SplitAt(s, t, f, u, v, a, b, c)
      BY <3>1, <2>9, <1>1 DEF Splits
    <3>3. /\ f[<<a, b>>] \in Nat /\ w >= f[<<a, b>>] + c
          /\ (b - v) - (a - u) <= c /\ (a - u) - (b - v) <= c
      BY <3>2, <2>9 DEF SplitAt
    <3>4. b \in j .. n + 1 /\ b \in Int /\ a \in Int /\ u \in Int /\ v \in Int
      BY <1>2
    <3>5. (b - j) - (a - i) <= c + 1 /\ (a - i) - (b - j) <= c + 1
      <4>1. PICK p \in {0, 1}, q \in {0, 1} : u = i + p /\ v = j + q
        BY <1>2
      <4>2. (b - (j + q)) - (a - (i + p)) <= c /\ (a - (i + p)) - (b - (j + q)) <= c
        BY <4>1, <3>3
      <4>3. i \in Int /\ j \in Int /\ a \in Int /\ b \in Int /\ c \in Nat
        BY <3>2, <3>4, <1>2
      <4> QED BY <4>1, <4>2, <4>3, OneCloser
    <3>6. f[<<i, j>>] >= f[<<a, b>>] + (c + 1) /\ c + 1 \in Nat /\ c + 1 # 0
      <4>1. PICK p, q : p = f[<<a, b>>] /\ q = f[<<i, j>>]
        OBVIOUS
      <4>2. p \in Nat /\ q = 1 + w /\ w >= p + c /\ w \in Nat /\ c \in Nat
        BY <4>1, <3>2, <3>3, <2>7
      <4>3. q >= p + (c + 1) /\ c + 1 \in Nat /\ c + 1 # 0
        BY <4>2
      <4> QED BY <4>1, <4>3
    <3>7. SplitAt(s, t, f, i, j, a, b, c + 1)
      BY <3>3, <3>5, <3>6 DEF SplitAt
    <3> QED BY <3>4, <3>6, <3>7
  <2>10. ASSUME NEW a \in i .. m + 1 PROVE \E b \in j .. n + 1 : \E c \in Nat : SplitAt(s, t, f, i, j, a, b, c)
    <3>1. CASE a = i
      <4>1. SplitAt(s, t, f, i, j, i, j, 0) /\ j \in j .. n + 1
        BY <2>8, <1>2, SplitsHere
      <4> QED BY <3>1, <4>1
    <3>2. CASE a # i /\ w = x
      BY <3>2, <2>2, <2>3, <2>9
    <3>3. CASE a # i /\ w = y
      BY <3>3, <2>2, <2>3, <2>9
    <3>4. CASE a # i /\ w = z
      BY <3>4, <2>2, <2>3, <2>9
    <3> QED BY <3>1, <3>2, <3>3, <3>4, <2>5, <2>6
  <2> QED BY <2>8, <2>10, <1>1 DEF Splits
<1>7. i = m + 1 \/ (i <= m /\ j = n + 1) \/ (i <= m /\ j <= n)
  BY <1>2
<1> QED BY <1>3, <1>4, <1>5, <1>6, <1>7

LEMMA EditsSplit ==
  ASSUME NEW S, NEW s \in Seq(S), NEW t \in Seq(S), NEW f,
         \A i \in Nat : \A j \in Nat : f[<<i, j>>] = Differing(s, t, i, j, f)
  PROVE  \A i \in 1 .. Len(s) + 1 : \A j \in 1 .. Len(t) + 1 : Splits(s, t, f, i, j)
<1>1. PICK m, n : m = Len(s) + 1 /\ n = Len(t) + 1
  OBVIOUS
<1>2. m \in Nat /\ n \in Nat
  BY <1>1
<1> DEFINE T == {k \in Nat : \A i \in 1 .. m : \A j \in 1 .. n : i + j + k >= m + n => Splits(s, t, f, i, j)}
<1>3. 0 \in T
  <2> SUFFICES ASSUME NEW i \in 1 .. m, NEW j \in 1 .. n, i + j + 0 >= m + n PROVE Splits(s, t, f, i, j)
    OBVIOUS
  <2>1. i = m /\ j = n /\ ~(i <= Len(s)) /\ ~(j <= Len(t))
    BY <1>1, <1>2
  <2>2. i \in 1 .. Len(s) + 1 /\ j \in 1 .. Len(t) + 1
    BY <1>1
  <2> QED BY <2>1, <2>2, SplitsOn
<1>4. ASSUME NEW k \in Nat, k \in T PROVE k + 1 \in T
  <2> SUFFICES ASSUME NEW i \in 1 .. m, NEW j \in 1 .. n, i + j + (k + 1) >= m + n PROVE Splits(s, t, f, i, j)
    OBVIOUS
  <2>0. i \in Nat /\ j \in Nat /\ 1 <= i /\ 1 <= j
    BY <1>2
  <2>1. ASSUME i <= Len(s) PROVE Splits(s, t, f, i + 1, j)
    <3>1. i + 1 \in 1 .. m /\ (i + 1) + j + k >= m + n
      BY <2>0, <2>1, <1>1, <1>2
    <3> QED BY <3>1, <1>4
  <2>2. ASSUME j <= Len(t) PROVE Splits(s, t, f, i, j + 1)
    <3>1. j + 1 \in 1 .. n /\ i + (j + 1) + k >= m + n
      BY <2>0, <2>2, <1>1, <1>2
    <3> QED BY <3>1, <1>4
  <2>3. ASSUME i <= Len(s), j <= Len(t) PROVE Splits(s, t, f, i + 1, j + 1)
    <3>1. i + 1 \in 1 .. m /\ j + 1 \in 1 .. n /\ (i + 1) + (j + 1) + k >= m + n
      BY <2>0, <2>3, <1>1, <1>2
    <3> QED BY <3>1, <1>4
  <2>4. i \in 1 .. Len(s) + 1 /\ j \in 1 .. Len(t) + 1
    BY <1>1
  <2> QED BY <2>1, <2>2, <2>3, <2>4, SplitsOn
<1>5. m + n \in T
  <2>1. m + n \in Nat
    BY <1>2
  <2> HIDE DEF T
  <2> QED BY <1>3, <1>4, <2>1, Steps
<1>6. ASSUME NEW i \in 1 .. m, NEW j \in 1 .. n PROVE Splits(s, t, f, i, j)
  <2>1. i + j + (m + n) >= m + n
    BY <1>2
  <2> QED BY <2>1, <1>5
<1> QED BY <1>1, <1>6

(* The edits between two texts: none if they are equal; their lengths differ *)
(* by no more.                                                               *)
LEMMA EditsAre ==
  ASSUME NEW S, NEW s \in Seq(S), NEW t \in Seq(S)
  PROVE  /\ Grounding!Edits(s, t) \in Nat
         /\ Grounding!Edits(s, t) = 0 => s = t
         /\ Len(s) - Len(t) <= Grounding!Edits(s, t) /\ Len(t) - Len(s) <= Grounding!Edits(s, t)
<1>1. PICK f : Grounding!Edits(s, t) = f[<<1, 1>>] /\ \A i \in Nat : \A j \in Nat : f[<<i, j>>] = Differing(s, t, i, j, f)
  BY EditsSolve
<1>2. PICK m, n, e : m = Len(s) /\ n = Len(t) /\ e = Grounding!Edits(s, t)
  OBVIOUS
<1>3. m \in Nat /\ n \in Nat
  BY <1>2
<1>4. \A i \in 1 .. m + 1 : \A j \in 1 .. n + 1 : Splits(s, t, f, i, j)
  BY <1>1, <1>2, EditsSplit
<1>5. 1 \in 1 .. m + 1 /\ 1 \in 1 .. n + 1 /\ m + 1 \in 1 .. m + 1
  BY <1>3
<1>6. Splits(s, t, f, 1, 1)
  BY <1>4, <1>5
<1>7. e \in Nat
  BY <1>1, <1>2, <1>6 DEF Splits
<1>8. PICK b \in 1 .. n + 1, c \in Nat : SplitAt(s, t, f, 1, 1, m + 1, b, c)
  BY <1>2, <1>5, <1>6 DEF Splits
<1>9. /\ e >= f[<<m + 1, b>>] + c
      /\ (b - 1) - (m + 1 - 1) <= c /\ (m + 1 - 1) - (b - 1) <= c
      /\ c = 0 => \A k \in 1 .. m + 1 - 1 : s[k] = t[1 + (k - 1)]
  BY <1>1, <1>2, <1>8 DEF SplitAt
<1>10. f[<<m + 1, b>>] = n + 1 - b
  <2>1. m + 1 \in Nat /\ b \in Nat /\ m + 1 > Len(s)
    BY <1>2, <1>3
  <2>2. f[<<m + 1, b>>] = (Len(s) + 1 - (m + 1)) + (Len(t) + 1 - b)
    BY <2>1, <1>1 DEF Differing
  <2> QED BY <2>1, <2>2, <1>2, <1>3
<1>11. b \in Nat /\ b <= n + 1 /\ c \in Nat
  BY <1>3, <1>8
<1>12. m - n <= e /\ n - m <= e
  BY <1>3, <1>7, <1>9, <1>10, <1>11
<1>13. ASSUME e = 0 PROVE s = t
  <2>1. c = 0 /\ b = n + 1 /\ m = n
    BY <1>3, <1>9, <1>10, <1>11, <1>13
  <2>2. \A k \in 1 .. m : s[k] = t[k]
    <3> SUFFICES ASSUME NEW k \in 1 .. m PROVE s[k] = t[k]
      OBVIOUS
    <3>1. k \in 1 .. m + 1 - 1 /\ 1 + (k - 1) = k
      BY <1>3
    <3>2. s[k] = t[1 + (k - 1)]
      BY <3>1, <2>1, <1>9
    <3> QED BY <3>1, <3>2
  <2> QED BY <2>1, <2>2, <1>2, SeqEqual
<1> QED BY <1>2, <1>7, <1>12, <1>13
-----------------------------------------------------------------------------
(* Windows that resemble the claim                                           *)

LEMMA Quotients ==
  ASSUME NEW a \in Nat, NEW n \in Nat, n >= 1
  PROVE  a \div n \in Nat /\ n * (a \div n) <= a
OBVIOUS

LEMMA MostEdits ==
  ASSUME NEW m \in Nat
  PROVE  Grounding!MaxEdits(m) \in Int
<1>1. Den - Num \in Nat /\ Num \in Nat /\ Num >= 1
  BY GroundingAssumption
<1>2. (Den - Num) * m \in Nat
  BY <1>1
<1>3. ((Den - Num) * m) \div Num \in Nat
  BY <1>1, <1>2, Quotients
<1> QED BY <1>3 DEF Grounding!MaxEdits

BlockStart(claim, k, i) == i * Grounding!BlockSize(Len(claim), k)
BlockEnd(claim, k, i) == IF i = k THEN Len(claim) ELSE (i + 1) * Grounding!BlockSize(Len(claim), k)

LEMMA BlocksAre ==
  ASSUME NEW S, NEW claim \in Seq(S), NEW k \in Nat, NEW i \in 0 .. k
  PROVE  /\ BlockStart(claim, k, i) \in Nat /\ BlockEnd(claim, k, i) \in Nat
         /\ BlockStart(claim, k, i) <= BlockEnd(claim, k, i) /\ BlockEnd(claim, k, i) <= Len(claim)
         /\ Grounding!BlockSize(Len(claim), k) \in Nat
<1>1. PICK m, n : m = Len(claim) /\ n = Grounding!BlockSize(m, k)
  OBVIOUS
<1>2. m \in Nat
  BY <1>1
<1>3. n \in Nat /\ (k + 1) * n <= m
  <2>1. k + 1 \in Nat /\ k + 1 >= 1
    OBVIOUS
  <2> QED BY <2>1, <1>1, <1>2, Quotients DEF Grounding!BlockSize
<1>4. i \in Nat /\ i <= k /\ (i # k => i + 1 <= k)
  OBVIOUS
<1>5. i * n \in Nat /\ (i + 1) * n \in Nat /\ i * n <= (i + 1) * n
  BY <1>3, <1>4
<1>6. (i + 1) * n <= (k + 1) * n
  <2>1. i + 1 <= k + 1
    BY <1>4
  <2> QED BY <2>1, <1>3, <1>4
<1>7. (k + 1) * n \in Nat
  BY <1>3
<1>8. (i + 1) * n <= m
  BY <1>2, <1>3, <1>5, <1>6, <1>7
<1> QED BY <1>1, <1>2, <1>3, <1>5, <1>8 DEF BlockStart, BlockEnd

LEMMA ProposedAre ==
  ASSUME NEW S, NEW text \in Seq(S), NEW claim \in Seq(S), NEW k \in Int
  PROVE  Grounding!Proposed(text, claim, k) \subseteq Nat /\ IsFiniteSet(Grounding!Proposed(text, claim, k))
<1>1. PICK l, P : l = Len(text) /\ P = Grounding!Proposed(text, claim, k)
  OBVIOUS
<1>2. l \in Nat /\ Len(claim) \in Nat
  BY <1>1
<1>3. CASE k + 1 > Len(claim)
  <2>1. P = 0 .. l - 1
    BY <1>1, <1>3 DEF Grounding!Proposed
  <2>2. P \subseteq Nat
    BY <2>1
  <2>3. IsFiniteSet(0 .. l - 1)
    <3>1. 0 \in Int /\ l - 1 \in Int
      BY <1>2
    <3> QED BY <3>1, FS_Interval
  <2> QED BY <2>1, <2>2, <2>3, <1>1
<1>4. CASE ~(k + 1 > Len(claim))
  <2>1. P = {n \in UNION {{p - b[1] + d : p \in Grounding!Occurrences(text, b[2]), d \in -k .. k} : b \in Grounding!Blocks(claim, k)} : n >= 0}
    BY <1>1, <1>4 DEF Grounding!Proposed
  <2>2. ASSUME NEW n \in P PROVE n \in 0 .. l + k /\ n \in Nat
    <3>1. PICK b \in Grounding!Blocks(claim, k) : n \in {p - b[1] + d : p \in Grounding!Occurrences(text, b[2]), d \in -k .. k}
      BY <2>1
    <3>2. n >= 0
      BY <2>1
    <3>3. PICK i \in 0 .. k : b = <<BlockStart(claim, k, i), Grounding!Slice(claim, BlockStart(claim, k, i), BlockEnd(claim, k, i))>>
      BY <3>1 DEF Grounding!Blocks, BlockStart, BlockEnd
    <3>4. k \in Nat /\ i \in 0 .. k
      BY <3>3
    <3>5. PICK x, y : x = BlockStart(claim, k, i) /\ y = BlockEnd(claim, k, i)
      OBVIOUS
    <3>6. x \in Nat /\ y \in Nat /\ x <= y /\ y <= Len(claim)
      BY <3>4, <3>5, BlocksAre
    <3>7. b[1] = x /\ b[2] = Grounding!Slice(claim, x, y)
      BY <3>3, <3>5
    <3>8. b[2] \in Seq(S)
      BY <3>6, <3>7, SlicesAreTexts
    <3>9. PICK p \in Grounding!Occurrences(text, b[2]), d \in -k .. k : n = p - b[1] + d
      BY <3>1
    <3>10. p \in Nat /\ p <= l
      BY <3>8, <3>9, <1>1, OccurrencesAre
    <3>11. d \in Int /\ d <= k
      BY <3>4, <3>9
    <3>12. n = (p - x) + d
      BY <3>7, <3>9
    <3> QED BY <3>2, <3>4, <3>6, <3>10, <3>11, <3>12, <1>2
  <2>3. IsFiniteSet(0 .. l + k)
    <3>1. 0 \in Int /\ l + k \in Int
      BY <1>2
    <3> QED BY <3>1, FS_Interval
  <2>4. P \in SUBSET (0 .. l + k)
    BY <2>2
  <2>5. IsFiniteSet(P)
    BY <2>3, <2>4, FS_Subset
  <2> QED BY <2>2, <2>5, <1>1
<1> QED BY <1>3, <1>4

LEMMA FuzzyWindows ==
  ASSUME NEW S, NEW text \in Seq(S), NEW claim \in Seq(S)
  PROVE  \A w \in Grounding!FindFuzzy(text, claim) :
           IsWindow(text, claim, w) /\ w.edits = Grounding!Edits(claim, Grounding!Slice(text, w.start, w.end))
<1>1. PICK m, k : m = Len(claim) /\ k = Grounding!MaxEdits(m)
  OBVIOUS
<1>2. m \in Nat /\ k \in Int
  <2>1. m \in Nat
    BY <1>1
  <2> QED BY <2>1, <1>1, MostEdits
<1>3. PICK P : P = Grounding!First(Grounding!Proposed(text, claim, k), Budget)
  OBVIOUS
<1>4. P \subseteq Nat
  BY <1>2, <1>3, ProposedAre DEF Grounding!First
<1> SUFFICES ASSUME NEW w \in Grounding!FindFuzzy(text, claim)
             PROVE  IsWindow(text, claim, w) /\ w.edits = Grounding!Edits(claim, Grounding!Slice(text, w.start, w.end))
  OBVIOUS
<1>5. PICK x \in P \X (Grounding!Longer(1, m - k) .. m + k) :
        x[1] + x[2] <= Len(text) /\ w = Grounding!Window(x[1], x[1] + x[2], Grounding!Edits(claim, Grounding!Slice(text, x[1], x[1] + x[2])))
  BY <1>1, <1>3 DEF Grounding!FindFuzzy
<1>6. x[1] \in Nat /\ x[2] \in Grounding!Longer(1, m - k) .. m + k
  BY <1>4, <1>5
<1>7. PICK a, n : a = x[1] /\ n = x[2]
  OBVIOUS
<1>8. n \in Int /\ n >= 1
  <2>1. Grounding!Longer(1, m - k) \in Int /\ Grounding!Longer(1, m - k) >= 1
    BY <1>2 DEF Grounding!Longer
  <2>2. PICK q : q = Grounding!Longer(1, m - k)
    OBVIOUS
  <2> QED BY <2>1, <2>2, <1>2, <1>6, <1>7
<1>9. a \in Nat /\ a + n \in Nat /\ a < a + n /\ a + n <= Len(text) /\ a <= a + n
  BY <1>5, <1>6, <1>7, <1>8
<1>10. PICK u : u = Grounding!Slice(text, a, a + n)
  OBVIOUS
<1>11. u \in Seq(S)
  BY <1>9, <1>10, SlicesAreTexts
<1>12. Grounding!Edits(claim, u) \in Nat /\ (Grounding!Edits(claim, u) = 0 => claim = u)
  BY <1>11, EditsAre
<1>13. w = Grounding!Window(a, a + n, Grounding!Edits(claim, u))
  BY <1>5, <1>7, <1>10
<1>14. w.start = a /\ w.end = a + n /\ w.edits = Grounding!Edits(claim, u) /\ w = Grounding!Window(w.start, w.end, w.edits)
  BY <1>13 DEF Grounding!Window
<1> QED BY <1>9, <1>10, <1>12, <1>14 DEF IsWindow
-----------------------------------------------------------------------------
(* The best of the windows found                                             *)

LEMMA SmallerRatios ==
  ASSUME NEW a \in Nat, NEW b \in Nat, NEW c \in Nat, NEW x \in Nat, NEW y \in Nat, NEW z \in Nat,
         x >= 1, y >= 1, z >= 1
  PROVE  /\ a * y < b * x /\ b * z <= c * y => a * z < c * x
         /\ a * y <= b * x /\ b * z < c * y => a * z < c * x
         /\ a * y = b * x /\ b * z = c * y => a * z = c * x
<1>1. ASSUME a * y < b * x, b * z <= c * y PROVE a * z < c * x
  BY <1>1
<1>2. ASSUME a * y <= b * x, b * z < c * y PROVE a * z < c * x
  BY <1>2
<1>3. ASSUME a * y = b * x, b * z = c * y PROVE a * z = c * x
  BY <1>3
<1> QED BY <1>1, <1>2, <1>3

LEMMA SameRatios ==
  ASSUME NEW a \in Nat, NEW b \in Nat, NEW x \in Nat, x >= 1, a * x = b * x
  PROVE  a = b
OBVIOUS

LEMMA Lengths ==
  ASSUME NEW text, Len(text) \in Nat, NEW claim, NEW m \in Nat, NEW v, IsWindow(text, claim, v)
  PROVE  Grounding!Longer(m, v.end - v.start) \in Nat /\ Grounding!Longer(m, v.end - v.start) >= 1
<1>1. PICK x, y : x = v.start /\ y = v.end
  OBVIOUS
<1>2. x \in Nat /\ y \in Nat /\ x < y
  BY <1>1 DEF IsWindow
<1>3. Grounding!Longer(m, y - x) \in Nat /\ Grounding!Longer(m, y - x) >= 1
  BY <1>2 DEF Grounding!Longer
<1> QED BY <1>1, <1>3

LEMMA BeforeIsTotal ==
  ASSUME NEW text, Len(text) \in Nat, NEW claim, NEW m \in Nat, NEW v, IsWindow(text, claim, v),
         NEW w, IsWindow(text, claim, w)
  PROVE  v = w \/ Grounding!Before(v, w, m) \/ Grounding!Before(w, v, m)
<1> SUFFICES ASSUME ~Grounding!Before(v, w, m), ~Grounding!Before(w, v, m) PROVE v = w
  OBVIOUS
<1>1. PICK x, y : x = Grounding!Longer(m, v.end - v.start) /\ y = Grounding!Longer(m, w.end - w.start)
  OBVIOUS
<1>2. x \in Nat /\ y \in Nat /\ x >= 1 /\ y >= 1
  BY <1>1, Lengths
<1>3. PICK a, b : a = v.edits /\ b = w.edits
  OBVIOUS
<1>4. a \in Nat /\ b \in Nat /\ v.start \in Nat /\ w.start \in Nat /\ v.end \in Nat /\ w.end \in Nat
  BY <1>3 DEF IsWindow
<1>5. ~(a * y < b * x) /\ ~(b * x < a * y)
  BY <1>1, <1>3 DEF Grounding!Before
<1>6. a * y = b * x
  <2>1. a * y \in Nat /\ b * x \in Nat
    BY <1>2, <1>4
  <2> QED BY <2>1, <1>5
<1>7. /\ ~(v.start < w.start) /\ ~(w.start < v.start)
      /\ v.start = w.start => ~(v.end < w.end) /\ ~(w.end < v.end)
  BY <1>1, <1>3, <1>6 DEF Grounding!Before
<1>8. v.start = w.start /\ v.end = w.end
  <2>1. PICK p, q, r, s : p = v.start /\ q = w.start /\ r = v.end /\ s = w.end
    OBVIOUS
  <2>2. p = q
    BY <2>1, <1>4, <1>7
  <2>3. r = s
    BY <2>1, <2>2, <1>4, <1>7
  <2> QED BY <2>1, <2>2, <2>3
<1>9. x = y
  BY <1>1, <1>8
<1>10. a = b
  BY <1>2, <1>4, <1>6, <1>9, SameRatios
<1> QED BY <1>3, <1>8, <1>10 DEF IsWindow

LEMMA BeforeIsTransitive ==
  ASSUME NEW text, Len(text) \in Nat, NEW claim, NEW m \in Nat, NEW u, IsWindow(text, claim, u),
         NEW v, IsWindow(text, claim, v), NEW w, IsWindow(text, claim, w),
         Grounding!Before(u, v, m), Grounding!Before(v, w, m)
  PROVE  Grounding!Before(u, w, m)
<1>1. PICK x, y, z : x = Grounding!Longer(m, u.end - u.start) /\ y = Grounding!Longer(m, v.end - v.start) /\ z = Grounding!Longer(m, w.end - w.start)
  OBVIOUS
<1>2. x \in Nat /\ y \in Nat /\ z \in Nat /\ x >= 1 /\ y >= 1 /\ z >= 1
  BY <1>1, Lengths
<1>3. PICK a, b, c : a = u.edits /\ b = v.edits /\ c = w.edits
  OBVIOUS
<1>4. a \in Nat /\ b \in Nat /\ c \in Nat
  BY <1>3 DEF IsWindow
<1>5. PICK p, q, r, i, j, k : p = u.start /\ q = v.start /\ r = w.start /\ i = u.end /\ j = v.end /\ k = w.end
  OBVIOUS
<1>6. p \in Nat /\ q \in Nat /\ r \in Nat /\ i \in Nat /\ j \in Nat /\ k \in Nat
  BY <1>5 DEF IsWindow
<1>7. a * y < b * x \/ (a * y = b * x /\ (p < q \/ (p = q /\ i < j)))
  BY <1>1, <1>3, <1>5 DEF Grounding!Before
<1>8. b * z < c * y \/ (b * z = c * y /\ (q < r \/ (q = r /\ j < k)))
  BY <1>1, <1>3, <1>5 DEF Grounding!Before
<1>9. a * y \in Nat /\ b * x \in Nat /\ b * z \in Nat /\ c * y \in Nat
  BY <1>2, <1>4
<1>10. a * z < c * x \/ (a * z = c * x /\ (p < r \/ (p = r /\ i < k)))
  <2>1. CASE a * y < b * x
    <3>1. b * z <= c * y
      BY <1>8, <1>9
    <3> QED BY <2>1, <3>1, <1>2, <1>4, SmallerRatios
  <2>2. CASE b * z < c * y
    <3>1. a * y <= b * x
      BY <1>7, <1>9
    <3> QED BY <2>2, <3>1, <1>2, <1>4, SmallerRatios
  <2>3. CASE a * y = b * x /\ b * z = c * y /\ (p < q \/ (p = q /\ i < j)) /\ (q < r \/ (q = r /\ j < k))
    <3>1. a * z = c * x
      BY <2>3, <1>2, <1>4, SmallerRatios
    <3>2. p < r \/ (p = r /\ i < k)
      BY <2>3, <1>6
    <3> QED BY <3>1, <3>2
  <2> QED BY <2>1, <2>2, <2>3, <1>7, <1>8
<1> QED BY <1>1, <1>3, <1>5, <1>10 DEF Grounding!Before

(* A finite set that something orders has a first element.                   *)
LEMMA FirstExists ==
  ASSUME NEW F, IsFiniteSet(F), F # {}, NEW R,
         \A x \in F : \A y \in F : x = y \/ <<x, y>> \in R \/ <<y, x>> \in R,
         \A x \in F : \A y \in F : \A z \in F : <<x, y>> \in R /\ <<y, z>> \in R => <<x, z>> \in R
  PROVE  \E x \in F : \A y \in F : y = x \/ <<x, y>> \in R
<1> DEFINE T == {n \in Nat : \A G \in SUBSET F : Cardinality(G) = n /\ G # {} => \E x \in G : \A y \in G : y = x \/ <<x, y>> \in R}
<1>1. 0 \in T
  <2> SUFFICES ASSUME NEW G \in SUBSET F, Cardinality(G) = 0, G # {} PROVE FALSE
    OBVIOUS
  <2>1. IsFiniteSet(G)
    BY FS_Subset
  <2> QED BY <2>1, FS_EmptySet
<1>2. ASSUME NEW n \in Nat, n \in T PROVE n + 1 \in T
  <2> SUFFICES ASSUME NEW G \in SUBSET F, Cardinality(G) = n + 1, G # {}
               PROVE  \E x \in G : \A y \in G : y = x \/ <<x, y>> \in R
    OBVIOUS
  <2>1. PICK a \in G : TRUE
    OBVIOUS
  <2>2. PICK H : H = G \ {a}
    OBVIOUS
  <2>3. IsFiniteSet(G)
    BY FS_Subset
  <2>4. Cardinality(H) = n
    <3>1. Cardinality(G \ {a}) = Cardinality(G) - 1
      BY <2>1, <2>3, FS_RemoveElement
    <3> QED BY <3>1, <2>2
  <2>5. H \in SUBSET F /\ \A y \in G : y = a \/ y \in H
    BY <2>2
  <2>6. CASE H = {}
    BY <2>1, <2>5, <2>6
  <2>7. CASE H # {}
    <3>1. PICK x \in H : \A y \in H : y = x \/ <<x, y>> \in R
      BY <2>4, <2>5, <2>7, <1>2
    <3>2. x \in F /\ a \in F /\ x \in G
      BY <2>1, <2>2, <2>5, <3>1
    <3>3. CASE <<x, a>> \in R
      BY <3>1, <3>2, <3>3, <2>5
    <3>4. CASE <<a, x>> \in R
      <4>1. ASSUME NEW y \in H PROVE <<a, y>> \in R
        <5>1. y \in F
          BY <2>5
        <5>2. y = x \/ <<x, y>> \in R
          BY <3>1
        <5> QED BY <5>1, <5>2, <3>2, <3>4
      <4> QED BY <4>1, <2>1, <2>5
    <3>5. CASE x = a
      BY <3>1, <3>5, <2>2
    <3> QED BY <3>2, <3>3, <3>4, <3>5
  <2> QED BY <2>6, <2>7
<1>3. Cardinality(F) \in T
  <2>1. Cardinality(F) \in Nat
    BY FS_CardinalityType
  <2> HIDE DEF T
  <2> QED BY <1>1, <1>2, <2>1, Steps
<1>4. F \in SUBSET F
  OBVIOUS
<1> QED BY <1>3, <1>4

(* Windows that are what their places make them are finitely many, and one   *)
(* of them comes before the others.                                          *)
LEMMA BestExists ==
  ASSUME NEW text, Len(text) \in Nat, NEW claim, NEW m \in Nat, NEW F, F # {},
         \A w \in F : IsWindow(text, claim, w),
         \A v \in F : \A w \in F : v.start = w.start /\ v.end = w.end => v = w
  PROVE  \E w \in F : \A u \in F : u = w \/ Grounding!Before(w, u, m)
<1>1. PICK l, D : l = Len(text) /\ D = (0 .. l) \X (0 .. l)
  OBVIOUS
<1>2. IsFiniteSet(D)
  <2>1. IsFiniteSet(0 .. l)
    BY <1>1, FS_Interval
  <2> QED BY <2>1, <1>1, FS_Product
<1>3. PICK f : f = [w \in F |-> <<w.start, w.end>>]
  OBVIOUS
<1>4. ASSUME NEW w \in F PROVE <<w.start, w.end>> \in D
  <2>1. PICK x, y : x = w.start /\ y = w.end
    OBVIOUS
  <2>2. x \in Nat /\ y \in Nat /\ x < y /\ y <= l
    BY <2>1, <1>1 DEF IsWindow
  <2>3. x \in 0 .. l /\ y \in 0 .. l
    BY <2>2, <1>1
  <2> QED BY <2>1, <2>3, <1>1
<1>5. f \in [F -> D] /\ \A v, w \in F : f[v] = f[w] => v = w
  <2>1. \A w \in F : f[w] = <<w.start, w.end>>
    BY <1>3
  <2>2. f \in [F -> D]
    BY <1>3, <1>4
  <2>3. ASSUME NEW v \in F, NEW w \in F, f[v] = f[w] PROVE v = w
    <3>1. <<v.start, v.end>> = <<w.start, w.end>>
      BY <2>1, <2>3
    <3> QED BY <3>1
  <2> QED BY <2>2, <2>3
<1>6. f \in Injection(F, D)
  BY <1>5 DEF Injection, IsInjective
<1>7. IsFiniteSet(F)
  BY <1>2, <1>6, FS_Injection
<1>8. PICK R : R = {p \in F \X F : Grounding!Before(p[1], p[2], m)}
  OBVIOUS
<1>9. \A x \in F : \A y \in F : <<x, y>> \in R <=> Grounding!Before(x, y, m)
  BY <1>8
<1>10. \A x \in F : \A y \in F : x = y \/ <<x, y>> \in R \/ <<y, x>> \in R
  BY <1>9, BeforeIsTotal
<1>11. \A x \in F : \A y \in F : \A z \in F : <<x, y>> \in R /\ <<y, z>> \in R => <<x, z>> \in R
  <2> SUFFICES ASSUME NEW x \in F, NEW y \in F, NEW z \in F, <<x, y>> \in R, <<y, z>> \in R PROVE <<x, z>> \in R
    OBVIOUS
  <2>1. Grounding!Before(x, y, m) /\ Grounding!Before(y, z, m)
    BY <1>9
  <2>2. Grounding!Before(x, z, m)
    BY <2>1, BeforeIsTransitive
  <2> QED BY <2>2, <1>9
<1>12. PICK w \in F : \A u \in F : u = w \/ <<w, u>> \in R
  BY <1>7, <1>10, <1>11, FirstExists
<1> QED BY <1>9, <1>12
-----------------------------------------------------------------------------
(* The filter of candidates                                                  *)

LEMMA SlicesMatch ==
  ASSUME NEW S, NEW s \in Seq(S), NEW t \in Seq(S), NEW x \in Nat, NEW y \in Nat, x <= y, y <= Len(s),
         NEW p \in Nat, p + (y - x) <= Len(t),
         \A k \in x + 1 .. y : s[k] = t[p + 1 + (k - (x + 1))]
  PROVE  Grounding!Slice(t, p, p + (y - x)) = Grounding!Slice(s, x, y)
<1>1. PICK u, v, n : u = Grounding!Slice(t, p, p + (y - x)) /\ v = Grounding!Slice(s, x, y) /\ n = y - x
  OBVIOUS
<1>2. n \in Nat /\ p + n \in Nat /\ p <= p + n /\ p + n <= Len(t) /\ p + n - p = n
  BY <1>1
<1>3. u \in Seq(S) /\ Len(u) = n /\ \A k \in 1 .. n : u[k] = t[p + k]
  <2>1. PICK q : q = p + n
    OBVIOUS
  <2>2. q \in Nat /\ p <= q /\ q <= Len(t) /\ q - p = n
    BY <2>1, <1>2
  <2>3. /\ Grounding!Slice(t, p, q) \in Seq(S) /\ Len(Grounding!Slice(t, p, q)) = q - p
        /\ \A k \in 1 .. q - p : Grounding!Slice(t, p, q)[k] = t[p + k]
    BY <2>2 DEF Grounding!Slice
  <2> QED BY <2>1, <2>2, <2>3, <1>1
<1>4. v \in Seq(S) /\ Len(v) = n /\ \A k \in 1 .. n : v[k] = s[x + k]
  BY <1>1, SlicesAreTexts
<1>5. ASSUME NEW k \in 1 .. n PROVE u[k] = v[k]
  <2>1. PICK j : j = x + k
    OBVIOUS
  <2>2. j \in x + 1 .. y /\ p + 1 + (j - (x + 1)) = p + k
    BY <2>1, <1>1, <1>2
  <2>3. s[j] = t[p + k]
    BY <2>2
  <2> QED BY <2>1, <2>3, <1>3, <1>4
<1> QED BY <1>1, <1>3, <1>4, <1>5, SeqEqual

(* Block i of the claim stands, unedited, after p characters of the window.  *)
Unedited(claim, u, k, i, p) ==
  LET x == BlockStart(claim, k, i)
      y == BlockEnd(claim, k, i)
  IN /\ p - x <= k /\ x - p <= k /\ p + (y - x) <= Len(u)
     /\ Grounding!Slice(u, p, p + (y - x)) = Grounding!Slice(claim, x, y)

BlockAt(claim, k, r) == IF r = k + 1 THEN Len(claim) + 1 ELSE BlockStart(claim, k, r) + 1

(* Of k + 1 blocks k edits leave one alone, and not far from its place.      *)
LEMMA OneIsUnedited ==
  ASSUME NEW S, NEW claim \in Seq(S), NEW u \in Seq(S), NEW k \in Nat, Grounding!Edits(claim, u) <= k
  PROVE  \E i \in 0 .. k : \E p \in Nat : Unedited(claim, u, k, i, p)
<1>1. PICK f : Grounding!Edits(claim, u) = f[<<1, 1>>] /\ \A i \in Nat : \A j \in Nat : f[<<i, j>>] = Differing(claim, u, i, j, f)
  BY EditsSolve
<1>2. PICK m, n, e : m = Len(claim) /\ n = Len(u) /\ e = Grounding!Edits(claim, u)
  OBVIOUS
<1>3. m \in Nat /\ n \in Nat /\ e \in Nat /\ e <= k /\ e = f[<<1, 1>>]
  BY <1>1, <1>2, EditsAre
<1>4. \A i \in 1 .. m + 1 : \A j \in 1 .. n + 1 : Splits(claim, u, f, i, j)
  BY <1>1, <1>2, EditsSplit
<1>5. ASSUME NEW r \in 0 .. k
      PROVE  /\ BlockAt(claim, k, r) \in Nat /\ BlockAt(claim, k, r) >= 1
             /\ BlockAt(claim, k, r) <= BlockAt(claim, k, r + 1) /\ BlockAt(claim, k, r + 1) <= m + 1
             /\ BlockAt(claim, k, r + 1) \in Nat
             /\ BlockAt(claim, k, r) = BlockStart(claim, k, r) + 1 /\ BlockAt(claim, k, r + 1) = BlockEnd(claim, k, r) + 1
  <2>1. r \in Nat /\ r <= k /\ r # k + 1 /\ (r + 1 = k + 1 <=> r = k)
    OBVIOUS
  <2>2. PICK x, y : x = BlockStart(claim, k, r) /\ y = BlockEnd(claim, k, r)
    OBVIOUS
  <2>3. x \in Nat /\ y \in Nat /\ x <= y /\ y <= m
    BY <2>2, <1>2, BlocksAre
  <2>4. BlockAt(claim, k, r) = x + 1
    BY <2>1, <2>2 DEF BlockAt
  <2>5. BlockAt(claim, k, r + 1) = y + 1
    BY <2>1, <2>2 DEF BlockAt, BlockStart, BlockEnd
  <2>6. x + 1 \in Nat /\ x + 1 >= 1 /\ y + 1 \in Nat /\ x + 1 <= y + 1 /\ y + 1 <= m + 1
    BY <2>3, <1>3
  <2>7. BlockAt(claim, k, r) = BlockStart(claim, k, r) + 1 /\ BlockAt(claim, k, r + 1) = BlockEnd(claim, k, r) + 1
    BY <2>2, <2>4, <2>5
  <2> QED BY <2>4, <2>5, <2>6, <2>7
<1> DEFINE Unedits == \E i \in 0 .. k : \E p \in Nat : Unedited(claim, u, k, i, p)
           Passed(r, j, c) == /\ c >= r /\ f[<<BlockAt(claim, k, r), j>>] \in Nat
                              /\ e >= f[<<BlockAt(claim, k, r), j>>] + c
                              /\ j - BlockAt(claim, k, r) <= c /\ BlockAt(claim, k, r) - j <= c
           T == {r \in Nat : r <= k + 1 => Unedits \/ \E j \in 1 .. n + 1 : \E c \in Nat : Passed(r, j, c)}
<1>6. 0 \in T
  <2>1. BlockAt(claim, k, 0) = 1
    <3>1. 0 \in 0 .. k /\ Grounding!BlockSize(Len(claim), k) \in Nat
      BY BlocksAre
    <3>2. BlockStart(claim, k, 0) = 0
      BY <3>1 DEF BlockStart
    <3> QED BY <3>1, <3>2, <1>5
  <2>2. 1 \in 1 .. n + 1
    BY <1>3
  <2>3. Passed(0, 1, 0)
    BY <2>1, <1>3
  <2> QED BY <2>2, <2>3
<1>7. ASSUME NEW r \in Nat, r \in T PROVE r + 1 \in T
  <2> SUFFICES ASSUME r + 1 <= k + 1, ~Unedits PROVE \E j \in 1 .. n + 1 : \E c \in Nat : Passed(r + 1, j, c)
    OBVIOUS
  <2>1. r \in 0 .. k /\ r <= k + 1
    OBVIOUS
  <2>2. PICK j \in 1 .. n + 1, c \in Nat : Passed(r, j, c)
    BY <2>1, <1>7
  <2>3. PICK a, b, x, y : /\ a = BlockAt(claim, k, r) /\ b = BlockAt(claim, k, r + 1)
                          /\ x = BlockStart(claim, k, r) /\ y = BlockEnd(claim, k, r)
    OBVIOUS
  <2>4. /\ a \in Nat /\ b \in Nat /\ 1 <= a /\ a <= b /\ b <= m + 1 /\ a = x + 1 /\ b = y + 1
        /\ x \in Nat /\ y \in Nat /\ x <= y /\ y <= m
    <3>1. x \in Nat /\ y \in Nat /\ x <= y /\ y <= m
      BY <2>1, <2>3, <1>2, BlocksAre
    <3> QED BY <3>1, <2>1, <2>3, <1>5
  <2>5. c >= r /\ f[<<a, j>>] \in Nat /\ e >= f[<<a, j>>] + c /\ j - a <= c /\ a - j <= c
    BY <2>2, <2>3
  <2>6. a \in 1 .. m + 1 /\ b \in a .. Len(claim) + 1
    BY <2>4, <1>2, <1>3
  <2>7. PICK j2 \in j .. Len(u) + 1, c2 \in Nat : SplitAt(claim, u, f, a, j, b, j2, c2)
    <3>1. Splits(claim, u, f, a, j)
      BY <2>6, <1>4
    <3> QED BY <3>1, <2>6 DEF Splits
  <2>8. /\ f[<<b, j2>>] \in Nat /\ f[<<a, j>>] >= f[<<b, j2>>] + c2
        /\ (j2 - j) - (b - a) <= c2 /\ (b - a) - (j2 - j) <= c2
        /\ c2 = 0 => \A i \in a .. b - 1 : claim[i] = u[j + (i - a)]
    BY <2>7 DEF SplitAt
  <2>9. j \in Nat /\ 1 <= j /\ j <= n + 1 /\ c \in Nat /\ j2 \in Nat /\ j <= j2 /\ j2 <= n + 1 /\ c2 \in Nat
    BY <2>2, <2>7, <1>2, <1>3
  <2>10. c2 # 0
    <3> SUFFICES ASSUME c2 = 0 PROVE FALSE
      OBVIOUS
    <3>1. PICK p : p = j - 1
      OBVIOUS
    <3>2. p \in Nat /\ j2 - j = b - a /\ p + (y - x) <= n /\ p - x = j - a /\ x - p = a - j
      BY <3>1, <2>4, <2>8, <2>9, <1>3
    <3>3. c <= k
      <4>1. PICK q : q = f[<<a, j>>]
        OBVIOUS
      <4> QED BY <4>1, <2>5, <2>9, <1>3
    <3>4. p - x <= k /\ x - p <= k
      BY <3>2, <3>3, <2>4, <2>5, <2>9
    <3>5. \A i \in x + 1 .. y : claim[i] = u[p + 1 + (i - (x + 1))]
      <4> SUFFICES ASSUME NEW i \in x + 1 .. y PROVE claim[i] = u[p + 1 + (i - (x + 1))]
        OBVIOUS
      <4>1. i \in a .. b - 1 /\ p + 1 + (i - (x + 1)) = j + (i - a)
        BY <3>1, <3>2, <2>4, <2>9
      <4> QED BY <4>1, <2>8
    <3>6. Grounding!Slice(u, p, p + (y - x)) = Grounding!Slice(claim, x, y)
      <4>1. y <= Len(claim) /\ p + (y - x) <= Len(u)
        BY <3>2, <2>4, <1>2
      <4> QED BY <4>1, <3>2, <3>5, <2>4, SlicesMatch
    <3>7. Unedited(claim, u, k, r, p)
      BY <3>2, <3>4, <3>6, <2>3, <1>2 DEF Unedited
    <3> QED BY <3>2, <3>7, <2>1
  <2>11. PICK c3 : c3 = c + c2
    OBVIOUS
  <2>12. c3 \in Nat /\ c3 >= r + 1
    BY <2>5, <2>9, <2>10, <2>11
  <2>13. j2 - b <= c3 /\ b - j2 <= c3
    BY <2>4, <2>5, <2>8, <2>9, <2>11
  <2>14. e >= f[<<b, j2>>] + c3
    <3>1. PICK q1, q2 : q1 = f[<<a, j>>] /\ q2 = f[<<b, j2>>]
      OBVIOUS
    <3>2. q1 \in Nat /\ e >= q1 + c /\ q2 \in Nat /\ q1 >= q2 + c2
      BY <3>1, <2>5, <2>8
    <3>3. c \in Nat /\ c2 \in Nat /\ e \in Nat /\ c3 = c + c2
      BY <2>9, <2>11, <1>3
    <3>4. e >= q2 + c3
      BY <3>2, <3>3
    <3> QED BY <3>1, <3>4
  <2>15. Passed(r + 1, j2, c3)
    BY <2>3, <2>8, <2>12, <2>13, <2>14
  <2>16. j2 \in 1 .. n + 1
    BY <2>9
  <2> HIDE DEF Passed
  <2> QED BY <2>12, <2>15, <2>16
<1>8. k + 1 \in T
  <2>1. k + 1 \in Nat
    OBVIOUS
  <2> HIDE DEF T
  <2> QED BY <1>6, <1>7, <2>1, Steps
<1>9. ~\E j \in 1 .. n + 1 : \E c \in Nat : Passed(k + 1, j, c)
  <2> SUFFICES ASSUME NEW j \in 1 .. n + 1, NEW c \in Nat, Passed(k + 1, j, c) PROVE FALSE
    OBVIOUS
  <2>1. PICK q : q = f[<<BlockAt(claim, k, k + 1), j>>]
    OBVIOUS
  <2>2. c >= k + 1 /\ q \in Nat /\ e >= q + c
    BY <2>1
  <2> QED BY <2>2, <1>3
<1> HIDE DEF Unedits, Passed
<1>10. Unedits
  BY <1>8, <1>9
<1> QED BY <1>10 DEF Unedits

LEMMA EnoughEdits ==
  ASSUME NEW e \in Nat, NEW m \in Nat, NEW l \in Nat, NEW a \in Nat, NEW d \in Nat, a <= d,
         (l - e) * d >= a * l, l <= m + e
  PROVE  e * a <= (d - a) * m
OBVIOUS

LEMMA QuotientsBound ==
  ASSUME NEW e \in Nat, NEW a \in Nat, NEW n \in Nat, n >= 1, e * n <= a
  PROVE  e <= a \div n
OBVIOUS

(* max_edits: a window that clears the threshold has no more edits, or the one
   its floats lose.                                                          *)
LEMMA FewEdits ==
  ASSUME NEW e \in Nat, NEW m \in Nat, NEW l \in Nat, m - l <= e, l - m <= e, Grounding!Clears(e, Grounding!Longer(m, l))
  PROVE  /\ Grounding!MaxEdits(m) \in Nat
         /\ e <= Grounding!MaxEdits(m) \/ (m \in Short /\ e = Grounding!MaxEdits(m) + 1)
<1>1. Den - Num \in Nat /\ Num \in Nat /\ Num >= 1 /\ Den \in Nat /\ Num <= Den
  BY GroundingAssumption
<1>2. PICK q : q = Grounding!Longer(m, l)
  OBVIOUS
<1>3. q \in Nat /\ q <= m + e
  BY <1>2 DEF Grounding!Longer
<1>4. (q - e) * Den >= Num * q
  BY <1>2 DEF Grounding!Clears
<1>5. e * Num <= (Den - Num) * m
  BY <1>1, <1>3, <1>4, EnoughEdits
<1>6. PICK a : a = (Den - Num) * m
  OBVIOUS
<1>7. a \in Nat
  BY <1>1, <1>6
<1>8. e <= a \div Num /\ a \div Num \in Nat
  BY <1>1, <1>5, <1>6, <1>7, Quotients, QuotientsBound
<1>9. PICK k : k = a \div Num
  OBVIOUS
<1>10. Grounding!MaxEdits(m) = k - (IF m \in Short THEN 1 ELSE 0)
  BY <1>6, <1>9 DEF Grounding!MaxEdits
<1>11. m \in Short => 1 <= k
  <2> SUFFICES ASSUME m \in Short PROVE 1 <= k
    OBVIOUS
  <2>1. 1 * Num <= a
    BY <1>1, <1>6, GroundingAssumption
  <2> QED BY <2>1, <1>1, <1>7, <1>9, QuotientsBound
<1> QED BY <1>8, <1>9, <1>10, <1>11

LEMMA SameNumbers == ASSUME NEW S PROVE Grounding!Cardinality(S) = Cardinality(S)
BY DEF Grounding!Cardinality, Cardinality

LEMMA FirstOfFew ==
  ASSUME NEW P \in SUBSET Nat, IsFiniteSet(P), Cardinality(P) <= Budget
  PROVE  Grounding!First(P, Budget) = P
<1> SUFFICES ASSUME NEW p \in P PROVE Cardinality({q \in P : q < p}) < Budget
  <2>1. Grounding!First(P, Budget) = {p \in P : Grounding!Cardinality({q \in P : q < p}) < Budget}
    BY DEF Grounding!First
  <2>2. ASSUME NEW p \in P, Cardinality({q \in P : q < p}) < Budget
        PROVE  Grounding!Cardinality({q \in P : q < p}) < Budget
    <3>1. PICK R : R = {q \in P : q < p}
      OBVIOUS
    <3>2. Grounding!Cardinality(R) = Cardinality(R)
      BY SameNumbers
    <3> QED BY <2>2, <3>1, <3>2
  <2> QED BY <2>1, <2>2
<1>1. PICK R : R = {q \in P : q < p}
  OBVIOUS
<1>2. R \in SUBSET (P \ {p})
  BY <1>1
<1>3. IsFiniteSet(P \ {p}) /\ Cardinality(P \ {p}) = Cardinality(P) - 1
  BY FS_RemoveElement
<1>4. IsFiniteSet(R) /\ Cardinality(R) <= Cardinality(P \ {p})
  BY <1>2, <1>3, FS_Subset
<1>5. Cardinality(P) \in Nat /\ Cardinality(R) \in Nat
  BY <1>4, FS_CardinalityType
<1>6. Budget \in Nat
  BY GroundingAssumption
<1>7. Cardinality(R) < Budget
  BY <1>3, <1>4, <1>5, <1>6
<1> QED BY <1>1, <1>7

(* candidate_starts: where few edits turn the claim into a window it begins. *)
LEMMA StartsAreProposed ==
  ASSUME NEW S, NEW text \in Seq(S), NEW claim \in Seq(S), NEW k \in Nat, NEW start \in Nat, NEW end \in Nat,
         start < end, end <= Len(text), Grounding!Edits(claim, Grounding!Slice(text, start, end)) <= k
  PROVE  start \in Grounding!Proposed(text, claim, k)
<1>1. PICK l, u : l = Len(text) /\ u = Grounding!Slice(text, start, end)
  OBVIOUS
<1>2. l \in Nat /\ Len(claim) \in Nat
  BY <1>1
<1>3. u \in Seq(S) /\ Len(u) = end - start /\ \A j \in 1 .. end - start : u[j] = text[start + j]
  <2>1. start <= end
    OBVIOUS
  <2> QED BY <2>1, <1>1, SlicesAreTexts
<1>4. CASE k + 1 > Len(claim)
  BY <1>1, <1>2, <1>4 DEF Grounding!Proposed
<1>5. CASE ~(k + 1 > Len(claim))
  <2>1. PICK i \in 0 .. k, p \in Nat : Unedited(claim, u, k, i, p)
    BY <1>1, <1>3, OneIsUnedited
  <2>2. PICK x, y : x = BlockStart(claim, k, i) /\ y = BlockEnd(claim, k, i)
    OBVIOUS
  <2>3. x \in Nat /\ y \in Nat /\ x <= y /\ y <= Len(claim)
    BY <2>2, BlocksAre
  <2>4. PICK n, c : n = y - x /\ c = Grounding!Slice(claim, x, y)
    OBVIOUS
  <2>5. n \in Nat
    BY <2>3, <2>4
  <2>6. c \in Seq(S) /\ Len(c) = n
    BY <2>3, <2>4, SlicesAreTexts
  <2>7. p - x <= k /\ x - p <= k /\ p + n <= Len(u) /\ Grounding!Slice(u, p, p + n) = c
    BY <2>1, <2>2, <2>4 DEF Unedited
  <2>8. PICK r : r = start + p
    OBVIOUS
  <2>9. r \in Nat /\ r + n <= end /\ r + n <= l
    BY <2>5, <2>7, <2>8, <1>1, <1>3
  <2>10. Grounding!Slice(text, r, r + n) = c
    <3>1. p + n \in Nat /\ p <= p + n /\ (p + n) - p = n
      BY <2>5
    <3>2. \A j \in 1 .. n : c[j] = u[p + j]
      <4>1. PICK z : z = p + n
        OBVIOUS
      <4>2. z \in Nat /\ p <= z /\ z <= Len(u) /\ z - p = n
        BY <4>1, <3>1, <2>7
      <4>3. \A j \in 1 .. z - p : Grounding!Slice(u, p, z)[j] = u[p + j]
        BY <4>2, <1>3 DEF Grounding!Slice
      <4> QED BY <4>1, <4>2, <4>3, <2>7
    <3>3. r <= r + n /\ r + n \in Nat /\ (r + n) - r = n
      BY <2>5, <2>9
    <3>4. Grounding!Slice(text, r, r + n) \in Seq(S) /\ Len(Grounding!Slice(text, r, r + n)) = n
          /\ \A j \in 1 .. n : Grounding!Slice(text, r, r + n)[j] = text[r + j]
      <4>1. PICK z : z = r + n
        OBVIOUS
      <4>2. z \in Nat /\ r <= z /\ z <= Len(text) /\ z - r = n
        BY <4>1, <3>3, <2>9, <1>1
      <4>3. Grounding!Slice(text, r, z) \in Seq(S) /\ Len(Grounding!Slice(text, r, z)) = z - r
            /\ \A j \in 1 .. z - r : Grounding!Slice(text, r, z)[j] = text[r + j]
        BY <4>2, <2>9, SlicesAreTexts
      <4> QED BY <4>1, <4>2, <4>3
    <3>5. ASSUME NEW j \in 1 .. n PROVE c[j] = text[r + j]
      <4>1. p + j \in 1 .. end - start /\ start + (p + j) = r + j
        BY <2>5, <2>7, <2>8, <1>3
      <4> QED BY <4>1, <3>2, <1>3
    <3> QED BY <3>4, <3>5, <2>6, SeqEqual
  <2>11. r \in Grounding!Occurrences(text, c)
    <3>1. r \in 0 .. Len(text) - Len(c)
      BY <2>5, <2>6, <2>9, <1>1
    <3> QED BY <3>1, <2>6, <2>10 DEF Grounding!Occurrences
  <2>12. PICK d : d = x - p
    OBVIOUS
  <2>13. d \in -k .. k /\ start = r - x + d
    BY <2>3, <2>7, <2>8, <2>12
  <2>14. PICK b : b = <<x, c>>
    OBVIOUS
  <2>15. b \in Grounding!Blocks(claim, k) /\ b[1] = x /\ b[2] = c
    <3>1. b = <<BlockStart(claim, k, i), Grounding!Slice(claim, BlockStart(claim, k, i), BlockEnd(claim, k, i))>>
      BY <2>2, <2>4, <2>14
    <3> QED BY <3>1, <2>14 DEF Grounding!Blocks, BlockStart, BlockEnd
  <2>16. start \in {q - b[1] + e : q \in Grounding!Occurrences(text, b[2]), e \in -k .. k}
    BY <2>11, <2>13, <2>15
  <2>17. start \in {n1 \in UNION {{q - a[1] + e : q \in Grounding!Occurrences(text, a[2]), e \in -k .. k} : a \in Grounding!Blocks(claim, k)} : n1 >= 0}
    BY <2>15, <2>16
  <2> QED BY <2>17, <1>5 DEF Grounding!Proposed
<1> QED BY <1>4, <1>5

(* find_fuzzy: with a budget for every candidate, it finds what resembles, but
   for what rounding loses.                                                  *)
LEMMA NothingIsOverlooked ==
  ASSUME NEW S, NEW text \in Seq(S), NEW claim \in Seq(S), Grounding!FindFuzzy(text, claim) = {},
         Cardinality(Grounding!Proposed(text, claim, Grounding!MaxEdits(Len(claim)))) <= Budget
  PROVE  Grounding!RoundedOut(text, claim)
<1> SUFFICES ASSUME NEW start \in 0 .. Len(text), NEW end \in 0 .. Len(text), start < end,
                    Grounding!Clears(Grounding!Edits(claim, Grounding!Slice(text, start, end)), Grounding!Longer(Len(claim), end - start)),
                    ~(Len(claim) \in Short
                      /\ Grounding!Edits(claim, Grounding!Slice(text, start, end)) = Grounding!MaxEdits(Len(claim)) + 1)
             PROVE  FALSE
  BY DEF Grounding!RoundedOut
<1>1. PICK m, k, P : m = Len(claim) /\ k = Grounding!MaxEdits(m) /\ P = Grounding!Proposed(text, claim, k)
  OBVIOUS
<1>2. start < end /\ Grounding!Clears(Grounding!Edits(claim, Grounding!Slice(text, start, end)), Grounding!Longer(Len(claim), end - start))
  OBVIOUS
<1>3. start \in Nat /\ end \in Nat /\ end <= Len(text) /\ start <= end /\ m \in Nat
  BY <1>1, <1>2
<1>4. PICK u, e, l : u = Grounding!Slice(text, start, end) /\ e = Grounding!Edits(claim, u) /\ l = end - start
  OBVIOUS
<1>5. u \in Seq(S) /\ Len(u) = l
  BY <1>3, <1>4, SlicesAreTexts
<1>6. l \in Nat /\ l >= 1
  BY <1>2, <1>3, <1>4
<1>7. e \in Nat /\ m - l <= e /\ l - m <= e
  BY <1>1, <1>4, <1>5, EditsAre
<1>8. Grounding!Clears(e, Grounding!Longer(m, l))
  BY <1>1, <1>2, <1>4
<1>9. k \in Nat /\ e <= k
  <2>1. ~(m \in Short /\ e = k + 1)
    BY <1>1, <1>4
  <2> QED BY <2>1, <1>1, <1>3, <1>6, <1>7, <1>8, FewEdits
<1>10. start \in P
  BY <1>1, <1>2, <1>3, <1>4, <1>9, StartsAreProposed
<1>11. P \in SUBSET Nat /\ IsFiniteSet(P)
  BY <1>1, <1>9, ProposedAre
<1>12. Grounding!First(P, Budget) = P
  BY <1>1, <1>11, FirstOfFew
<1>13. l \in Grounding!Longer(1, m - k) .. m + k
  BY <1>3, <1>6, <1>7, <1>9 DEF Grounding!Longer
<1>14. PICK w : w = <<start, l>>
  OBVIOUS
<1>15. w \in Grounding!First(P, Budget) \X (Grounding!Longer(1, m - k) .. m + k) /\ w[1] = start /\ w[2] = l /\ w[1] + w[2] = end
  BY <1>3, <1>4, <1>10, <1>12, <1>13, <1>14
<1>16. Grounding!Window(w[1], w[1] + w[2], Grounding!Edits(claim, Grounding!Slice(text, w[1], w[1] + w[2]))) \in Grounding!FindFuzzy(text, claim)
  <2>1. Grounding!Clears(Grounding!Edits(claim, Grounding!Slice(text, w[1], w[1] + w[2])), Grounding!Longer(m, w[2])) /\ w[1] + w[2] <= Len(text)
    BY <1>3, <1>4, <1>8, <1>15
  <2> QED BY <2>1, <1>1, <1>15 DEF Grounding!FindFuzzy
<1> QED BY <1>16

-----------------------------------------------------------------------------
(* The outcome of a claim                                                    *)

LEMMA FoldsAreTyped ==
  ASSUME NEW s \in Seq(Grounding!Character)
  PROVE  Grounding!Fold(s) \in Seq(Emitted)
<1>1. PICK g : g = Grounding!Segments(s)
  OBVIOUS
<1>2. g \in Seq(ASegment)
  BY <1>1, SegmentsAreChained DEF Chain
<1>3. Grounding!Texts(g) \in Seq(Seq(Emitted))
  BY <1>2, TextsAreTyped
<1> QED BY <1>1, <1>3, FlatIsASequence DEF Grounding!Fold

(* What resolve makes of a claim.                                            *)
Resolved(claim, o) ==
  /\ o \in Grounding!Outcome
  /\ o.span # None =>
       /\ o.span \in Grounding!Range2 /\ o.span \notin Grounding!Excluded(claim)
       /\ 1 <= o.span[1] /\ o.span[1] < o.span[2] /\ o.span[2] <= Len(document) + 1
       /\ Grounding!IsWithin(Grounding!Fold(Grounding!Source(o.span)), Grounding!Slice(Grounding!Fold(document), o.window.start, o.window.end))
       /\ o.window.edits = 0 => Grounding!IsWithin(Grounding!Fold(Grounding!Source(o.span)), Grounding!Fold(claim.text))
  /\ o.span = None /\ ~o.truncated /\ claim.slot = None /\ ~Grounding!Blank(Grounding!Fold(claim.text))
       => Grounding!RoundedOut(Grounding!Fold(document), Grounding!Fold(claim.text))

LEMMA Resolves ==
  ASSUME document \in Seq(Grounding!Character), NEW claim \in Grounding!Claim
  PROVE  Resolved(claim, Grounding!Resolve(claim))
<1>1. PICK folded, view : folded = Grounding!Fold(claim.text) /\ view = Grounding!Fold(document)
  OBVIOUS
<1>2. folded \in Seq(Emitted) /\ view \in Seq(Emitted)
  <2>1. claim.text \in Seq(Grounding!Character)
    BY DEF Grounding!Claim
  <2> QED BY <2>1, <1>1, FoldsAreTyped
<1>3. PICK exact : exact = Grounding!FindExact(view, folded)
  OBVIOUS
<1>4. PICK found : found = IF exact # {} THEN exact ELSE Grounding!FindFuzzy(view, folded)
  OBVIOUS
<1>5. PICK free : free = {w \in found : Grounding!Span(document, w) \notin Grounding!Excluded(claim)}
  OBVIOUS
<1>6. PICK P : P = Grounding!Proposed(view, folded, Grounding!MaxEdits(Len(folded)))
  OBVIOUS
<1>7. PICK truncated : truncated = (exact = {} /\ Grounding!Cardinality(P) > Budget)
  OBVIOUS
<1>8. PICK o : o = Grounding!Resolve(claim)
  OBVIOUS
<1>9. Grounding!Blank(folded) => o = Grounding!Ungrounded(FALSE)
  BY <1>1, <1>8 DEF Grounding!Resolve
<1>10. ~Grounding!Blank(folded) /\ free = {} => o = Grounding!Ungrounded(truncated)
  BY <1>1, <1>3, <1>4, <1>5, <1>6, <1>7, <1>8 DEF Grounding!Resolve
<1>11. PICK w : w = CHOOSE v \in free : \A u \in free : u = v \/ Grounding!Before(v, u, Len(folded))
  OBVIOUS
<1>12. ~Grounding!Blank(folded) /\ free # {} => o = [window |-> w, span |-> Grounding!Span(document, w), truncated |-> truncated]
  BY <1>1, <1>3, <1>4, <1>5, <1>6, <1>7, <1>8, <1>11 DEF Grounding!Resolve
<1>13. truncated \in BOOLEAN
  BY <1>7
<1>14. \A b \in BOOLEAN : Grounding!Ungrounded(b) \in Grounding!Outcome /\ Grounding!Ungrounded(b).span = None /\ Grounding!Ungrounded(b).truncated = b
  BY DEF Grounding!Ungrounded, Grounding!Outcome
<1>15. CASE Grounding!Blank(folded)
  BY <1>1, <1>8, <1>9, <1>14, <1>15 DEF Resolved
<1>16. CASE ~Grounding!Blank(folded) /\ free = {}
  <2>1. o \in Grounding!Outcome /\ o.span = None /\ o.truncated = truncated
    BY <1>10, <1>13, <1>14, <1>16
  <2>2. ASSUME ~truncated, claim.slot = None PROVE Grounding!RoundedOut(view, folded)
    <3>1. Grounding!Excluded(claim) = {}
      BY <2>2 DEF Grounding!Excluded
    <3>2. found = {}
      BY <3>1, <1>5, <1>16
    <3>3. exact = {} /\ Grounding!FindFuzzy(view, folded) = {}
      BY <3>2, <1>4
    <3>4. Grounding!MaxEdits(Len(folded)) \in Int
      <4>1. Len(folded) \in Nat
        BY <1>2
      <4> QED BY <4>1, MostEdits
    <3>5. IsFiniteSet(P)
      BY <3>4, <1>2, <1>6, ProposedAre
    <3>6. Cardinality(P) \in Nat /\ Budget \in Nat
      BY <3>5, FS_CardinalityType, GroundingAssumption
    <3>7. Cardinality(P) <= Budget
      <4>1. ~(Grounding!Cardinality(P) > Budget)
        BY <3>3, <2>2, <1>7, Zenon
      <4>2. Grounding!Cardinality(P) = Cardinality(P)
        BY SameNumbers
      <4> QED BY <4>1, <4>2, <3>6
    <3> QED BY <3>3, <3>7, <2>2, <1>2, <1>6, NothingIsOverlooked
  <2> QED BY <2>1, <2>2, <1>1, <1>8 DEF Resolved
<1>17. CASE ~Grounding!Blank(folded) /\ free # {}
  <2>1. folded # <<>>
    <3> SUFFICES ASSUME folded = <<>> PROVE Grounding!Blank(folded)
      BY <1>17
    <3>1. Len(folded) = 0 /\ DOMAIN folded = 1 .. Len(folded)
      BY <1>2
    <3>2. DOMAIN folded = {}
      BY <3>1
    <3> QED BY <3>2 DEF Grounding!Blank
  <2>2. \A v \in found : IsWindow(view, folded, v)
    BY <2>1, <1>2, <1>3, <1>4, ExactWindows, FuzzyWindows
  <2>3. \A u \in found : \A v \in found : u.start = v.start /\ u.end = v.end => u = v
    <3> SUFFICES ASSUME NEW u \in found, NEW v \in found, u.start = v.start, u.end = v.end PROVE u = v
      OBVIOUS
    <3>1. u = Grounding!Window(u.start, u.end, u.edits) /\ v = Grounding!Window(v.start, v.end, v.edits)
      BY <2>2 DEF IsWindow
    <3>2. u.edits = v.edits
      <4>1. CASE exact # {}
        <5>1. u.edits = 0 /\ v.edits = 0
          BY <4>1, <2>1, <1>2, <1>3, <1>4, ExactWindows
        <5> QED BY <5>1
      <4>2. CASE exact = {}
        <5>1. u.edits = Grounding!Edits(folded, Grounding!Slice(view, u.start, u.end)) /\ v.edits = Grounding!Edits(folded, Grounding!Slice(view, v.start, v.end))
          BY <4>2, <1>2, <1>4, FuzzyWindows
        <5> QED BY <5>1
      <4> QED BY <4>1, <4>2
    <3> QED BY <3>1, <3>2
  <2>4. free \subseteq found /\ free # {}
    BY <1>5, <1>17
  <2>5. \E v \in free : \A u \in free : u = v \/ Grounding!Before(v, u, Len(folded))
    <3>1. Len(view) \in Nat /\ Len(folded) \in Nat
      BY <1>2
    <3>2. \A v \in free : IsWindow(view, folded, v)
      BY <2>2, <2>4
    <3>3. \A u \in free : \A v \in free : u.start = v.start /\ u.end = v.end => u = v
      BY <2>3, <2>4
    <3> QED BY <3>1, <3>2, <3>3, <2>4, BestExists
  <2>6. w \in free
    BY <2>5, <1>11
  <2>7. IsWindow(view, folded, w)
    BY <2>2, <2>4, <2>6
  <2>8. /\ w.start \in Nat /\ w.end \in Nat /\ w.edits \in Nat /\ w.start < w.end /\ w.end <= Len(view)
        /\ w = [start |-> w.start, end |-> w.end, edits |-> w.edits]
        /\ w.edits = 0 => Grounding!Slice(view, w.start, w.end) = folded
    BY <2>7 DEF IsWindow, Grounding!Window
  <2>9. PICK r : r = Grounding!Span(document, w)
    OBVIOUS
  <2>10. Shows(document, r, w)
    BY <2>8, <2>9, <1>1, SpansShow
  <2>11. PICK x, y : x = r[1] /\ y = r[2]
    OBVIOUS
  <2>12. /\ r = <<x, y>> /\ x \in 1 .. Len(document) /\ y \in x + 1 .. Len(document) + 1
         /\ Grounding!IsWithin(Grounding!Fold(Cut(document, x, y)), Grounding!Slice(view, w.start, w.end))
    BY <2>10, <2>11, <1>1 DEF Shows
  <2>13. x \in Nat \ {0} /\ y \in Nat \ {0} /\ 1 <= x /\ x < y /\ y <= Len(document) + 1
    <3>1. Len(document) \in Nat
      OBVIOUS
    <3> QED BY <3>1, <2>12
  <2>14. r \in Grounding!Range2
    BY <2>12, <2>13 DEF Grounding!Range2
  <2>15. Cut(document, x, y) = Grounding!Source(r)
    BY <2>11 DEF Cut, Grounding!Source
  <2>16. o = [window |-> w, span |-> r, truncated |-> truncated]
    BY <2>9, <1>12, <1>17
  <2>17. o.window = w /\ o.span = r /\ o.truncated = truncated
    BY <2>16
  <2>18. w \in [start : Nat, end : Nat, edits : Nat]
    BY <2>8
  <2>19. o \in Grounding!Outcome
    BY <2>14, <2>16, <2>18, <1>13 DEF Grounding!Outcome
  <2>20. r # None
    <3>1. r \in Nat \X Nat
      BY <2>12, <2>13
    <3> QED BY <3>1, GroundingAssumption
  <2>21. r \notin Grounding!Excluded(claim)
    BY <2>6, <2>9, <1>5
  <2>22. w.edits = 0 => Grounding!IsWithin(Grounding!Fold(Grounding!Source(r)), folded)
    BY <2>8, <2>12, <2>15
  <2> QED BY <2>11, <2>12, <2>13, <2>14, <2>15, <2>17, <2>19, <2>20, <2>21, <2>22, <1>1, <1>8 DEF Resolved
<1> QED BY <1>15, <1>16, <1>17

-----------------------------------------------------------------------------
(* Every document and every sequence of claims                               *)

\* what an entry of the group won is taken
GroundedIsTaken == \A i \in Grounding!Grounded : claims[i].slot # None => outcomes[i].span \in taken

GroundingInv ==
  /\ Grounding!TypeOK /\ Grounding!EvidenceIsGenuine /\ GroundedIsTaken

LEMMA GroundingBegins ==
  ASSUME Grounding!Init
  PROVE  GroundingInv
<1>1. document \in Seq(Grounding!Character) /\ claims \in Seq(Grounding!Claim) /\ foreign \in BOOLEAN
  BY GroundingAssumption DEF Grounding!Init
<1>2. DOMAIN outcomes = {}
  BY DEF Grounding!Init
<1>3. Grounding!Grounded = {}
  BY <1>2 DEF Grounding!Grounded
<1>4. at \in 0 .. Len(claims) /\ taken \subseteq Grounding!Range2
  <2>1. Len(claims) \in Nat
    BY <1>1
  <2> QED BY <2>1 DEF Grounding!Init
<1>5. Grounding!TypeOK
  BY <1>1, <1>2, <1>4 DEF Grounding!TypeOK
<1> QED BY <1>2, <1>3, <1>5 DEF GroundingInv, Grounding!EvidenceIsGenuine, Grounding!EvidenceShowsTheClaim,
                                Grounding!EntriesHaveTheirOwnEvidence, GroundedIsTaken, Grounding!EvidenceIsOnlyLostToRounding

LEMMA GroundsAreGenuine ==
  ASSUME GroundingInv, Grounding!Ground
  PROVE  GroundingInv'
<1> USE DEF GroundingInv, Grounding!EvidenceIsGenuine
<1>1. /\ document' = document /\ claims' = claims /\ foreign' = foreign /\ at' = at + 1
      /\ document \in Seq(Grounding!Character) /\ claims \in Seq(Grounding!Claim) /\ foreign \in BOOLEAN
  BY DEF Grounding!Ground, Grounding!TypeOK
<1>2. PICK n : n = at + 1
  OBVIOUS
<1>3. n \in 1 .. Len(claims) /\ at \in Nat /\ n \in Nat /\ n \notin 1 .. at /\ 1 .. at \subseteq 1 .. n
  <2>1. Len(claims) \in Nat
    BY <1>1
  <2>2. at \in 0 .. Len(claims) /\ at < Len(claims)
    BY DEF Grounding!TypeOK, Grounding!Ground
  <2> QED BY <2>1, <2>2, <1>2
<1>4. PICK claim : claim = claims[n]
  OBVIOUS
<1>5. claim \in Grounding!Claim
  BY <1>1, <1>3, <1>4
<1>6. PICK o : o = Grounding!Resolve(claim)
  OBVIOUS
<1>7. Resolved(claim, o)
  BY <1>1, <1>5, <1>6, Resolves
<1>8. /\ DOMAIN outcomes \subseteq 1 .. at /\ taken \subseteq Grounding!Range2
      /\ \A i \in DOMAIN outcomes : outcomes[i] \in Grounding!Outcome
  BY DEF Grounding!TypeOK
<1>9. n \notin DOMAIN outcomes
  BY <1>3, <1>8
<1>10. CASE ~claim.present
  <2>1. taken' = taken /\ outcomes' = outcomes
    BY <1>2, <1>4, <1>10 DEF Grounding!Ground
  <2>2. at' \in 0 .. Len(claims) /\ DOMAIN outcomes \subseteq 1 .. at'
    BY <1>1, <1>2, <1>3, <1>8
  <2>3. Grounding!TypeOK'
    BY <2>1, <2>2, <1>1, <1>8 DEF Grounding!TypeOK
  <2>4. Grounding!Grounded' = Grounding!Grounded
    BY <2>1 DEF Grounding!Grounded
  <2> QED BY <2>1, <2>3, <2>4, <1>1 DEF Grounding!EvidenceShowsTheClaim, Grounding!EntriesHaveTheirOwnEvidence, GroundedIsTaken,
                                       Grounding!EvidenceIsOnlyLostToRounding, Grounding!Lost, Grounding!Source, Grounding!ClaimAt
<1>11. CASE claim.present
  <2>1. /\ outcomes' = [i \in DOMAIN outcomes \union {n} |-> IF i = n THEN o ELSE outcomes[i]]
        /\ taken' = IF claim.slot # None /\ o.span # None THEN taken \union {o.span} ELSE taken
    BY <1>2, <1>4, <1>6, <1>11 DEF Grounding!Ground
  <2>2. /\ DOMAIN outcomes' = DOMAIN outcomes \union {n} /\ outcomes'[n] = o
        /\ \A i \in DOMAIN outcomes : outcomes'[i] = outcomes[i]
    BY <2>1, <1>9
  <2>3. Grounding!Grounded' = Grounding!Grounded \union (IF o.span # None THEN {n} ELSE {})
    BY <2>2, <1>9 DEF Grounding!Grounded
  <2>4. /\ taken \subseteq taken' /\ taken' \subseteq Grounding!Range2
        /\ claim.slot # None /\ o.span # None => o.span \in taken'
    BY <2>1, <1>7, <1>8 DEF Resolved
  <2>5. Grounding!TypeOK'
    <3>1. at' \in 0 .. Len(claims) /\ DOMAIN outcomes' \subseteq 1 .. at'
      BY <2>2, <1>1, <1>2, <1>3, <1>8
    <3>2. \A i \in DOMAIN outcomes' : outcomes'[i] \in Grounding!Outcome
      BY <2>2, <1>7, <1>8 DEF Resolved
    <3> QED BY <3>1, <3>2, <2>4, <1>1 DEF Grounding!TypeOK
  <2>6. Grounding!EvidenceShowsTheClaim'
    <3>1. ASSUME NEW i \in Grounding!Grounded'
          PROVE  LET q == outcomes'[i] IN
                 /\ 1 <= q.span[1] /\ q.span[1] < q.span[2] /\ q.span[2] <= Len(document) + 1
                 /\ Grounding!IsWithin(Grounding!Fold(Grounding!Source(q.span)), Grounding!Slice(Grounding!Fold(document), q.window.start, q.window.end))
                 /\ q.window.edits = 0 => Grounding!IsWithin(Grounding!Fold(Grounding!Source(q.span)), Grounding!Fold(claims[i].text))
      <4>1. CASE i = n
        BY <4>1, <3>1, <2>2, <2>3, <1>3, <1>4, <1>7, <1>8, <1>9 DEF Resolved, Grounding!Grounded
      <4>2. CASE i # n
        <5>1. i \in Grounding!Grounded /\ outcomes'[i] = outcomes[i]
          BY <4>2, <3>1, <2>2, <2>3 DEF Grounding!Grounded
        <5> QED BY <5>1 DEF Grounding!EvidenceShowsTheClaim, Grounding!ClaimAt
      <4> QED BY <4>1, <4>2
    <3> QED BY <3>1, <1>1 DEF Grounding!EvidenceShowsTheClaim, Grounding!Source, Grounding!ClaimAt
  <2>7. Grounding!EntriesHaveTheirOwnEvidence' /\ GroundedIsTaken'
    <3>1. ASSUME NEW i \in Grounding!Grounded, o.span # None, claim.slot # None, claims[i].slot # None
          PROVE  outcomes[i].span # o.span
      <4>1. outcomes[i].span \in taken
        BY <3>1 DEF GroundedIsTaken
      <4>2. o.span \notin taken
        BY <3>1, <1>7 DEF Resolved, Grounding!Excluded
      <4> QED BY <4>1, <4>2
    <3>2. \A i \in Grounding!Grounded : outcomes'[i] = outcomes[i] /\ i # n
      BY <2>2, <1>9 DEF Grounding!Grounded
    <3>3. Grounding!EntriesHaveTheirOwnEvidence'
      <4> SUFFICES ASSUME NEW i \in Grounding!Grounded', NEW j \in Grounding!Grounded', i # j, claims[i].slot # None, claims[j].slot # None
                   PROVE  outcomes'[i].span # outcomes'[j].span
        BY <1>1 DEF Grounding!EntriesHaveTheirOwnEvidence
      <4>1. CASE i = n
        BY <4>1, <3>1, <3>2, <2>2, <2>3, <1>4
      <4>2. CASE j = n
        BY <4>2, <3>1, <3>2, <2>2, <2>3, <1>4
      <4>3. CASE i # n /\ j # n
        BY <4>3, <3>2, <2>3 DEF Grounding!EntriesHaveTheirOwnEvidence
      <4> QED BY <4>1, <4>2, <4>3
    <3>4. GroundedIsTaken'
      <4> SUFFICES ASSUME NEW i \in Grounding!Grounded', claims[i].slot # None PROVE outcomes'[i].span \in taken'
        BY <1>1 DEF GroundedIsTaken
      <4>1. CASE i = n
        BY <4>1, <3>2, <2>2, <2>3, <2>4, <1>4
      <4>2. CASE i # n
        BY <4>2, <3>2, <2>3, <2>4 DEF GroundedIsTaken
      <4> QED BY <4>1, <4>2
    <3> QED BY <3>3, <3>4
  <2>8. Grounding!EvidenceIsOnlyLostToRounding'
    <3>1. ASSUME NEW i \in DOMAIN outcomes', outcomes'[i].span = None, ~outcomes'[i].truncated,
                 claims[i].slot = None, ~Grounding!Blank(Grounding!Fold(claims[i].text))
          PROVE  Grounding!RoundedOut(Grounding!Fold(document), Grounding!Fold(claims[i].text))
      <4>1. CASE i = n
        BY <4>1, <3>1, <2>2, <1>4, <1>7 DEF Resolved
      <4>2. CASE i # n
        <5>1. i \in DOMAIN outcomes /\ outcomes'[i] = outcomes[i]
          BY <4>2, <3>1, <2>2
        <5> QED BY <5>1, <3>1 DEF Grounding!EvidenceIsOnlyLostToRounding, Grounding!Lost, Grounding!ClaimAt
      <4> QED BY <4>1, <4>2
    <3> QED BY <3>1, <1>1 DEF Grounding!EvidenceIsOnlyLostToRounding, Grounding!Lost, Grounding!ClaimAt
  <2> QED BY <2>5, <2>6, <2>7, <2>8
<1> QED BY <1>10, <1>11, <1>5 DEF Grounding!Claim

LEMMA GroundingRests ==
  ASSUME GroundingInv, UNCHANGED <<document, claims, foreign, at, taken, outcomes>>
  PROVE  GroundingInv'
<1> QED BY DEF GroundingInv, Grounding!TypeOK, Grounding!EvidenceIsGenuine, Grounding!EvidenceShowsTheClaim,
               Grounding!EntriesHaveTheirOwnEvidence, GroundedIsTaken, Grounding!EvidenceIsOnlyLostToRounding, Grounding!Lost,
               Grounding!Grounded, Grounding!Source, Grounding!ClaimAt


LEMMA GroundingStep ==
  ASSUME GroundingInv, [Grounding!Next]_(Grounding!groundingVars)
  PROVE  GroundingInv'
BY GroundsAreGenuine, GroundingRests DEF Grounding!Next, Grounding!Rest, Grounding!groundingVars

HIDE DEF document, claims, foreign, at, taken, outcomes
=============================================================================
