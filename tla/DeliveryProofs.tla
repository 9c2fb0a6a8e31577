---------------------------- MODULE DeliveryProofs ----------------------------
(***************************************************************************)
(* VerdictsAreEarned for every number of deliveries and workers and every  *)
(* batch size. Workers overwrite each other's counts, so the count in the  *)
(* row, and each stale count a worker holds, are compared with the         *)
(* attempts that really happened: each plus what is still to be recorded   *)
(* of that delivery never exceeds them.                                    *)
(* With one worker what it read is what the row says: no attempt is lost   *)
(* but to an interruption, and a verdict stays.                            *)
(***************************************************************************)
EXTENDS Delivery, FiniteSetTheorems, SequenceTheorems, TLAPS

USE SizeAssumption, FiniteAssumption, AnswerAssumption

CountsAreCovered ==
  \A d \in Delivery : attempts[d] + Cardinality(Recording(d)) <= tries[d]

SnapshotsAreCovered ==
  \A w \in Worker : \A i \in 1 .. Len(batch[w]) :
    LET s == batch[w][i]
    IN  s.attempts + Cardinality(Recording(s.delivery)) <= tries[s.delivery]

SuccessWasAcked ==
  \A w \in Worker :
    pc[w] = "record" /\ answer[w] = "ok" => InHand(w).delivery \in acked

IInv ==
  /\ TypeOK
  /\ CountsAreCovered
  /\ SnapshotsAreCovered
  /\ SuccessWasAcked
  /\ VerdictsAreEarned

-----------------------------------------------------------------------------
(* The index of due rows                                                   *)

LEMMA ConcatAt ==
  ASSUME NEW D, NEW p \in Seq(D), NEW q \in Seq(D)
  PROVE  /\ p \o q \in Seq(D)
         /\ Len(p \o q) = Len(p) + Len(q)
         /\ \A i \in 1 .. Len(p) : (p \o q)[i] = p[i]
         /\ \A i \in 1 .. Len(q) : (p \o q)[Len(p) + i] = q[i]
OBVIOUS

LEMMA WithoutRemoves ==
  ASSUME NEW D, NEW s \in Seq(D), NEW d,
         \A i, j \in DOMAIN s : s[i] = s[j] => i = j
  PROVE  /\ Without(s, d) \in Seq(D)
         /\ \A i \in DOMAIN Without(s, d) :
              /\ Without(s, d)[i] # d
              /\ \E j \in DOMAIN s : Without(s, d)[i] = s[j]
         /\ \A i, j \in DOMAIN Without(s, d) :
              Without(s, d)[i] = Without(s, d)[j] => i = j
<1>1. CASE ~\E i \in DOMAIN s : s[i] = d
  BY <1>1 DEF Without
<1>2. CASE \E i \in DOMAIN s : s[i] = d
  <2> DEFINE k == CHOOSE j \in DOMAIN s : s[j] = d
             a == SubSeq(s, 1, k - 1)
             b == SubSeq(s, k + 1, Len(s))
  <2>1. k \in 1 .. Len(s) /\ s[k] = d
    BY <1>2
  <2>2. a \in Seq(D) /\ Len(a) = k - 1 /\ \A i \in 1 .. k - 1 : a[i] = s[i]
    BY <2>1
  <2>3. b \in Seq(D) /\ Len(b) = Len(s) - k /\ \A i \in 1 .. Len(s) - k : b[i] = s[k + i]
    BY <2>1
  <2>4. Without(s, d) = a \o b
    BY <1>2 DEF Without
  <2> HIDE DEF k, a, b
  <2>5. /\ Without(s, d) \in Seq(D)
        /\ Len(Without(s, d)) = Len(s) - 1
        /\ \A i \in 1 .. Len(s) - 1 :
             Without(s, d)[i] = IF i < k THEN s[i] ELSE s[i + 1]
    <3> DEFINE r == a \o b
    <3>1. /\ r \in Seq(D) /\ Len(r) = Len(a) + Len(b)
          /\ \A i \in 1 .. Len(a) : r[i] = a[i]
          /\ \A i \in 1 .. Len(b) : r[Len(a) + i] = b[i]
      <4>1. a \in Seq(D) /\ b \in Seq(D)
        BY <2>2, <2>3
      <4>q. QED
        BY <4>1, ConcatAt
    <3> HIDE DEF r
    <3>2. Len(a) + Len(b) = Len(s) - 1
      BY <2>1, <2>2, <2>3
    <3>3. ASSUME NEW i \in 1 .. Len(s) - 1
          PROVE  r[i] = IF i < k THEN s[i] ELSE s[i + 1]
      <4>1. CASE i < k
        BY <2>1, <2>2, <3>1, <4>1
      <4>2. CASE ~(i < k)
        <5>1. PICK m \in 1 .. Len(s) - k : i = k - 1 + m
          BY <2>1, <4>2
        <5>2. r[i] = b[m]
          BY <2>1, <2>2, <2>3, <3>1, <5>1
        <5>3. b[m] = s[k + m] /\ k + m = i + 1
          BY <2>1, <2>3, <5>1
        <5>q. QED
          BY <4>2, <5>2, <5>3
      <4>q. QED
        BY <4>1, <4>2
    <3>q. QED
      BY <2>4, <3>1, <3>2, <3>3 DEF r
  <2>6. DOMAIN Without(s, d) = 1 .. Len(s) - 1 /\ DOMAIN s = 1 .. Len(s)
    BY <2>1, <2>5
  <2>7. ASSUME NEW i \in 1 .. Len(s) - 1
        PROVE  Without(s, d)[i] # d /\ \E j \in DOMAIN s : Without(s, d)[i] = s[j]
    <3>1. i \in DOMAIN s /\ i + 1 \in DOMAIN s
      BY <2>1, <2>6
    <3>q. QED
      BY <2>1, <2>5, <2>6, <3>1
  <2>8. ASSUME NEW i \in 1 .. Len(s) - 1, NEW j \in 1 .. Len(s) - 1,
               Without(s, d)[i] = Without(s, d)[j]
        PROVE  i = j
    <3>1. i \in DOMAIN s /\ i + 1 \in DOMAIN s /\ j \in DOMAIN s /\ j + 1 \in DOMAIN s
      BY <2>1, <2>6
    <3>2. (IF i < k THEN i ELSE i + 1) = (IF j < k THEN j ELSE j + 1)
      BY <2>1, <2>5, <2>8, <3>1
    <3>q. QED
      BY <2>1, <3>2
  <2>q. QED
    BY <2>5, <2>6, <2>7, <2>8
<1>q. QED
  BY <1>1, <1>2

LEMMA JoiningKeepsOrder ==
  ASSUME NEW d \in Delivery, line \in Seq(Delivery), JoinsLine(d),
         \A i \in DOMAIN line : line[i] # d,
         \A i, j \in DOMAIN line : line[i] = line[j] => i = j
  PROVE  /\ line' \in Seq(Delivery)
         /\ \A i \in DOMAIN line' :
              line'[i] = d \/ \E j \in DOMAIN line : line'[i] = line[j]
         /\ \A i, j \in DOMAIN line' : line'[i] = line'[j] => i = j
<1>1. PICK k \in 0 .. Len(line) :
        line' = SubSeq(line, 1, k) \o <<d>> \o SubSeq(line, k + 1, Len(line))
  BY DEF JoinsLine
<1> DEFINE a == SubSeq(line, 1, k)
           b == SubSeq(line, k + 1, Len(line))
<1>2. a \in Seq(Delivery) /\ Len(a) = k /\ \A i \in 1 .. k : a[i] = line[i]
  OBVIOUS
<1>3. /\ b \in Seq(Delivery) /\ Len(b) = Len(line) - k
      /\ \A i \in 1 .. Len(line) - k : b[i] = line[k + i]
  OBVIOUS
<1>4. line' = a \o <<d>> \o b
  BY <1>1
<1> HIDE DEF a, b
<1>5. /\ line' \in Seq(Delivery)
      /\ Len(line') = Len(line) + 1
      /\ \A i \in 1 .. Len(line) + 1 :
           line'[i] = IF i <= k THEN line[i] ELSE IF i = k + 1 THEN d ELSE line[i - 1]
  <2> DEFINE c == a \o <<d>>
  <2>1. /\ c \in Seq(Delivery)
        /\ Len(c) = k + 1
        /\ \A i \in 1 .. k + 1 : c[i] = IF i <= k THEN a[i] ELSE d
    BY <1>2
  <2> HIDE DEF c
  <2> DEFINE r == c \o b
  <2>2. /\ r \in Seq(Delivery) /\ Len(r) = Len(c) + Len(b)
        /\ \A i \in 1 .. Len(c) : r[i] = c[i]
        /\ \A i \in 1 .. Len(b) : r[Len(c) + i] = b[i]
    <3>1. c \in Seq(Delivery) /\ b \in Seq(Delivery)
      BY <1>3, <2>1
    <3>q. QED
      BY <3>1, ConcatAt
  <2>3. line' = r
    BY <1>4 DEF c
  <2> HIDE DEF r
  <2>4. ASSUME NEW i \in 1 .. Len(line) + 1
        PROVE  r[i] = IF i <= k THEN line[i] ELSE IF i = k + 1 THEN d ELSE line[i - 1]
    <3>1. CASE i <= k + 1
      BY <1>2, <2>1, <2>2, <3>1
    <3>2. CASE i > k + 1
      <4>1. PICK m \in 1 .. Len(line) - k : i = k + 1 + m
        BY <3>2
      <4>2. r[i] = b[m]
        BY <1>3, <2>1, <2>2, <4>1
      <4>3. b[m] = line[k + m] /\ k + m = i - 1
        BY <1>3, <4>1
      <4>q. QED
        BY <3>2, <4>2, <4>3
    <3>q. QED
      BY <3>1, <3>2
  <2>q. QED
    BY <1>3, <2>1, <2>2, <2>3, <2>4
<1>6. DOMAIN line' = 1 .. Len(line) + 1 /\ DOMAIN line = 1 .. Len(line)
  BY <1>5
<1>7. ASSUME NEW i \in 1 .. Len(line) + 1
      PROVE  line'[i] = d \/ \E j \in DOMAIN line : line'[i] = line[j]
  <2>1. CASE i = k + 1
    BY <1>5, <2>1
  <2>2. CASE i # k + 1
    <3>1. (i <= k => i \in DOMAIN line) /\ (i > k => i - 1 \in DOMAIN line)
      BY <1>6, <2>2
    <3>q. QED
      BY <1>5, <2>2, <3>1
  <2>q. QED
    BY <2>1, <2>2
<1>8. ASSUME NEW i \in 1 .. Len(line) + 1, NEW j \in 1 .. Len(line) + 1, line'[i] = line'[j]
      PROVE  i = j
  <2>1. \A m \in 1 .. Len(line) + 1 :
          (m <= k => m \in DOMAIN line) /\ (m > k + 1 => m - 1 \in DOMAIN line)
    BY <1>6
  <2>2. CASE i = k + 1 \/ j = k + 1
    BY <1>5, <1>8, <2>1, <2>2
  <2>3. CASE i # k + 1 /\ j # k + 1
    <3> DEFINE at(m) == IF m <= k THEN m ELSE m - 1
    <3>1. /\ at(i) \in DOMAIN line /\ line'[i] = line[at(i)]
          /\ at(j) \in DOMAIN line /\ line'[j] = line[at(j)]
      BY <1>5, <2>1, <2>3
    <3>2. at(i) = at(j)
      <4> HIDE DEF at
      <4>q. QED
        BY <1>8, <3>1
    <3>q. QED
      BY <2>3, <3>2
  <2>q. QED
    BY <2>2, <2>3
<1>q. QED
  BY <1>5, <1>6, <1>7, <1>8

-----------------------------------------------------------------------------
(* Counting what is to be recorded                                         *)

LEMMA RecordingFinite ==
  ASSUME NEW d
  PROVE  IsFiniteSet(Recording(d)) /\ Cardinality(Recording(d)) \in Nat
BY FS_Subset, FS_CardinalityType DEF Recording

(* A step of one worker adds it to the workers that have to record a
   delivery, removes it from them, or neither.                             *)
LEMMA RecordingMoves ==
  ASSUME NEW w \in Worker, NEW d,
         \A v \in Worker \ {w} :
           pc'[v] = pc[v] /\ answer'[v] = answer[v] /\ batch'[v] = batch[v]
  PROVE  /\ Cardinality(Recording(d)') \in Nat
         /\ Cardinality(Recording(d)) \in Nat
         /\ Cardinality(Recording(d)') + (IF w \in Recording(d) THEN 1 ELSE 0)
              = Cardinality(Recording(d)) + (IF w \in Recording(d)' THEN 1 ELSE 0)
<1> DEFINE A == Recording(d)
           B == Recording(d)'
<1>1. IsFiniteSet(A) /\ IsFiniteSet(B) /\ Cardinality(A) \in Nat /\ Cardinality(B) \in Nat
  BY FS_Subset, FS_CardinalityType DEF Recording
<1>2. A \ {w} = B \ {w}
  BY DEF Recording, InHand
<1>3. Cardinality(A \ {w}) = IF w \in A THEN Cardinality(A) - 1 ELSE Cardinality(A)
  BY <1>1, FS_RemoveElement
<1>4. Cardinality(B \ {w}) = IF w \in B THEN Cardinality(B) - 1 ELSE Cardinality(B)
  BY <1>1, FS_RemoveElement
<1> HIDE DEF A, B
<1>5. Cardinality(B) + (IF w \in A THEN 1 ELSE 0) = Cardinality(A) + (IF w \in B THEN 1 ELSE 0)
  <2>1. Cardinality(A \ {w}) = Cardinality(B \ {w})
    BY <1>2
  <2>2. CASE w \in A /\ w \in B
    BY <1>1, <1>3, <1>4, <2>1, <2>2
  <2>3. CASE w \in A /\ w \notin B
    BY <1>1, <1>3, <1>4, <2>1, <2>3
  <2>4. CASE w \notin A /\ w \in B
    BY <1>1, <1>3, <1>4, <2>1, <2>4
  <2>5. CASE w \notin A /\ w \notin B
    BY <1>1, <1>3, <1>4, <2>1, <2>5
  <2>q. QED
    BY <2>2, <2>3, <2>4, <2>5
<1>q. QED
  BY <1>1, <1>5 DEF A, B

-----------------------------------------------------------------------------
(* One step of one worker                                                  *)

OthersStay(w) ==
  \A v \in Worker \ {w} :
    pc'[v] = pc[v] /\ answer'[v] = answer[v] /\ batch'[v] = batch[v]

\* an attempt that comes to an answer is counted as it does
AnswerIsCounted(w) ==
  \A d \in Delivery :
    /\ tries'[d] >= tries[d]
    /\ w \in Recording(d)' /\ w \notin Recording(d) => tries'[d] = tries[d] + 1

\* a row's count grows by one at most, from what it is or was for w, and only
\* when w has its answer recorded
RecordIsCovered(w) ==
  \A d \in Delivery :
    \/ attempts'[d] = attempts[d]
    \/ /\ w \in Recording(d) /\ w \notin Recording(d)'
       /\ \/ attempts'[d] = attempts[d] + 1
          \/ \E i \in 1 .. Len(batch[w]) :
               /\ batch[w][i].delivery = d
               /\ attempts'[d] = batch[w][i].attempts + 1

BatchIsRead(w) ==
  \A i \in 1 .. Len(batch'[w]) :
    \/ \E j \in 1 .. Len(batch[w]) : batch'[w][i] = batch[w][j]
    \/ batch'[w][i].attempts = attempts[batch'[w][i].delivery]

LEMMA CoverageKept ==
  ASSUME IInv, TypeOK', NEW w \in Worker,
         OthersStay(w), AnswerIsCounted(w), RecordIsCovered(w), BatchIsRead(w)
  PROVE  CountsAreCovered' /\ SnapshotsAreCovered'
<1> DEFINE c(d) == Cardinality(Recording(d))
           e(d) == Cardinality({v \in Worker : /\ pc'[v] = "record" /\ answer'[v] # "garbled"
                                               /\ Head(batch'[v]).delivery = d})
<1>1. ASSUME NEW d \in Delivery
      PROVE  /\ c(d) \in Nat /\ e(d) \in Nat /\ tries[d] \in Nat /\ tries'[d] \in Nat
             /\ e(d) + tries[d] <= c(d) + tries'[d]
             /\ w \in Recording(d) /\ w \notin Recording(d)' => e(d) + 1 + tries[d] <= c(d) + tries'[d]
  <2>1. /\ c(d) \in Nat /\ e(d) \in Nat
        /\ e(d) + (IF w \in Recording(d) THEN 1 ELSE 0)
             = c(d) + (IF w \in Recording(d)' THEN 1 ELSE 0)
    <3>1. e(d) = Cardinality(Recording(d)')
      BY DEF Recording, InHand
    <3> HIDE DEF e
    <3>q. QED
      BY <3>1, RecordingMoves DEF OthersStay
  <2>2. /\ tries[d] \in Nat /\ tries'[d] \in Nat /\ tries'[d] >= tries[d]
        /\ w \in Recording(d)' /\ w \notin Recording(d) => tries'[d] = tries[d] + 1
    BY DEF IInv, TypeOK, AnswerIsCounted
  <2> HIDE DEF c, e
  <2>3. CASE w \in Recording(d) /\ w \in Recording(d)'
    BY <2>1, <2>2, <2>3
  <2>4. CASE w \in Recording(d) /\ w \notin Recording(d)'
    BY <2>1, <2>2, <2>4
  <2>5. CASE w \notin Recording(d) /\ w \in Recording(d)'
    BY <2>1, <2>2, <2>5
  <2>6. CASE w \notin Recording(d) /\ w \notin Recording(d)'
    BY <2>1, <2>2, <2>6
  <2>q. QED
    BY <2>3, <2>4, <2>5, <2>6
<1>2. ASSUME NEW d \in Delivery
      PROVE  attempts[d] \in Nat /\ attempts[d] + c(d) <= tries[d]
  BY DEF IInv, TypeOK, CountsAreCovered
<1>3. ASSUME NEW v \in Worker, NEW i \in 1 .. Len(batch[v])
      PROVE  /\ batch[v][i].delivery \in Delivery /\ batch[v][i].attempts \in Nat
             /\ batch[v][i].attempts + c(batch[v][i].delivery) <= tries[batch[v][i].delivery]
  <2>1. batch[v] \in Seq(Snapshot)
    BY DEF IInv, TypeOK
  <2>2. batch[v][i] \in Snapshot
    BY <2>1
  <2>q. QED
    BY <2>2 DEF IInv, SnapshotsAreCovered, Snapshot
<1> HIDE DEF c, e
<1>4. ASSUME NEW d \in Delivery
      PROVE  attempts'[d] + e(d) <= tries'[d]
  <2>1. CASE attempts'[d] = attempts[d]
    BY <1>1, <1>2, <2>1
  <2>2. CASE /\ w \in Recording(d) /\ w \notin Recording(d)'
             /\ attempts'[d] = attempts[d] + 1
    BY <1>1, <1>2, <2>2
  <2>3. CASE /\ w \in Recording(d) /\ w \notin Recording(d)'
             /\ \E i \in 1 .. Len(batch[w]) :
                  batch[w][i].delivery = d /\ attempts'[d] = batch[w][i].attempts + 1
    <3>1. PICK i \in 1 .. Len(batch[w]) :
            batch[w][i].delivery = d /\ attempts'[d] = batch[w][i].attempts + 1
      BY <2>3
    <3>2. batch[w][i].attempts \in Nat /\ batch[w][i].attempts + c(d) <= tries[d]
      BY <1>3, <3>1
    <3>3. /\ c(d) \in Nat /\ e(d) \in Nat /\ tries[d] \in Nat /\ tries'[d] \in Nat
          /\ e(d) + 1 + tries[d] <= c(d) + tries'[d]
      BY <1>1, <2>3
    <3>4. \A n \in Nat : n + c(d) <= tries[d] => n + 1 + e(d) <= tries'[d]
      BY <3>3
    <3>q. QED
      BY <3>1, <3>2, <3>4
  <2>q. QED
    BY <2>1, <2>2, <2>3 DEF RecordIsCovered
<1>5. ASSUME NEW v \in Worker, NEW i \in 1 .. Len(batch'[v])
      PROVE  batch'[v][i].attempts + e(batch'[v][i].delivery) <= tries'[batch'[v][i].delivery]
  <2>1. CASE \E u \in Worker : \E j \in 1 .. Len(batch[u]) : batch'[v][i] = batch[u][j]
    <3>0. PICK u \in Worker : \E j \in 1 .. Len(batch[u]) : batch'[v][i] = batch[u][j]
      BY <2>1
    <3>1. PICK j \in 1 .. Len(batch[u]) : batch'[v][i] = batch[u][j]
      BY <3>0
    <3> DEFINE d == batch[u][j].delivery
               n == batch[u][j].attempts
    <3>2. d \in Delivery /\ n \in Nat /\ n + c(d) <= tries[d]
      BY <1>3
    <3>3. batch'[v][i].delivery = d /\ batch'[v][i].attempts = n
      BY <3>1
    <3> HIDE DEF d, n
    <3>4. n + e(d) <= tries'[d]
      BY <1>1, <3>2
    <3>q. QED
      BY <3>3, <3>4
  <2>2. CASE v = w /\ batch'[w][i].attempts = attempts[batch'[w][i].delivery]
    <3>1. batch'[v] \in Seq(Snapshot)
      BY DEF TypeOK
    <3>2. batch'[v][i] \in Snapshot
      BY <3>1
    <3>3. batch'[v][i].delivery \in Delivery
      BY <3>2 DEF Snapshot
    <3> DEFINE d == batch'[w][i].delivery
    <3>4. attempts[d] + e(d) <= tries'[d]
      <4>1. d \in Delivery
        BY <2>2, <3>3
      <4> HIDE DEF d
      <4>q. QED
        BY <1>1, <1>2, <4>1
    <3>q. QED
      BY <2>2, <3>4
  <2>q. QED
    BY <2>1, <2>2 DEF OthersStay, BatchIsRead
<1>6. CountsAreCovered'
  BY <1>4 DEF CountsAreCovered, Recording, InHand, e
<1>7. SnapshotsAreCovered'
  BY <1>5 DEF SnapshotsAreCovered, Recording, InHand, e
<1>q. QED
  BY <1>6, <1>7

LEMMA InHandType ==
  ASSUME IInv, NEW w \in Worker, pc[w] # "idle"
  PROVE  /\ batch[w] \in Seq(Snapshot) /\ batch[w] # << >>
         /\ 1 \in 1 .. Len(batch[w]) /\ InHand(w) = batch[w][1]
         /\ InHand(w).delivery \in Delivery /\ InHand(w).attempts \in Nat
<1>1. batch[w] \in Seq(Snapshot) /\ batch[w] # << >>
  BY DEF IInv, TypeOK
<1>2. Len(batch[w]) \in Nat \ {0} /\ Head(batch[w]) = batch[w][1] /\ batch[w][1] \in Snapshot
  BY <1>1
<1>q. QED
  BY <1>1, <1>2 DEF InHand, Snapshot

LEMMA NextRowType ==
  ASSUME IInv, NEW w \in Worker, pc[w] # "idle"
  PROVE  /\ NextRow(w) \in Seq(Snapshot)
         /\ \A i \in 1 .. Len(NextRow(w)) :
              i + 1 \in 1 .. Len(batch[w]) /\ NextRow(w)[i] = batch[w][i + 1]
BY InHandType DEF NextRow

(* The two ways a tick moves on: the next row, or no row at all.           *)
LEMMA TickMoves ==
  ASSUME IInv, NEW w \in Worker, pc[w] # "idle", Advance(w) \/ Abort(w)
  PROVE  /\ pc' \in [Worker -> WorkerPc] /\ batch' \in [Worker -> Seq(Snapshot)]
         /\ answer' \in [Worker -> Answer \union {"unsent"}]
         /\ \A v \in Worker : pc'[v] = "idle" <=> batch'[v] = << >>
         /\ OthersStay(w) /\ BatchIsRead(w)
         /\ pc'[w] # "record" /\ \A d : w \notin Recording(d)'
<1>1. /\ pc \in [Worker -> WorkerPc] /\ batch \in [Worker -> Seq(Snapshot)]
      /\ answer \in [Worker -> Answer \union {"unsent"}]
      /\ \A v \in Worker : pc[v] = "idle" <=> batch[v] = << >>
  BY DEF IInv, TypeOK
<1>2. CASE Advance(w)
  <2>1. /\ batch' = [batch EXCEPT ![w] = NextRow(w)]
        /\ pc' = [pc EXCEPT ![w] = IF NextRow(w) = << >> THEN "idle" ELSE "batch"]
        /\ answer' = [answer EXCEPT ![w] = "unsent"]
    BY <1>2 DEF Advance
  <2>2. BatchIsRead(w)
    BY <1>1, <2>1, NextRowType DEF BatchIsRead
  <2>q. QED
    BY <1>1, <2>1, <2>2, NextRowType DEF OthersStay, WorkerPc, Recording
<1>3. CASE Abort(w)
  <2>1. /\ batch' = [batch EXCEPT ![w] = << >>]
        /\ pc' = [pc EXCEPT ![w] = "idle"]
        /\ answer' = [answer EXCEPT ![w] = "unsent"]
    BY <1>3 DEF Abort
  <2>2. Len(batch'[w]) = 0
    BY <1>1, <2>1
  <2>q. QED
    BY <1>1, <2>1, <2>2 DEF OthersStay, WorkerPc, Recording, BatchIsRead
<1>q. QED
  BY <1>2, <1>3

-----------------------------------------------------------------------------
(* The steps of a tick                                                     *)

LEMMA FunctionIsSeq ==
  ASSUME NEW S, NEW n \in Nat, NEW f \in [1 .. n -> S]
  PROVE  f \in Seq(S) /\ Len(f) = n
OBVIOUS

LEMMA DueStep ==
  ASSUME IInv, NEW w \in Worker, Due(w)
  PROVE  IInv'
<1>1. PICK n \in 1 .. Batch :
        /\ n <= Len(line)
        /\ batch' = [batch EXCEPT ![w] =
             [i \in 1 .. n |-> [delivery |-> line[i], attempts |-> attempts[line[i]]]]]
  BY DEF Due
<1>2. /\ line \in Seq(Delivery) /\ attempts \in [Delivery -> Nat]
      /\ pc[w] = "idle" /\ pc' = [pc EXCEPT ![w] = "batch"]
      /\ UNCHANGED <<rows, withdrawn, answer, history, interrupts>>
  BY DEF IInv, TypeOK, Due
<1>3. \A i \in 1 .. n : [delivery |-> line[i], attempts |-> attempts[line[i]]] \in Snapshot
  BY <1>1, <1>2 DEF Snapshot
<1>4. /\ batch'[w] = [i \in 1 .. n |-> [delivery |-> line[i], attempts |-> attempts[line[i]]]]
      /\ batch'[w] \in Seq(Snapshot) /\ Len(batch'[w]) = n /\ batch'[w] # << >>
  <2>1. /\ batch \in [Worker -> Seq(Snapshot)]
        /\ batch'[w] = [i \in 1 .. n |-> [delivery |-> line[i], attempts |-> attempts[line[i]]]]
    BY <1>1 DEF IInv, TypeOK
  <2>2. batch'[w] \in [1 .. n -> Snapshot]
    BY <1>3, <2>1
  <2>3. batch'[w] \in Seq(Snapshot) /\ Len(batch'[w]) = n
    BY <2>2, FunctionIsSeq
  <2>4. batch'[w] # << >>
    <3>1. Len(<< >>) = 0 /\ n # 0
      BY EmptySeq
    <3>q. QED
      BY <2>3, <3>1
  <2>q. QED
    BY <2>1, <2>3, <2>4
<1>5. TypeOK'
  BY <1>1, <1>2, <1>4 DEF IInv, TypeOK, rows, history, WorkerPc
<1>6. OthersStay(w) /\ AnswerIsCounted(w) /\ RecordIsCovered(w)
  BY <1>1, <1>2 DEF IInv, TypeOK, OthersStay, AnswerIsCounted, RecordIsCovered, Recording,
                    rows, history
<1>7. BatchIsRead(w)
  BY <1>4 DEF BatchIsRead
<1>8. SuccessWasAcked' /\ VerdictsAreEarned'
  BY <1>1, <1>2 DEF IInv, TypeOK, SuccessWasAcked, VerdictsAreEarned, InHand, rows, history
<1>q. QED
  BY <1>5, <1>6, <1>7, <1>8, CoverageKept DEF IInv

LEMMA AbortStep ==
  ASSUME IInv, NEW w \in Worker, GiveUp(w) \/ Escape(w) \/ Interrupt(w)
  PROVE  IInv'
<1>1. /\ pc[w] # "idle" /\ Abort(w)
      /\ UNCHANGED <<rows, withdrawn, history>>
      /\ interrupts' \in 0 .. MaxInterrupts
  BY DEF IInv, TypeOK, GiveUp, Escape, Interrupt
<1>2. /\ pc' \in [Worker -> WorkerPc] /\ batch' \in [Worker -> Seq(Snapshot)]
      /\ answer' \in [Worker -> Answer \union {"unsent"}]
      /\ \A v \in Worker : pc'[v] = "idle" <=> batch'[v] = << >>
      /\ OthersStay(w) /\ BatchIsRead(w)
      /\ pc'[w] # "record" /\ \A d : w \notin Recording(d)'
  BY <1>1, TickMoves
<1>3. TypeOK'
  BY <1>1, <1>2 DEF IInv, TypeOK, rows, history
<1>4. AnswerIsCounted(w) /\ RecordIsCovered(w)
  BY <1>1, <1>2 DEF IInv, TypeOK, AnswerIsCounted, RecordIsCovered, rows, history
<1>5. SuccessWasAcked' /\ VerdictsAreEarned'
  BY <1>1, <1>2 DEF IInv, TypeOK, SuccessWasAcked, VerdictsAreEarned, OthersStay, InHand,
                    rows, history
<1>q. QED
  BY <1>2, <1>3, <1>4, <1>5, CoverageKept DEF IInv

LEMMA LookStep ==
  ASSUME IInv, NEW w \in Worker, Look(w)
  PROVE  IInv'
<1> DEFINE d == InHand(w).delivery
<1>1. pc[w] = "batch" /\ UNCHANGED <<rows, withdrawn, batch, acked, interrupts>>
  BY DEF Look
<1>2. d \in Delivery /\ batch[w] # << >>
  BY <1>1, InHandType
<1>3. \/ /\ pc' = [pc EXCEPT ![w] = "record"] /\ answer' = [answer EXCEPT ![w] = "unsent"]
         /\ tries' = [tries EXCEPT ![d] = tries[d] + 1]
      \/ pc' = [pc EXCEPT ![w] = "post"] /\ UNCHANGED <<answer, tries>>
  BY DEF Look
<1> HIDE DEF d
<1>12. /\ tries' \in [Delivery -> Nat]
       /\ pc'[w] = "record" => tries'[d] = tries[d] + 1
       /\ \A q \in Delivery : tries[q] \in Nat /\ tries'[q] >= tries[q]
       /\ pc' \in [Worker -> WorkerPc] /\ pc'[w] # "idle"
       /\ \A v \in Worker \ {w} : pc'[v] = pc[v] /\ answer'[v] = answer[v]
       /\ answer' \in [Worker -> Answer \union {"unsent"}]
  <2>1. /\ tries \in [Delivery -> Nat] /\ pc \in [Worker -> WorkerPc]
        /\ answer \in [Worker -> Answer \union {"unsent"}]
    BY DEF IInv, TypeOK
  <2>2. CASE /\ pc' = [pc EXCEPT ![w] = "record"] /\ answer' = [answer EXCEPT ![w] = "unsent"]
             /\ tries' = [tries EXCEPT ![d] = tries[d] + 1]
    BY <1>2, <2>1, <2>2 DEF WorkerPc
  <2>3. CASE pc' = [pc EXCEPT ![w] = "post"] /\ UNCHANGED <<answer, tries>>
    BY <1>2, <2>1, <2>3 DEF WorkerPc
  <2>q. QED
    BY <1>3, <2>2, <2>3
<1>4. TypeOK' /\ OthersStay(w)
  <2>1. \A v \in Worker : pc'[v] = "idle" <=> batch'[v] = << >>
    BY <1>1, <1>2, <1>12 DEF IInv, TypeOK
  <2>q. QED
    BY <1>1, <1>12, <2>1 DEF IInv, TypeOK, rows, OthersStay
<1>5. \A q : w \notin Recording(q) /\ (w \in Recording(q)' => q = d /\ pc'[w] = "record")
  BY <1>1 DEF Recording, InHand, d
<1>6. AnswerIsCounted(w)
  BY <1>5, <1>12 DEF AnswerIsCounted
<1>7. RecordIsCovered(w) /\ BatchIsRead(w)
  BY <1>1 DEF RecordIsCovered, BatchIsRead, rows
<1>8. SuccessWasAcked'
  BY <1>1, <1>3 DEF IInv, TypeOK, SuccessWasAcked, InHand, Answer
<1>9. VerdictsAreEarned'
  BY <1>1, <1>12 DEF IInv, VerdictsAreEarned, rows
<1>q. QED
  BY <1>4, <1>6, <1>7, <1>8, <1>9, CoverageKept DEF IInv

LEMMA PostStep ==
  ASSUME IInv, NEW w \in Worker, Post(w)
  PROVE  IInv'
<1> DEFINE d == InHand(w).delivery
<1>1. /\ pc[w] = "post" /\ pc' = [pc EXCEPT ![w] = "record"]
      /\ UNCHANGED <<rows, withdrawn, batch, interrupts>>
  BY DEF Post
<1>2. d \in Delivery /\ batch[w] # << >>
  BY <1>1, InHandType
<1>3. PICK a \in Answers[d] :
        /\ answer' = [answer EXCEPT ![w] = a]
        /\ acked' = IF a = "ok" THEN acked \union {d} ELSE acked
        /\ tries' = [tries EXCEPT ![d] = IF a = "garbled" THEN tries[d] ELSE tries[d] + 1]
  BY DEF Post
<1>4. \A q : w \notin Recording(q)
  BY <1>1 DEF Recording
<1>5. \A q : w \in Recording(q)' => q = d /\ a # "garbled"
  BY <1>1, <1>3 DEF IInv, TypeOK, Recording, InHand
<1>6. SuccessWasAcked'
  BY <1>1, <1>3 DEF IInv, TypeOK, SuccessWasAcked, InHand
<1> HIDE DEF d
<1>7. a \in Answer
  BY <1>2
<1>12. /\ tries' \in [Delivery -> Nat]
       /\ a # "garbled" => tries'[d] = tries[d] + 1
       /\ \A q \in Delivery : tries[q] \in Nat /\ tries'[q] >= tries[q]
  <2>1. tries \in [Delivery -> Nat]
    BY DEF IInv, TypeOK
  <2>2. CASE a = "garbled"
    BY <1>2, <1>3, <2>1, <2>2
  <2>3. CASE a # "garbled"
    BY <1>2, <1>3, <2>1, <2>3
  <2>q. QED
    BY <2>2, <2>3
<1>13. acked' \in SUBSET Delivery /\ acked \subseteq acked'
  BY <1>2, <1>3 DEF IInv, TypeOK
<1>8. TypeOK' /\ OthersStay(w)
  BY <1>1, <1>2, <1>3, <1>7, <1>12, <1>13 DEF IInv, TypeOK, rows, WorkerPc, OthersStay
<1>9. AnswerIsCounted(w)
  BY <1>4, <1>5, <1>12 DEF AnswerIsCounted
<1>10. RecordIsCovered(w) /\ BatchIsRead(w)
  BY <1>1 DEF RecordIsCovered, BatchIsRead, rows
<1>11. VerdictsAreEarned'
  BY <1>1, <1>12, <1>13 DEF IInv, VerdictsAreEarned, rows
<1>q. QED
  BY <1>6, <1>8, <1>9, <1>10, <1>11, CoverageKept DEF IInv

(* The row a worker records: what either statement may write to it.        *)
LEMMA RowWritten ==
  ASSUME IInv, NEW d \in Delivery, NEW s \in Settled \union {"pending"}, NEW n \in Nat,
         state' = [state EXCEPT ![d] = s], attempts' = [attempts EXCEPT ![d] = n],
         line' = Without(line, d)
  PROVE  /\ state' \in [Delivery -> State] /\ attempts' \in [Delivery -> Nat]
         /\ line' \in Seq(Delivery)
         /\ \A i \in DOMAIN line' : state'[line'[i]] = "pending"
         /\ \A i, j \in DOMAIN line' : line'[i] = line'[j] => i = j
<1>1. /\ line \in Seq(Delivery) /\ state \in [Delivery -> State]
      /\ attempts \in [Delivery -> Nat]
      /\ \A i \in DOMAIN line : line[i] \in Delivery /\ state[line[i]] = "pending"
      /\ \A i, j \in DOMAIN line : line[i] = line[j] => i = j
  BY DEF IInv, TypeOK
<1>2. /\ line' \in Seq(Delivery)
      /\ \A i \in DOMAIN line' : line'[i] # d /\ \E j \in DOMAIN line : line'[i] = line[j]
      /\ \A i, j \in DOMAIN line' : line'[i] = line'[j] => i = j
  BY <1>1, WithoutRemoves
<1>3. \A i \in DOMAIN line' : state'[line'[i]] = "pending"
  BY <1>1, <1>2
<1>q. QED
  BY <1>1, <1>2, <1>3 DEF State

LEMMA RecordDeliveredStep ==
  ASSUME IInv, NEW w \in Worker, RecordDelivered(w)
  PROVE  IInv'
<1> DEFINE d == InHand(w).delivery
<1>1. /\ pc[w] = "record" /\ answer[w] = "ok" /\ Advance(w)
      /\ UNCHANGED <<withdrawn, history, interrupts>>
  BY DEF RecordDelivered, Succeeded
<1>2. d \in Delivery /\ w \in Recording(d) /\ d \in acked
  BY <1>1, InHandType DEF Recording, IInv, SuccessWasAcked
<1>3. \/ UNCHANGED rows
      \/ /\ state' = [state EXCEPT ![d] = "delivered"]
         /\ attempts' = [attempts EXCEPT ![d] = attempts[d] + 1]
         /\ line' = Without(line, d)
  BY DEF RecordDelivered
<1>4. /\ pc' \in [Worker -> WorkerPc] /\ batch' \in [Worker -> Seq(Snapshot)]
      /\ answer' \in [Worker -> Answer \union {"unsent"}]
      /\ \A v \in Worker : pc'[v] = "idle" <=> batch'[v] = << >>
      /\ OthersStay(w) /\ BatchIsRead(w)
      /\ pc'[w] # "record" /\ \A q : w \notin Recording(q)'
  BY <1>1, TickMoves
<1>5. SuccessWasAcked'
  BY <1>1, <1>4 DEF IInv, SuccessWasAcked, OthersStay, InHand, history
<1> HIDE DEF d
<1>6. attempts \in [Delivery -> Nat] /\ attempts[d] + 1 \in Nat
  BY <1>2 DEF IInv, TypeOK
<1>7. /\ state' \in [Delivery -> State] /\ attempts' \in [Delivery -> Nat]
      /\ line' \in Seq(Delivery)
      /\ \A i \in DOMAIN line' : state'[line'[i]] = "pending"
      /\ \A i, j \in DOMAIN line' : line'[i] = line'[j] => i = j
  <2>1. CASE UNCHANGED rows
    BY <2>1 DEF rows, IInv, TypeOK
  <2>2. CASE ~UNCHANGED rows
    BY <1>2, <1>3, <1>6, <2>2, RowWritten DEF Settled
  <2>q. QED
    BY <2>1, <2>2
<1>8. TypeOK'
  BY <1>1, <1>4, <1>7 DEF IInv, TypeOK, history
<1>9. AnswerIsCounted(w)
  BY <1>1, <1>4 DEF IInv, TypeOK, AnswerIsCounted, history
<1>10. RecordIsCovered(w)
  BY <1>2, <1>3, <1>4, <1>6 DEF RecordIsCovered, rows
<1>11. VerdictsAreEarned'
  BY <1>1, <1>2, <1>3 DEF IInv, TypeOK, VerdictsAreEarned, rows, history
<1>q. QED
  BY <1>4, <1>5, <1>8, <1>9, <1>10, <1>11, CoverageKept DEF IInv

LEMMA RecordFailureStep ==
  ASSUME IInv, NEW w \in Worker, RecordFailure(w)
  PROVE  IInv'
<1> DEFINE d == InHand(w).delivery
           n == InHand(w).attempts
<1>1. /\ pc[w] = "record" /\ answer[w] # "garbled" /\ Advance(w)
      /\ UNCHANGED <<withdrawn, history, interrupts>>
  BY DEF RecordFailure
<1>2. /\ d \in Delivery /\ n \in Nat /\ w \in Recording(d)
      /\ 1 \in 1 .. Len(batch[w]) /\ batch[w][1].delivery = d /\ batch[w][1].attempts = n
  BY <1>1, InHandType DEF Recording
<1>3. \/ UNCHANGED rows
      \/ /\ state' = [state EXCEPT ![d] = IF n + 1 >= MaxAttempts THEN "failed" ELSE "pending"]
         /\ attempts' = [attempts EXCEPT ![d] = n + 1]
         /\ line' = Without(line, d)
  BY DEF RecordFailure, Counted, Exhausted
<1>4. /\ pc' \in [Worker -> WorkerPc] /\ batch' \in [Worker -> Seq(Snapshot)]
      /\ answer' \in [Worker -> Answer \union {"unsent"}]
      /\ \A v \in Worker : pc'[v] = "idle" <=> batch'[v] = << >>
      /\ OthersStay(w) /\ BatchIsRead(w)
      /\ pc'[w] # "record" /\ \A q : w \notin Recording(q)'
  BY <1>1, TickMoves
<1>5. SuccessWasAcked'
  BY <1>1, <1>4 DEF IInv, SuccessWasAcked, OthersStay, InHand, history
<1>6. n + 1 <= tries[d] /\ tries[d] \in Nat
  <2>1. n + Cardinality(Recording(d)) <= tries[d] /\ tries[d] \in Nat
    BY <1>2 DEF IInv, TypeOK, SnapshotsAreCovered
  <2>2. Cardinality(Recording(d)) \in Nat /\ Cardinality(Recording(d)) # 0
    BY <1>2, RecordingFinite, FS_EmptySet
  <2>q. QED
    BY <1>2, <2>1, <2>2
<1> HIDE DEF d, n
<1>7. /\ state' \in [Delivery -> State] /\ attempts' \in [Delivery -> Nat]
      /\ line' \in Seq(Delivery)
      /\ \A i \in DOMAIN line' : state'[line'[i]] = "pending"
      /\ \A i, j \in DOMAIN line' : line'[i] = line'[j] => i = j
  <2>1. CASE UNCHANGED rows
    BY <2>1 DEF rows, IInv, TypeOK
  <2>2. CASE ~UNCHANGED rows
    <3>1. PICK s \in Settled \union {"pending"} : state' = [state EXCEPT ![d] = s]
      BY <1>3, <2>2 DEF Settled
    <3>2. /\ attempts' = [attempts EXCEPT ![d] = n + 1] /\ n + 1 \in Nat
          /\ line' = Without(line, d)
      BY <1>2, <1>3, <2>2
    <3>q. QED
      BY <1>2, <3>1, <3>2, RowWritten
  <2>q. QED
    BY <2>1, <2>2
<1>8. TypeOK'
  BY <1>1, <1>4, <1>7 DEF IInv, TypeOK, history
<1>9. AnswerIsCounted(w)
  BY <1>1, <1>4 DEF IInv, TypeOK, AnswerIsCounted, history
<1>10. RecordIsCovered(w)
  <2>1. CASE UNCHANGED rows
    BY <2>1 DEF RecordIsCovered, rows
  <2>2. CASE attempts' = [attempts EXCEPT ![d] = n + 1]
    <3>1. /\ attempts'[d] = n + 1
          /\ \A q \in Delivery : q # d => attempts'[q] = attempts[q]
      BY <1>2, <2>2 DEF IInv, TypeOK
    <3>2. attempts'[d] = batch[w][1].attempts + 1
      BY <1>2, <3>1
    <3>q. QED
      BY <1>2, <1>4, <3>1, <3>2 DEF RecordIsCovered
  <2>q. QED
    BY <1>3, <2>1, <2>2
<1>11. VerdictsAreEarned'
  <2>1. CASE UNCHANGED rows
    BY <1>1, <2>1 DEF IInv, VerdictsAreEarned, rows, history
  <2>2. CASE ~UNCHANGED rows
    <3>1. state' = [state EXCEPT ![d] = IF n + 1 >= MaxAttempts THEN "failed" ELSE "pending"]
      BY <1>3, <2>2
    <3>2. \A q \in Delivery : q # d => state'[q] = state[q]
      BY <3>1 DEF IInv, TypeOK
    <3>3. state'[d] = "failed" => tries[d] >= MaxAttempts
      BY <1>2, <1>6, <3>1 DEF IInv, TypeOK
    <3>4. state'[d] # "delivered"
      BY <1>2, <3>1 DEF IInv, TypeOK
    <3>q. QED
      BY <1>1, <3>2, <3>3, <3>4 DEF IInv, VerdictsAreEarned, history
  <2>q. QED
    BY <2>1, <2>2
<1>q. QED
  BY <1>4, <1>5, <1>8, <1>9, <1>10, <1>11, CoverageKept DEF IInv

-----------------------------------------------------------------------------
(* Other parts of the system, and the theorems                             *)

LEMMA TableStep ==
  ASSUME IInv, NEW d \in Delivery, Enqueue(d) \/ Revoke(d) \/ Purge(d) \/ Mature(d)
  PROVE  IInv'
<1>1. /\ UNCHANGED <<attempts, pc, batch, answer, acked, tries, interrupts>>
      /\ withdrawn' \in SUBSET Delivery
  BY DEF IInv, TypeOK, Enqueue, Revoke, Purge, Mature, Waiting, rows, tick, history
<1>2. /\ line \in Seq(Delivery) /\ state \in [Delivery -> State]
      /\ \A i \in DOMAIN line : line[i] \in Delivery /\ state[line[i]] = "pending"
      /\ \A i, j \in DOMAIN line : line[i] = line[j] => i = j
  BY DEF IInv, TypeOK
<1>3. /\ state' \in [Delivery -> State] /\ line' \in Seq(Delivery)
      /\ \A i \in DOMAIN line' : state'[line'[i]] = "pending"
      /\ \A i, j \in DOMAIN line' : line'[i] = line'[j] => i = j
      /\ \A q \in Delivery : state'[q] \in Settled => state'[q] = state[q]
  <2>1. CASE Enqueue(d)
    <3>1. /\ state[d] = "none" /\ state' = [state EXCEPT ![d] = "pending"] /\ JoinsLine(d)
          /\ \A i \in DOMAIN line : line[i] # d
      BY <1>2, <2>1 DEF Enqueue
    <3>2. /\ line' \in Seq(Delivery)
          /\ \A i \in DOMAIN line' : line'[i] = d \/ \E j \in DOMAIN line : line'[i] = line[j]
          /\ \A i, j \in DOMAIN line' : line'[i] = line'[j] => i = j
      BY <1>2, <3>1, JoiningKeepsOrder
    <3>q. QED
      BY <1>2, <3>1, <3>2 DEF State, Settled
  <2>2. CASE Revoke(d)
    BY <1>2, <2>2 DEF Revoke, rows
  <2>3. CASE Purge(d)
    <3>1. /\ state' = [state EXCEPT ![d] = "purged"] /\ line' = Without(line, d)
      BY <2>3 DEF Purge
    <3>2. /\ line' \in Seq(Delivery)
          /\ \A i \in DOMAIN line' : line'[i] # d /\ \E j \in DOMAIN line : line'[i] = line[j]
          /\ \A i, j \in DOMAIN line' : line'[i] = line'[j] => i = j
      BY <1>2, <3>1, WithoutRemoves
    <3>q. QED
      BY <1>2, <3>1, <3>2 DEF State, Settled
  <2>4. CASE Mature(d)
    <3>1. /\ state[d] = "pending" /\ state' = state /\ JoinsLine(d)
          /\ \A i \in DOMAIN line : line[i] # d
      BY <2>4 DEF Mature, Waiting
    <3>2. /\ line' \in Seq(Delivery)
          /\ \A i \in DOMAIN line' : line'[i] = d \/ \E j \in DOMAIN line : line'[i] = line[j]
          /\ \A i, j \in DOMAIN line' : line'[i] = line'[j] => i = j
      BY <1>2, <3>1, JoiningKeepsOrder
    <3>q. QED
      BY <1>2, <3>1, <3>2
  <2>q. QED
    BY <2>1, <2>2, <2>3, <2>4
<1>4. TypeOK'
  BY <1>1, <1>3 DEF IInv, TypeOK
<1>5. CountsAreCovered' /\ SnapshotsAreCovered' /\ SuccessWasAcked'
  BY <1>1 DEF IInv, CountsAreCovered, SnapshotsAreCovered, SuccessWasAcked, Recording, InHand
<1>6. VerdictsAreEarned'
  BY <1>1, <1>3 DEF IInv, VerdictsAreEarned, Settled
<1>q. QED
  BY <1>4, <1>5, <1>6 DEF IInv

LEMMA InitIInv == Init => IInv
<1> SUFFICES ASSUME Init PROVE IInv
  OBVIOUS
<1>1. TypeOK
  BY EmptySeq DEF Init, TypeOK, State, WorkerPc
<1>2. \A d : Recording(d) = {}
  BY DEF Init, Recording
<1>3. CountsAreCovered
  BY <1>2, FS_EmptySet DEF Init, CountsAreCovered
<1>4. SnapshotsAreCovered
  <2>1. \A w \in Worker : Len(batch[w]) = 0
    BY EmptySeq DEF Init
  <2>q. QED
    BY <2>1 DEF SnapshotsAreCovered
<1>5. SuccessWasAcked /\ VerdictsAreEarned
  BY DEF Init, SuccessWasAcked, VerdictsAreEarned
<1>q. QED
  BY <1>1, <1>3, <1>4, <1>5 DEF IInv

LEMMA NextIInv == IInv /\ [Next]_vars => IInv'
<1> SUFFICES ASSUME IInv, [Next]_vars PROVE IInv'
  OBVIOUS
<1>1. ASSUME NEW d \in Delivery, Enqueue(d) \/ Revoke(d) \/ Purge(d) \/ Mature(d)
      PROVE  IInv'
  BY <1>1, TableStep
<1>2. ASSUME NEW w \in Worker,
             Due(w) \/ GiveUp(w) \/ Look(w) \/ Post(w) \/ Record(w) \/ Interrupt(w)
      PROVE  IInv'
  BY <1>2, DueStep, AbortStep, LookStep, PostStep, RecordDeliveredStep, RecordFailureStep
     DEF Record
<1>3. CASE UNCHANGED vars
  BY <1>3 DEF vars, rows, tick, history, IInv, TypeOK, CountsAreCovered, SnapshotsAreCovered,
              SuccessWasAcked, VerdictsAreEarned, Recording, InHand
<1>q. QED
  BY <1>1, <1>2, <1>3 DEF Next

(* Every reachable state satisfies the inductive invariant.                *)
THEOREM Invariance == Spec => []IInv
<1>1. Init => IInv
  BY InitIInv
<1>2. IInv /\ [Next]_vars => IInv'
  BY NextIInv
<1>q. QED
  BY <1>1, <1>2, PTL DEF Spec

(* The rows, the index of due ones, and every tick keep their types; a row
   that has come to rest is never in the index (0006_delivery.sql).        *)
THEOREM TypeCorrect == Spec => []TypeOK
<1>1. IInv => TypeOK
  BY DEF IInv
<1>q. QED
  BY <1>1, Invariance, PTL

(* A delivery is recorded as delivered only after a 2xx, and as failed only
   after MaxAttempts attempts came to an answer, however many workers count
   from stale reads (PostgresDeliverer.attempt, _record).                  *)
THEOREM VerdictsAreAlwaysEarned == Spec => []VerdictsAreEarned
<1>1. IInv => VerdictsAreEarned
  BY DEF IInv
<1>q. QED
  BY <1>1, Invariance, PTL

-----------------------------------------------------------------------------
(* One worker: nobody else counts, so what it read is what the row says.   *)

\* attempts of d the worker has made and not yet recorded
Owed(w, d) ==
  IF pc[w] = "record" /\ answer[w] # "garbled" /\ InHand(w).delivery = d THEN 1 ELSE 0

ReadingsHold(w) ==
  /\ \A i \in 1 .. Len(batch[w]) :
       state[batch[w][i].delivery] # "purged" =>
         attempts[batch[w][i].delivery] = batch[w][i].attempts
  /\ \A i, j \in 1 .. Len(batch[w]) :
       batch[w][i].delivery = batch[w][j].delivery => i = j

OwedIsCounted(w) ==
  \A d \in Delivery :
    state[d] # "purged" => tries[d] <= attempts[d] + Owed(w, d) + interrupts

OneInv(w) == IInv /\ ReadingsHold(w) /\ OwedIsCounted(w)

LEMMA OwedRecording ==
  ASSUME NEW w, Worker = {w}, NEW d
  PROVE  Cardinality(Recording(d)) = Owed(w, d)
<1>1. CASE pc[w] = "record" /\ answer[w] # "garbled" /\ InHand(w).delivery = d
  <2>1. Recording(d) = {w}
    BY <1>1 DEF Recording
  <2>q. QED
    BY <1>1, <2>1, FS_Singleton DEF Owed
<1>2. CASE ~(pc[w] = "record" /\ answer[w] # "garbled" /\ InHand(w).delivery = d)
  <2>1. Recording(d) = {}
    BY <1>2 DEF Recording
  <2>q. QED
    BY <1>2, <2>1, FS_EmptySet DEF Owed
<1>q. QED
  BY <1>1, <1>2

LEMMA RowsInBatch ==
  ASSUME NEW w \in Worker, IInv
  PROVE  \A i \in 1 .. Len(batch[w]) : batch[w][i].delivery \in Delivery
<1>1. batch[w] \in Seq(Snapshot)
  BY DEF IInv, TypeOK
<1>2. \A i \in 1 .. Len(batch[w]) : batch[w][i] \in Snapshot
  BY <1>1
<1>q. QED
  BY <1>2 DEF Snapshot

LEMMA OneTable ==
  ASSUME NEW w \in Worker, OneInv(w), NEW d \in Delivery,
         Enqueue(d) \/ Revoke(d) \/ Purge(d) \/ Mature(d)
  PROVE  (ReadingsHold(w) /\ OwedIsCounted(w))'
<1>1. UNCHANGED <<attempts, pc, batch, answer, tries, interrupts>>
  BY DEF Enqueue, Revoke, Purge, Mature, rows, tick, history
<1>2. \A q \in Delivery : state'[q] # "purged" => state[q] # "purged"
  BY DEF OneInv, IInv, TypeOK, Enqueue, Revoke, Purge, Mature, rows
<1>3. \A i \in 1 .. Len(batch[w]) : batch[w][i].delivery \in Delivery
  BY RowsInBatch DEF OneInv
<1>4. ReadingsHold(w)'
  BY <1>1, <1>2, <1>3 DEF OneInv, ReadingsHold
<1>5. OwedIsCounted(w)'
  BY <1>1, <1>2 DEF OneInv, OwedIsCounted, Owed, InHand
<1>q. QED
  BY <1>4, <1>5

LEMMA OneDue ==
  ASSUME NEW w \in Worker, OneInv(w), Due(w)
  PROVE  (ReadingsHold(w) /\ OwedIsCounted(w))'
<1>1. PICK n \in 1 .. Batch :
        /\ n <= Len(line)
        /\ batch' = [batch EXCEPT ![w] =
             [i \in 1 .. n |-> [delivery |-> line[i], attempts |-> attempts[line[i]]]]]
  BY DEF Due
<1>2. /\ pc[w] = "idle" /\ pc' = [pc EXCEPT ![w] = "batch"]
      /\ UNCHANGED <<state, attempts, line, tries, interrupts>>
  BY DEF Due, rows, history
<1>3. /\ line \in Seq(Delivery) /\ batch \in [Worker -> Seq(Snapshot)] /\ pc \in [Worker -> WorkerPc]
      /\ \A i, j \in DOMAIN line : line[i] = line[j] => i = j
  BY DEF OneInv, IInv, TypeOK
<1> DEFINE b == [i \in 1 .. n |-> [delivery |-> line[i], attempts |-> attempts[line[i]]]]
<1>4. batch'[w] = b
  BY <1>1, <1>3
<1>5. Len(b) = n
  <2>1. b \in [1 .. n -> {[delivery |-> line[i], attempts |-> attempts[line[i]]] : i \in 1 .. n}]
    OBVIOUS
  <2>q. QED
    BY <2>1, FunctionIsSeq
<1>6. \A i \in 1 .. n : b[i].delivery = line[i] /\ b[i].attempts = attempts[line[i]] /\ i \in DOMAIN line
  BY <1>1, <1>3
<1> HIDE DEF b
<1>7. ReadingsHold(w)'
  BY <1>2, <1>3, <1>4, <1>5, <1>6 DEF ReadingsHold
<1>8. \A d \in Delivery : Owed(w, d) = 0 /\ Owed(w, d)' = 0
  BY <1>2, <1>3 DEF Owed
<1>9. OwedIsCounted(w)'
  BY <1>2, <1>8 DEF OneInv, OwedIsCounted
<1>q. QED
  BY <1>7, <1>9

\* The batch is dropped: what was owed is lost only to an interruption.
LEMMA OneAbort ==
  ASSUME NEW w \in Worker, OneInv(w), GiveUp(w) \/ Escape(w) \/ Interrupt(w)
  PROVE  (ReadingsHold(w) /\ OwedIsCounted(w))'
<1>1. /\ Abort(w) /\ UNCHANGED <<state, attempts, tries>>
      /\ interrupts \in Nat /\ interrupts' \in Nat
      /\ attempts \in [Delivery -> Nat] /\ tries \in [Delivery -> Nat]
      /\ pc \in [Worker -> WorkerPc] /\ batch \in [Worker -> Seq(Snapshot)]
  BY DEF OneInv, IInv, TypeOK, GiveUp, Escape, Interrupt, rows, history
<1>2. batch'[w] = << >> /\ pc'[w] = "idle"
  BY <1>1 DEF Abort
<1>3. ReadingsHold(w)'
  <2>1. Len(batch'[w]) = 0
    BY <1>2
  <2>q. QED
    BY <2>1 DEF ReadingsHold
<1>4. \A d \in Delivery : Owed(w, d) + interrupts <= interrupts'
  BY <1>1 DEF Owed, GiveUp, Escape, Interrupt
<1>5. \A d \in Delivery : Owed(w, d)' = 0 /\ Owed(w, d) \in Nat
  BY <1>2 DEF Owed
<1>6. OwedIsCounted(w)'
  BY <1>1, <1>4, <1>5 DEF OneInv, OwedIsCounted
<1>q. QED
  BY <1>3, <1>6

\* An answer, or the refusal to send: one more try, and it is owed.
LEMMA OneAnswer ==
  ASSUME NEW w \in Worker, OneInv(w), Look(w) \/ Post(w)
  PROVE  (ReadingsHold(w) /\ OwedIsCounted(w))'
<1> DEFINE d == InHand(w).delivery
<1>1. /\ UNCHANGED <<state, attempts, batch, interrupts>>
      /\ interrupts \in Nat /\ attempts \in [Delivery -> Nat] /\ tries \in [Delivery -> Nat]
      /\ pc \in [Worker -> WorkerPc] /\ answer \in [Worker -> Answer \union {"unsent"}]
      /\ pc[w] # "record" /\ pc[w] # "idle"
  BY DEF OneInv, IInv, TypeOK, Look, Post, rows
<1>2. d \in Delivery
  BY <1>1, InHandType DEF OneInv
<1>3. ReadingsHold(w)'
  BY <1>1 DEF OneInv, ReadingsHold
<1>4. InHand(w)' = InHand(w)
  BY <1>1 DEF InHand
<1>5. \A q \in Delivery : Owed(w, q) = 0 /\ Owed(w, q)' \in Nat
  BY <1>1 DEF Owed
<1>6. \A q \in Delivery : tries'[q] \in Nat /\ tries'[q] <= tries[q] + Owed(w, q)'
  <2>1. CASE Look(w)
    <3>1. CASE UNCHANGED tries
      BY <1>1, <1>5, <3>1
    <3>2. CASE ~UNCHANGED tries
      <4>1. /\ answer' = [answer EXCEPT ![w] = "unsent"] /\ pc' = [pc EXCEPT ![w] = "record"]
            /\ tries' = [tries EXCEPT ![d] = @ + 1]
        BY <2>1, <3>2 DEF Look
      <4>2. pc'[w] = "record" /\ answer'[w] = "unsent"
        BY <1>1, <4>1
      <4>q. QED
        BY <1>1, <1>2, <1>4, <1>5, <4>1, <4>2 DEF Owed
    <3>q. QED
      BY <3>1, <3>2
  <2>2. CASE Post(w)
    <3>1. PICK a \in Answers[d] :
            /\ answer' = [answer EXCEPT ![w] = a] /\ pc' = [pc EXCEPT ![w] = "record"]
            /\ tries' = [tries EXCEPT ![d] = IF a = "garbled" THEN @ ELSE @ + 1]
      BY <2>2 DEF Post
    <3>2. pc'[w] = "record" /\ answer'[w] = a
      BY <1>1, <3>1
    <3>q. QED
      BY <1>1, <1>2, <1>4, <1>5, <3>1, <3>2 DEF Owed
  <2>q. QED
    BY <2>1, <2>2
<1> HIDE DEF d
<1>7. OwedIsCounted(w)'
  <2>1. ASSUME NEW q \in Delivery, state'[q] # "purged"
        PROVE  tries'[q] <= attempts'[q] + Owed(w, q)' + interrupts'
    <3>1. tries[q] <= attempts[q] + Owed(w, q) + interrupts
      BY <1>1, <2>1 DEF OneInv, OwedIsCounted
    <3>2. /\ tries'[q] \in Nat /\ tries'[q] <= tries[q] + Owed(w, q)'
          /\ Owed(w, q) = 0 /\ Owed(w, q)' \in Nat
          /\ attempts[q] \in Nat /\ tries[q] \in Nat
      BY <1>1, <1>5, <1>6
    <3>3. tries'[q] <= attempts[q] + Owed(w, q)' + interrupts
      BY <1>1, <3>1, <3>2
    <3>q. QED
      BY <1>1, <3>3
  <2>q. QED
    BY <2>1 DEF OwedIsCounted
<1>q. QED
  BY <1>3, <1>7

\* A record adds one to the count there is: the row's own, or the same read before.
LEMMA OneRecord ==
  ASSUME NEW w \in Worker, OneInv(w), RecordDelivered(w) \/ RecordFailure(w)
  PROVE  (ReadingsHold(w) /\ OwedIsCounted(w))'
<1> DEFINE d == InHand(w).delivery
<1>1. /\ UNCHANGED <<tries, interrupts>> /\ Advance(w)
      /\ interrupts \in Nat /\ attempts \in [Delivery -> Nat] /\ tries \in [Delivery -> Nat]
      /\ state \in [Delivery -> State]
      /\ pc \in [Worker -> WorkerPc] /\ batch \in [Worker -> Seq(Snapshot)]
      /\ pc[w] = "record" /\ answer[w] # "garbled"
  BY DEF OneInv, IInv, TypeOK, RecordDelivered, RecordFailure, Succeeded, history
<1>2. /\ d \in Delivery /\ InHand(w) = batch[w][1] /\ 1 \in 1 .. Len(batch[w])
      /\ \A i \in 1 .. Len(batch[w]) : batch[w][i].delivery \in Delivery
  <2>1. pc[w] # "idle"
    BY <1>1
  <2>q. QED
    BY <1>1, <2>1, InHandType, RowsInBatch DEF OneInv
<1>3. /\ batch'[w] = NextRow(w) /\ pc'[w] # "record"
      /\ \A i \in 1 .. Len(NextRow(w)) :
           i + 1 \in 1 .. Len(batch[w]) /\ NextRow(w)[i] = batch[w][i + 1]
  <2>1. pc[w] # "idle"
    BY <1>1
  <2>q. QED
    BY <1>1, <2>1, NextRowType DEF OneInv, Advance
<1>4. /\ state[d] = "purged" => UNCHANGED <<state, attempts>>
      /\ state[d] # "purged" => attempts' = [attempts EXCEPT ![d] = attempts[d] + 1]
      /\ \A q \in Delivery : q # d => state'[q] = state[q]
  <2>1. state[d] # "purged" => attempts[d] = InHand(w).attempts
    BY <1>2 DEF OneInv, ReadingsHold
  <2>2. CASE RecordDelivered(w)
    BY <1>1, <2>2 DEF RecordDelivered, rows
  <2>3. CASE RecordFailure(w)
    BY <1>1, <2>1, <2>3 DEF RecordFailure, rows, Counted
  <2>q. QED
    BY <2>2, <2>3
<1>5. \A i \in 1 .. Len(NextRow(w)) : NextRow(w)[i].delivery \in Delivery /\ NextRow(w)[i].delivery # d
  <2>1. ASSUME NEW i \in 1 .. Len(NextRow(w))
        PROVE  NextRow(w)[i].delivery \in Delivery /\ NextRow(w)[i].delivery # d
    <3>1. i + 1 \in 1 .. Len(batch[w]) /\ NextRow(w)[i] = batch[w][i + 1] /\ i + 1 # 1
      BY <1>3
    <3>q. QED
      BY <1>2, <3>1 DEF OneInv, ReadingsHold
  <2>q. QED
    BY <2>1
<1>6. ReadingsHold(w)'
  <2>1. ASSUME NEW i \in 1 .. Len(NextRow(w)), state'[NextRow(w)[i].delivery] # "purged"
        PROVE  attempts'[NextRow(w)[i].delivery] = NextRow(w)[i].attempts
    <3>1. i + 1 \in 1 .. Len(batch[w]) /\ NextRow(w)[i] = batch[w][i + 1]
      BY <1>3
    <3>2. attempts[NextRow(w)[i].delivery] = NextRow(w)[i].attempts
      BY <1>4, <1>5, <2>1, <3>1 DEF OneInv, ReadingsHold
    <3>q. QED
      BY <1>1, <1>4, <1>5, <3>2
  <2>2. ASSUME NEW i \in 1 .. Len(NextRow(w)), NEW j \in 1 .. Len(NextRow(w)),
               NextRow(w)[i].delivery = NextRow(w)[j].delivery
        PROVE  i = j
    <3>1. i + 1 = j + 1
      BY <1>3, <2>2 DEF OneInv, ReadingsHold
    <3>q. QED
      BY <3>1
  <2>q. QED
    BY <1>3, <2>1, <2>2 DEF ReadingsHold
<1>7. /\ Owed(w, d) = 1 /\ \A q \in Delivery : Owed(w, q)' = 0 /\ (q # d => Owed(w, q) = 0)
  BY <1>1, <1>3 DEF Owed
<1> HIDE DEF d
<1>8. OwedIsCounted(w)'
  <2>1. ASSUME NEW q \in Delivery, state'[q] # "purged"
        PROVE  tries'[q] <= attempts'[q] + Owed(w, q)' + interrupts'
    <3>1. state[q] # "purged" /\ tries[q] <= attempts[q] + Owed(w, q) + interrupts
      BY <1>4, <2>1 DEF OneInv, OwedIsCounted
    <3>2. attempts'[q] = attempts[q] + Owed(w, q)
      <4>1. CASE q = d
        BY <1>1, <1>2, <1>4, <1>7, <3>1, <4>1
      <4>2. CASE q # d
        BY <1>1, <1>2, <1>4, <1>7, <3>1, <4>2
      <4>q. QED
        BY <4>1, <4>2
    <3>3. Owed(w, q)' = 0 /\ attempts[q] + Owed(w, q) \in Nat
      <4>1. Owed(w, q)' = 0
        BY <1>7
      <4>2. Owed(w, q) \in Nat
        BY DEF Owed
      <4>q. QED
        BY <1>1, <4>1, <4>2
    <3>q. QED
      BY <1>1, <3>1, <3>2, <3>3
  <2>q. QED
    BY <2>1 DEF OwedIsCounted
<1>q. QED
  BY <1>6, <1>8

LEMMA OneInit ==
  ASSUME NEW w, Worker = {w}, Init
  PROVE  OneInv(w)
<1>1. Len(batch[w]) = 0
  BY EmptySeq DEF Init
<1>2. ReadingsHold(w)
  BY <1>1 DEF ReadingsHold
<1>3. OwedIsCounted(w)
  BY DEF Init, OwedIsCounted, Owed
<1>q. QED
  BY <1>2, <1>3, InitIInv DEF OneInv

LEMMA OneNext ==
  ASSUME NEW w, Worker = {w}, OneInv(w), [Next]_vars
  PROVE  OneInv(w)'
<1>1. w \in Worker
  OBVIOUS
<1>2. IInv'
  BY NextIInv DEF OneInv
<1>3. ASSUME NEW d \in Delivery, Enqueue(d) \/ Revoke(d) \/ Purge(d) \/ Mature(d)
      PROVE  (ReadingsHold(w) /\ OwedIsCounted(w))'
  BY <1>1, <1>3, OneTable
<1>4. ASSUME Due(w) \/ GiveUp(w) \/ Look(w) \/ Post(w) \/ Record(w) \/ Interrupt(w)
      PROVE  (ReadingsHold(w) /\ OwedIsCounted(w))'
  BY <1>1, <1>4, OneDue, OneAbort, OneAnswer, OneRecord DEF Record
<1>5. ASSUME UNCHANGED vars
      PROVE  (ReadingsHold(w) /\ OwedIsCounted(w))'
  BY <1>5 DEF OneInv, ReadingsHold, OwedIsCounted, Owed, InHand, vars, rows, tick, history
<1>6. (ReadingsHold(w) /\ OwedIsCounted(w))'
  <2>1. CASE UNCHANGED vars
    BY <1>5, <2>1
  <2>2. CASE Next
    <3>1. CASE \E d \in Delivery : Enqueue(d) \/ Revoke(d) \/ Purge(d) \/ Mature(d)
      BY <1>3, <3>1
    <3>2. CASE \E x \in Worker : \/ Due(x) \/ GiveUp(x) \/ Look(x) \/ Post(x)
                                  \/ Record(x) \/ Interrupt(x)
      BY <1>4, <3>2
    <3>q. QED
      BY <2>2, <3>1, <3>2 DEF Next
  <2>q. QED
    BY <2>1, <2>2
<1>q. QED
  BY <1>2, <1>6 DEF OneInv

(* With one worker the attempts column misses no attempt but one per crash
   or outage (PostgresDeliverer.attempt counts from the row it read).       *)
THEOREM AttemptsAreAlwaysCounted ==
  ASSUME NEW w, Worker = {w}
  PROVE  Spec => []AttemptsAreCounted
<1>1. Init => OneInv(w)
  BY OneInit
<1>2. OneInv(w) /\ [Next]_vars => OneInv(w)'
  BY OneNext
<1>3. OneInv(w) => AttemptsAreCounted
  BY OwedRecording DEF OneInv, OwedIsCounted, AttemptsAreCounted
<1>q. QED
  BY <1>1, <1>2, <1>3, PTL DEF Spec

\* Rows were pending when the one worker read them, and it records each once.
NothingHeldIsSettled(w) ==
  \A i \in 1 .. Len(batch[w]) : state[batch[w][i].delivery] \notin Settled

LEMMA RowsSettle ==
  ASSUME NEW w, Worker = {w}, OneInv(w), NothingHeldIsSettled(w), Next
  PROVE  /\ NothingHeldIsSettled(w)'
         /\ \A d \in Delivery : state[d] \in Settled => state'[d] \in {state[d], "purged"}
<1> DEFINE Goal == /\ NothingHeldIsSettled(w)'
                   /\ \A d \in Delivery : state[d] \in Settled => state'[d] \in {state[d], "purged"}
<1>1. w \in Worker /\ IInv /\ ReadingsHold(w)
  BY DEF OneInv
<1>2. /\ state \in [Delivery -> State] /\ line \in Seq(Delivery)
      /\ pc \in [Worker -> WorkerPc] /\ batch \in [Worker -> Seq(Snapshot)]
  BY <1>1 DEF IInv, TypeOK
<1>3. \A i \in 1 .. Len(batch[w]) : batch[w][i].delivery \in Delivery
  BY <1>1, RowsInBatch
<1>4. ASSUME NEW d \in Delivery, Enqueue(d) \/ Revoke(d) \/ Purge(d) \/ Mature(d)
      PROVE  Goal
  <2>1. UNCHANGED batch
    BY <1>4 DEF Enqueue, Revoke, Purge, Mature, tick
  <2>2. \A q \in Delivery : /\ state[q] \in Settled => state'[q] \in {state[q], "purged"}
                            /\ state'[q] \in Settled => state[q] \in Settled
    BY <1>2, <1>4 DEF Enqueue, Revoke, Purge, Mature, rows, Settled
  <2>q. QED
    BY <1>3, <2>1, <2>2 DEF NothingHeldIsSettled
<1>5. ASSUME Due(w) PROVE Goal
  <2>1. PICK n \in 1 .. Batch :
          /\ n <= Len(line)
          /\ batch' = [batch EXCEPT ![w] =
               [i \in 1 .. n |-> [delivery |-> line[i], attempts |-> attempts[line[i]]]]]
    BY <1>5 DEF Due
  <2>2. UNCHANGED state /\ \A i \in DOMAIN line : state[line[i]] = "pending"
    BY <1>1, <1>5 DEF Due, rows, IInv, TypeOK
  <2> DEFINE b == [i \in 1 .. n |-> [delivery |-> line[i], attempts |-> attempts[line[i]]]]
  <2>3. batch'[w] = b
    BY <1>1, <1>2, <2>1
  <2>4. Len(b) = n
    <3>1. b \in [1 .. n -> {[delivery |-> line[i], attempts |-> attempts[line[i]]] : i \in 1 .. n}]
      OBVIOUS
    <3>q. QED
      BY <3>1, FunctionIsSeq
  <2>5. \A i \in 1 .. n : b[i].delivery = line[i] /\ i \in DOMAIN line
    BY <1>2, <2>1
  <2> HIDE DEF b
  <2>6. NothingHeldIsSettled(w)'
    BY <2>2, <2>3, <2>4, <2>5 DEF NothingHeldIsSettled, Settled
  <2>q. QED
    BY <2>2, <2>6
<1>6. ASSUME GiveUp(w) \/ Escape(w) \/ Interrupt(w) PROVE Goal
  <2>1. Abort(w) /\ UNCHANGED state
    BY <1>6 DEF GiveUp, Escape, Interrupt, rows
  <2>2. Len(batch'[w]) = 0
    BY <1>1, <1>2, <2>1 DEF Abort
  <2>q. QED
    BY <2>1, <2>2 DEF NothingHeldIsSettled
<1>7. ASSUME Look(w) \/ Post(w) PROVE Goal
  <2>1. UNCHANGED <<state, batch>>
    BY <1>7 DEF Look, Post, rows
  <2>q. QED
    BY <2>1 DEF NothingHeldIsSettled
<1>8. ASSUME RecordDelivered(w) \/ RecordFailure(w) PROVE Goal
  <2> DEFINE d == InHand(w).delivery
  <2>1. pc[w] # "idle" /\ Advance(w)
    BY <1>8 DEF RecordDelivered, RecordFailure
  <2>2. d \in Delivery /\ InHand(w) = batch[w][1] /\ 1 \in 1 .. Len(batch[w])
    BY <1>1, <2>1, InHandType
  <2>3. /\ batch'[w] = NextRow(w)
        /\ \A i \in 1 .. Len(NextRow(w)) :
             i + 1 \in 1 .. Len(batch[w]) /\ NextRow(w)[i] = batch[w][i + 1]
    BY <1>1, <1>2, <2>1, NextRowType DEF Advance
  <2>4. state[d] \notin Settled
    BY <2>2 DEF NothingHeldIsSettled
  <2>5. \A q \in Delivery : q # d => state'[q] = state[q]
    BY <1>2, <1>8 DEF RecordDelivered, RecordFailure, rows
  <2>6. ASSUME NEW i \in 1 .. Len(NextRow(w))
        PROVE  state'[NextRow(w)[i].delivery] \notin Settled
    <3>1. i + 1 \in 1 .. Len(batch[w]) /\ NextRow(w)[i] = batch[w][i + 1] /\ i + 1 # 1
      BY <2>3
    <3>2. NextRow(w)[i].delivery \in Delivery /\ NextRow(w)[i].delivery # d
      BY <1>1, <1>3, <2>2, <3>1 DEF ReadingsHold
    <3>q. QED
      BY <2>5, <3>1, <3>2 DEF NothingHeldIsSettled
  <2> HIDE DEF d
  <2>7. NothingHeldIsSettled(w)'
    BY <2>3, <2>6 DEF NothingHeldIsSettled
  <2>q. QED
    BY <2>4, <2>5, <2>7
<1> HIDE DEF Goal
<1>9. Goal
  <2>1. CASE \E d \in Delivery : Enqueue(d) \/ Revoke(d) \/ Purge(d) \/ Mature(d)
    BY <1>4, <2>1
  <2>2. CASE \E x \in Worker : \/ Due(x) \/ GiveUp(x) \/ Look(x) \/ Post(x)
                                \/ Record(x) \/ Interrupt(x)
    BY <1>5, <1>6, <1>7, <1>8, <2>2 DEF Record
  <2>q. QED
    BY <2>1, <2>2 DEF Next
<1>q. QED
  BY <1>9 DEF Goal

(* With one worker a verdict stays until the row is erased: the UPDATEs of
   attempt and _record ask for no state, but whoever sends them read the
   row when it was pending, and nobody else has settled it since.           *)
THEOREM SettledStays ==
  ASSUME NEW w, Worker = {w}
  PROVE  Spec => SettledIsFinal
<1> DEFINE Kept == \A d \in Delivery : state[d] \in Settled => state'[d] \in {state[d], "purged"}
<1>1. Init => OneInv(w) /\ NothingHeldIsSettled(w)
  <2> SUFFICES ASSUME Init PROVE OneInv(w) /\ NothingHeldIsSettled(w)
    OBVIOUS
  <2>1. Len(batch[w]) = 0
    BY EmptySeq DEF Init
  <2>q. QED
    BY <2>1, OneInit DEF NothingHeldIsSettled
<1>2. OneInv(w) /\ NothingHeldIsSettled(w) /\ [Next]_vars
        => (OneInv(w) /\ NothingHeldIsSettled(w))'
  <2>1. CASE UNCHANGED vars
    BY <2>1, OneNext DEF NothingHeldIsSettled, vars, rows, tick
  <2>2. CASE Next
    BY <2>2, OneNext, RowsSettle
  <2>q. QED
    BY <2>1, <2>2
<1>3. OneInv(w) /\ NothingHeldIsSettled(w) /\ [Next]_vars => [Kept]_vars
  BY RowsSettle
<1>q. QED
  BY <1>1, <1>2, <1>3, PTL DEF Spec, SettledIsFinal

=============================================================================
