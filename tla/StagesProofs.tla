----------------------------- MODULE StagesProofs -----------------------------
(* What a document goes through, for every value of the constants.           *)
EXTENDS Stages, FiniteSetTheorems, SequenceTheorems, TLAPS

-----------------------------------------------------------------------------
(* Extraction                                                                *)

asked == v1
step == v2
attempts == v3
spent == v4
seen == v5
outcome == v6
events == v7

USE ExtractionAssumption DEF asked, step, attempts, spent, seen, outcome, events

(* One more call is the last, and those before it are where they were.       *)
LEMMA CallsAppend ==
  ASSUME Extraction!TypeOK, NEW end \in Extraction!Reason \union {"answer"}, seen' = Append(seen, end)
  PROVE  /\ seen' \in Seq(Extraction!Reason \union {"answer"})
         /\ Len(seen') = Len(seen) + 1 /\ seen'[Len(seen')] = end
         /\ \A i \in DOMAIN seen' : i < Len(seen') => i \in DOMAIN seen /\ seen'[i] = seen[i]
<1>1. seen \in Seq(Extraction!Reason \union {"answer"})
  BY DEF Extraction!TypeOK
<1> QED BY <1>1

(* An event of a failure is one more event.                                  *)
LEMMA FailuresAreTyped ==
  ASSUME Extraction!TypeOK, NEW reason \in Extraction!Reason, NEW counted \in 0 .. MaxCalls,
         Extraction!Fails(reason, counted)
  PROVE  /\ step' = "done" /\ outcome' = reason /\ events' \in Seq(Extraction!Event)
<1>1. [outcome |-> "failure", reason |-> reason, attempts |-> counted] \in Extraction!Event
  BY DEF Extraction!Event
<1> QED BY <1>1 DEF Extraction!Fails, Extraction!TypeOK

LEMMA ExtractionStart == ASSUME Extraction!Init PROVE Extraction!ExtractionInv
<1>1. seen \in Seq(Extraction!Reason \union {"answer"}) /\ events \in Seq(Extraction!Event) /\ Len(seen) = 0
      /\ DOMAIN seen = {}
  BY DEF Extraction!Init
<1>2. step = "check" /\ attempts = 0 /\ outcome = None /\ spent = 0 /\ asked \in Extraction!Request
  BY DEF Extraction!Init
<1>3. Extraction!TypeOK /\ Extraction!CallsSoFar
  BY <1>1, <1>2 DEF Extraction!TypeOK, Extraction!CallsSoFar
<1>4. Extraction!CallsAreBounded
  BY <1>1, <1>2 DEF Extraction!CallsAreBounded, Extraction!Outcome, Extraction!Reason, Extraction!ExtractionReason,
     Extraction!ProviderReason, Extraction!Transient
<1> QED BY <1>3, <1>4 DEF Extraction!ExtractionInv

LEMMA RequestsAreChecked == ASSUME Extraction!ExtractionInv, Extraction!Check PROVE Extraction!ExtractionInv'
<1>1. /\ Extraction!TypeOK /\ step = "check" /\ attempts = 0 /\ outcome = None /\ Len(seen) = 0 /\ seen = <<>>
      /\ asked' = asked /\ attempts' = attempts /\ spent' = spent /\ seen' = seen
  BY DEF Extraction!Check, Extraction!ExtractionInv, Extraction!CallsSoFar, Extraction!CallsAreBounded, Extraction!TypeOK
<1>2. Extraction!Refusal \in {"schema", "unavailable", "input_budget", None}
  BY DEF Extraction!Refusal
<1>3. CASE Extraction!Refusal # None
  <2>1. Extraction!Refusal \in Extraction!Reason /\ Extraction!Refusal \notin Extraction!Transient
        /\ Extraction!Refusal # "result"
    BY <1>2, <1>3 DEF Extraction!Reason, Extraction!ExtractionReason, Extraction!ProviderReason, Extraction!Transient
  <2>2. step' = "done" /\ outcome' = Extraction!Refusal /\ events' \in Seq(Extraction!Event)
    BY <1>1, <1>3, <2>1, FailuresAreTyped DEF Extraction!Check
  <2>3. Extraction!TypeOK' /\ Extraction!CallsSoFar'
    BY <1>1, <2>1, <2>2 DEF Extraction!TypeOK, Extraction!CallsSoFar, Extraction!Outcome
  <2>4. Extraction!CallsAreBounded'
    BY <1>1, <2>1, <2>2 DEF Extraction!CallsAreBounded
  <2> QED BY <2>3, <2>4 DEF Extraction!ExtractionInv
<1>4. CASE Extraction!Refusal = None
  <2>1. step' = "call" /\ outcome' = outcome /\ events' = events
    BY <1>4 DEF Extraction!Check
  <2>2. Extraction!TypeOK' /\ Extraction!CallsSoFar'
    BY <1>1, <2>1 DEF Extraction!TypeOK, Extraction!CallsSoFar
  <2>3. Extraction!CallsAreBounded'
    BY <1>1, <2>1 DEF Extraction!CallsAreBounded, Extraction!Outcome, Extraction!Reason, Extraction!ExtractionReason,
       Extraction!ProviderReason, Extraction!Transient
  <2> QED BY <2>2, <2>3 DEF Extraction!ExtractionInv
<1> QED BY <1>3, <1>4

(* How a call ends.                                                          *)
LEMMA EndsAreKnown ==
  ASSUME NEW end \in Extraction!Ends
  PROVE  /\ end \in Extraction!Transient \union {"refusal", "request", "auth", "truncated", "shape", "answer", "untranslated"}
         /\ end # "answer" => end \in Extraction!Reason
BY DEF Extraction!Ends, Extraction!Echoes, Extraction!Translated, Extraction!Status, Extraction!Read, Extraction!Finish,
   Extraction!Transient, Extraction!Reason, Extraction!ExtractionReason, Extraction!ProviderReason

LEMMA CallsAreMade == ASSUME Extraction!ExtractionInv, Extraction!Call PROVE Extraction!ExtractionInv'
<1>1. /\ Extraction!TypeOK /\ step = "call" /\ attempts < MaxCalls /\ outcome = None /\ Len(seen) = attempts
      /\ \A i \in DOMAIN seen : seen[i] \in Extraction!Transient
      /\ asked' = asked /\ attempts \in Nat /\ spent \in Nat
  BY DEF Extraction!Call, Extraction!ExtractionInv, Extraction!CallsSoFar, Extraction!CallsAreBounded, Extraction!TypeOK
<1>2. CASE Extraction!Expired
  <2>1. Extraction!Fails("deadline", attempts) /\ attempts' = attempts /\ spent' = spent /\ seen' = seen
    BY <1>2 DEF Extraction!Call
  <2>2. "deadline" \in Extraction!Reason
    BY DEF Extraction!Reason, Extraction!ProviderReason
  <2>3. step' = "done" /\ outcome' = "deadline" /\ events' \in Seq(Extraction!Event)
    BY <1>1, <2>1, <2>2, FailuresAreTyped
  <2>4. Extraction!TypeOK' /\ Extraction!CallsSoFar'
    BY <1>1, <2>1, <2>2, <2>3 DEF Extraction!TypeOK, Extraction!CallsSoFar, Extraction!Outcome
  <2>5. Extraction!CallsAreBounded'
    BY <1>1, <2>1, <2>3 DEF Extraction!CallsAreBounded, Extraction!Transient
  <2> QED BY <2>4, <2>5 DEF Extraction!ExtractionInv
<1>3. CASE ~Extraction!Expired
  <2>1. PICK end \in Extraction!Ends, time \in 0 .. MaxCall :
          /\ attempts' = attempts + 1 /\ spent' = spent + time /\ seen' = Append(seen, end)
          /\ CASE end = "answer" -> step' = "conform" /\ outcome' = outcome /\ events' = events
               [] end = "untranslated" -> step' = "done" /\ outcome' = end /\ events' = events
               [] Extraction!TriesAgain(end) -> step' = "wait" /\ outcome' = outcome /\ events' = events
               [] OTHER -> Extraction!Fails(end, Extraction!Counted(end))
    BY <1>3 DEF Extraction!Call
  <2>2. /\ attempts' \in 0 .. MaxCalls /\ spent' \in 0 .. CallDeadline + MaxCall
    BY <1>1, <1>3, <2>1 DEF Extraction!Expired
  <2>3. /\ seen' \in Seq(Extraction!Reason \union {"answer"}) /\ Len(seen') = attempts' /\ seen'[Len(seen')] = end
        /\ \A i \in DOMAIN seen' : i < Len(seen') => seen'[i] \in Extraction!Transient
    BY <1>1, <2>1, EndsAreKnown, CallsAppend
  <2>4. CASE end = "answer"
    <3>1. step' = "conform" /\ outcome' = None /\ events' = events
      BY <1>1, <2>1, <2>4 DEF Extraction!TriesAgain, Extraction!Transient
    <3>2. Extraction!TypeOK' /\ Extraction!CallsSoFar'
      BY <1>1, <2>1, <2>2, <2>3, <2>4, <3>1 DEF Extraction!TypeOK, Extraction!CallsSoFar, Extraction!Last
    <3>3. Extraction!CallsAreBounded'
      BY <2>3, <3>1 DEF Extraction!CallsAreBounded, Extraction!Transient, Extraction!Outcome, Extraction!Reason,
         Extraction!ExtractionReason, Extraction!ProviderReason
    <3> QED BY <3>2, <3>3 DEF Extraction!ExtractionInv
  <2>5. CASE end # "answer" /\ end # "untranslated" /\ Extraction!TriesAgain(end)
    <3>1. step' = "wait" /\ outcome' = None /\ events' = events
      BY <1>1, <2>1, <2>5
    <3>2. end \in Extraction!Transient /\ attempts' < MaxCalls
      BY <1>1, <2>1, <2>5 DEF Extraction!TriesAgain
    <3>3. \A i \in DOMAIN seen' : seen'[i] \in Extraction!Transient
      BY <2>3, <3>2
    <3>4. Extraction!TypeOK' /\ Extraction!CallsSoFar'
      BY <1>1, <2>2, <2>3, <3>1, <3>2, <3>3 DEF Extraction!TypeOK, Extraction!CallsSoFar
    <3>5. Extraction!CallsAreBounded'
      BY <2>3, <3>1 DEF Extraction!CallsAreBounded, Extraction!Transient, Extraction!Outcome, Extraction!Reason,
         Extraction!ExtractionReason, Extraction!ProviderReason
    <3> QED BY <3>4, <3>5 DEF Extraction!ExtractionInv
  <2>6. CASE end # "answer" /\ (end = "untranslated" \/ ~Extraction!TriesAgain(end))
    <3>1. end \in Extraction!Reason
      BY <2>6, EndsAreKnown
    <3>2. step' = "done" /\ outcome' = end /\ events' \in Seq(Extraction!Event)
      <4>1. CASE end = "untranslated"
        BY <1>1, <2>1, <4>1 DEF Extraction!TypeOK, Extraction!TriesAgain, Extraction!Transient
      <4>2. CASE end # "untranslated"
        <5>1. Extraction!Fails(end, Extraction!Counted(end))
          BY <2>1, <2>6, <4>2
        <5>2. Extraction!Counted(end) \in 0 .. MaxCalls
          BY <1>1 DEF Extraction!Counted
        <5> QED BY <1>1, <3>1, <5>1, <5>2, FailuresAreTyped
      <4> QED BY <4>1, <4>2
    <3>3. end \in Extraction!Transient => attempts' = MaxCalls
      BY <1>1, <2>1, <2>6 DEF Extraction!TriesAgain, Extraction!Transient
    <3>4. Extraction!TypeOK' /\ Extraction!CallsSoFar'
      BY <1>1, <2>2, <2>3, <3>1, <3>2 DEF Extraction!TypeOK, Extraction!CallsSoFar, Extraction!Outcome
    <3>5. end \notin {"result", "schema", "unavailable", "input_budget"}
      BY EndsAreKnown DEF Extraction!Transient
    <3>6. Extraction!CallsAreBounded'
      BY <2>3, <3>2, <3>3, <3>5 DEF Extraction!CallsAreBounded
    <3> QED BY <3>4, <3>6 DEF Extraction!ExtractionInv
  <2> QED BY <2>4, <2>5, <2>6
<1> QED BY <1>2, <1>3

LEMMA CallsAreSpaced == ASSUME Extraction!ExtractionInv, Extraction!Wait PROVE Extraction!ExtractionInv'
<1>1. /\ Extraction!TypeOK /\ step = "wait" /\ attempts < MaxCalls /\ outcome = None /\ Len(seen) = attempts
      /\ \A i \in DOMAIN seen : seen[i] \in Extraction!Transient
      /\ asked' = asked /\ attempts' = attempts /\ seen' = seen /\ attempts \in 0 .. MaxCalls /\ spent \in Nat
  BY DEF Extraction!Wait, Extraction!ExtractionInv, Extraction!CallsSoFar, Extraction!CallsAreBounded, Extraction!TypeOK
<1>2. PICK wait \in Extraction!Backoff \union {3} :
        IF ~Extraction!Allows(wait) THEN Extraction!Fails("deadline", attempts) /\ spent' = spent
        ELSE spent' = spent + wait /\ step' = "call" /\ outcome' = outcome /\ events' = events
  BY DEF Extraction!Wait
<1>3. wait \in Nat
  BY DEF Extraction!Backoff
<1>4. CASE ~Extraction!Allows(wait)
  <2>1. "deadline" \in Extraction!Reason
    BY DEF Extraction!Reason, Extraction!ProviderReason
  <2>2. step' = "done" /\ outcome' = "deadline" /\ events' \in Seq(Extraction!Event) /\ spent' = spent
    BY <1>1, <1>2, <1>4, <2>1, FailuresAreTyped
  <2>3. Extraction!TypeOK' /\ Extraction!CallsSoFar'
    BY <1>1, <2>1, <2>2 DEF Extraction!TypeOK, Extraction!CallsSoFar, Extraction!Outcome
  <2>4. Extraction!CallsAreBounded'
    BY <1>1, <2>2 DEF Extraction!CallsAreBounded, Extraction!Transient
  <2> QED BY <2>3, <2>4 DEF Extraction!ExtractionInv
<1>5. CASE Extraction!Allows(wait)
  <2>1. spent' \in 0 .. CallDeadline + MaxCall /\ spent' < CallDeadline /\ step' = "call" /\ outcome' = None
        /\ events' = events
    BY <1>1, <1>2, <1>3, <1>5 DEF Extraction!Allows
  <2>2. Extraction!TypeOK' /\ Extraction!CallsSoFar'
    BY <1>1, <2>1 DEF Extraction!TypeOK, Extraction!CallsSoFar
  <2>3. Extraction!CallsAreBounded'
    BY <1>1, <2>1 DEF Extraction!CallsAreBounded, Extraction!Transient, Extraction!Outcome, Extraction!Reason,
       Extraction!ExtractionReason, Extraction!ProviderReason
  <2> QED BY <2>2, <2>3 DEF Extraction!ExtractionInv
<1> QED BY <1>4, <1>5

LEMMA AnswersConform == ASSUME Extraction!ExtractionInv, Extraction!Conform PROVE Extraction!ExtractionInv'
<1>1. /\ Extraction!TypeOK /\ step = "conform" /\ outcome = None /\ Len(seen) = attempts /\ Extraction!Last = "answer"
      /\ \A i \in DOMAIN seen : i < Len(seen) => seen[i] \in Extraction!Transient
      /\ asked' = asked /\ attempts' = attempts /\ seen' = seen /\ spent' = spent /\ attempts \in 0 .. MaxCalls
      /\ Extraction!Last' = Extraction!Last
  BY DEF Extraction!Conform, Extraction!ExtractionInv, Extraction!CallsSoFar, Extraction!CallsAreBounded, Extraction!TypeOK,
     Extraction!Last
<1>2. /\ step' = "done" /\ events' \in Seq(Extraction!Event)
      /\ outcome' \in {"result", "shape", "type", "missing_field"}
  <2>1. CASE /\ step' = "done" /\ outcome' = "result"
             /\ events' = Append(events, [outcome |-> "success", reason |-> None, attempts |-> attempts])
    <3>1. [outcome |-> "success", reason |-> None, attempts |-> attempts] \in Extraction!Event
      BY <1>1 DEF Extraction!Event
    <3> QED BY <1>1, <2>1, <3>1 DEF Extraction!TypeOK
  <2>2. ASSUME NEW reason \in {"shape", "type", "missing_field"}, Extraction!Fails(reason, attempts)
        PROVE  step' = "done" /\ events' \in Seq(Extraction!Event) /\ outcome' = reason
    <3>1. reason \in Extraction!Reason
      BY DEF Extraction!Reason, Extraction!ExtractionReason
    <3> QED BY <1>1, <2>2, <3>1, FailuresAreTyped
  <2> QED BY <2>1, <2>2 DEF Extraction!Conform
<1>3. Extraction!TypeOK' /\ Extraction!CallsSoFar'
  BY <1>1, <1>2 DEF Extraction!TypeOK, Extraction!CallsSoFar, Extraction!Outcome, Extraction!Reason, Extraction!ExtractionReason
<1>4. Extraction!CallsAreBounded'
  BY <1>1, <1>2 DEF Extraction!CallsAreBounded, Extraction!Transient
<1> QED BY <1>3, <1>4 DEF Extraction!ExtractionInv

LEMMA ExtractionStep == Extraction!ExtractionInv /\ [Extraction!Next]_(Extraction!extractionVars) => Extraction!ExtractionInv'
<1>1. Extraction!ExtractionInv /\ UNCHANGED Extraction!extractionVars => Extraction!ExtractionInv'
  BY DEF Extraction!extractionVars, Extraction!ExtractionInv, Extraction!TypeOK, Extraction!CallsSoFar,
         Extraction!CallsAreBounded, Extraction!Last
<1> QED BY <1>1, RequestsAreChecked, CallsAreMade, CallsAreSpaced, AnswersConform DEF Extraction!Next, Extraction!Rest

HIDE ExtractionAssumption DEF asked, step, attempts, spent, seen, outcome, events

-----------------------------------------------------------------------------
(* Schemas                                                                   *)

versions == v1
desk == v2
known == v3
queued == v4
executed == v5
saved == v6
stoppages == v7

USE SchemaAssumption DEF versions, desk, known, queued, executed, saved, stoppages

(* A finite set of numbers has a greatest one: the set of those above it     *)
(* cannot shrink any more.                                                   *)
LEMMA Greatest ==
  ASSUME NEW S \in SUBSET Nat, S # {}, IsFiniteSet(S)
  PROVE  \E x \in S : \A y \in S : x >= y
<1> DEFINE Above(x) == {y \in S : y > x}
           T == {Above(x) : x \in S}
<1>1. T \subseteq FiniteSubsetsOf(S) /\ T # {}
  <2>1. \A x \in S : Above(x) \in SUBSET S /\ IsFiniteSet(Above(x))
    BY FS_Subset
  <2> HIDE DEF Above
  <2> QED BY <2>1 DEF FiniteSubsetsOf
<1>2. PICK A \in T : \A B \in T : ~(<<B, A>> \in StrictSubsetOrdering(S))
  <2> HIDE DEF T
  <2> QED BY <1>1, FS_StrictSubsetOrderingWellFounded, WFMin
<1>3. PICK x \in S : A = Above(x)
  OBVIOUS
<1>4. ASSUME NEW y \in S, y > x PROVE FALSE
  <2>1. /\ \A z : z \in Above(y) <=> z \in S /\ z > y
        /\ \A z : z \in Above(x) <=> z \in S /\ z > x
    OBVIOUS
  <2>2. Above(y) \in T
    OBVIOUS
  <2> HIDE DEF Above
  <2>3. Above(y) \subseteq Above(x) /\ y \in Above(x) /\ y \notin Above(y)
    <3>1. x \in Nat /\ y \in Nat /\ S \subseteq Nat
      OBVIOUS
    <3>2. ASSUME NEW z \in Above(y) PROVE z \in Above(x)
      <4>1. z \in Nat /\ z > y /\ z \in S
        BY <2>1, <3>1
      <4>2. z > x
        BY <1>4, <3>1, <4>1
      <4> QED BY <2>1, <4>1, <4>2
    <3>3. ~(y > y)
      BY <3>1
    <3> QED BY <1>4, <2>1, <3>2, <3>3
  <2>4. Above(y) \in SUBSET S /\ Above(x) \in SUBSET S
    BY <2>1
  <2>5. <<Above(y), Above(x)>> \in StrictSubsetOrdering(S)
    BY <2>3, <2>4 DEF StrictSubsetOrdering
  <2> QED BY <1>2, <1>3, <2>2, <2>5
<1> QED BY <1>4
LEMMA LatestVersion ==
  ASSUME NEW S \in SUBSET (1 .. MaxVersion)
  PROVE  LET m == Schemas!Max(S \union {0}) IN m \in 0 .. MaxVersion /\ \A y \in S : m >= y
<1> DEFINE T == S \union {0}
<1>1. T \in SUBSET Nat /\ T # {} /\ T \subseteq 0 .. MaxVersion
  OBVIOUS
<1>2. IsFiniteSet(T)
  <2>1. IsFiniteSet(0 .. MaxVersion)
    BY FS_Interval
  <2> QED BY <1>1, <2>1, FS_Subset
<1>3. \E x \in T : \A y \in T : x >= y
  <2> HIDE DEF T
  <2> QED BY <1>1, <1>2, Greatest
<1>4. Schemas!Max(T) \in T /\ \A y \in T : Schemas!Max(T) >= y
  <2> HIDE DEF T
  <2> QED BY <1>3 DEF Schemas!Max
<1> QED BY <1>1, <1>4

LEMMA SchemaTypes ==
  ASSUME Schemas!SchemaInv
  PROVE  /\ Schemas!TypeOK
         /\ \A h \in Handler : desk[h].pc \in {"check", "read", "insert"} =>
              desk[h] \in Schemas!Request /\ \A i \in SchemaFiles : desk[h].seen[i] # None
         /\ Schemas!Merged \in Schemas!Registry /\ Schemas!FilesOnly \in Schemas!Registry
         /\ \A i \in SchemaFiles : Schemas!Merged[i] # None /\ Schemas!FilesOnly[i] # None
         /\ Schemas!Outage => stoppages' \in 0 .. MaxFaults
<1>1. Schemas!TypeOK
  BY DEF Schemas!SchemaInv
<1>2. ASSUME NEW h \in Handler, desk[h].pc \in {"check", "read", "insert"} PROVE desk[h] \in Schemas!Request
  <2>1. desk[h] \in {Schemas!Idle} \union Schemas!Request \union Schemas!Answer
    BY <1>1 DEF Schemas!TypeOK
  <2> QED BY <1>2, <2>1 DEF Schemas!Idle, Schemas!Answer
<1>3. /\ Schemas!FilesOnly \in Schemas!Registry
      /\ \A i \in SchemaFiles : Schemas!FilesOnly[i] # None
  BY DEF Schemas!FilesOnly, Schemas!Registry
<1>4. /\ Schemas!Merged \in Schemas!Registry
      /\ \A i \in SchemaFiles : Schemas!Merged[i] # None
  <2>1. versions \in [Schemas!Identity -> Draft \union {None}] /\ Schemas!FilesOnly \in [Schemas!Identity -> Draft \union {FileDraft, None}]
    BY <1>1, <1>3 DEF Schemas!TypeOK, Schemas!Registry
  <2> HIDE DEF Schemas!FilesOnly
  <2>2. \A i \in Schemas!Identity :
          /\ Schemas!Merged[i] = IF versions[i] # None THEN versions[i] ELSE Schemas!FilesOnly[i]
          /\ Schemas!Merged[i] \in Draft \union {FileDraft, None}
    BY <2>1 DEF Schemas!Merged
  <2>3. Schemas!Merged \in [Schemas!Identity -> Draft \union {FileDraft, None}]
    BY <2>2 DEF Schemas!Merged
  <2> QED BY <1>3, <2>2, <2>3 DEF Schemas!Registry
<1>5. Schemas!Outage => stoppages' \in 0 .. MaxFaults
  BY <1>1 DEF Schemas!TypeOK, Schemas!Outage
<1>6. \A h \in Handler : desk[h].pc \in {"check", "read", "insert"} => \A i \in SchemaFiles : desk[h].seen[i] # None
  BY DEF Schemas!SchemaInv, Schemas!RequestsAreInformed
<1> QED BY <1>1, <1>2, <1>3, <1>4, <1>5, <1>6

(* A request goes on, and what is saved stays.                               *)
LEMMA DeskRequestsGoOn ==
  ASSUME Schemas!SchemaInv, NEW h \in Handler, NEW r \in {Schemas!Idle} \union Schemas!Request \union Schemas!Answer,
         Schemas!Becomes(h, r),
         r.pc \in {"check", "read", "insert"} => \A i \in SchemaFiles : r.seen[i] # None,
         r.pc = "insert" => <<r.name, r.version>> \notin SchemaFiles,
         versions' = versions, known' = known, queued' = queued, executed' = executed, saved' = saved, stoppages' \in 0 .. MaxFaults
  PROVE  Schemas!SchemaInv'
<1>1. /\ desk' \in [Handler -> {Schemas!Idle} \union Schemas!Request \union Schemas!Answer]
      /\ \A g \in Handler : desk'[g] = IF g = h THEN r ELSE desk[g]
  BY SchemaTypes DEF Schemas!TypeOK, Schemas!Becomes
<1>2. Schemas!Merged' = Schemas!Merged
  BY DEF Schemas!Merged
<1>3. Schemas!TypeOK'
  BY <1>1, SchemaTypes DEF Schemas!TypeOK
<1>4. Schemas!RequestsAreInformed'
  BY <1>1 DEF Schemas!SchemaInv, Schemas!RequestsAreInformed
<1> QED BY <1>2, <1>3, <1>4 DEF Schemas!SchemaInv, Schemas!RowsAreBesideFiles, Schemas!RegistriesAgree,
        Schemas!QueuedAreNamed, Schemas!ExecutedAreNamed, Schemas!SavedAreKept

LEMMA DeskRequestsBegin ==
  ASSUME Schemas!SchemaInv, NEW h \in Handler,
         Schemas!Create(h) \/ Schemas!CheckName(h) \/ Schemas!ReadVersions(h)
  PROVE  Schemas!SchemaInv'
<1>1. versions' = versions /\ known' = known /\ queued' = queued /\ executed' = executed /\ saved' = saved /\ stoppages' \in 0 .. MaxFaults
  BY SchemaTypes DEF Schemas!Create, Schemas!CheckName, Schemas!ReadVersions, Schemas!Up, Schemas!TypeOK
<1>2. ASSUME NEW a \in {"created", "name_taken", "version_taken", "invalid", "unavailable"}, Schemas!Ends(h, a)
      PROVE  Schemas!SchemaInv'
  <2>1. [pc |-> a] \in Schemas!Answer
    BY DEF Schemas!Answer
  <2> QED BY <1>1, <1>2, <2>1, DeskRequestsGoOn DEF Schemas!Ends
<1>3. CASE Schemas!Create(h)
  <2>1. PICK name \in Name, draft \in Draft, base \in Schemas!Identity \union {None}, listing \in {Schemas!Merged, Schemas!FilesOnly} :
          Schemas!Open(h, name, draft, base, listing)
    BY <1>3 DEF Schemas!Create
  <2> DEFINE r == [pc |-> IF base = None THEN "check" ELSE "read", name |-> name, draft |-> draft,
                   base |-> base, seen |-> listing, version |-> 1, tries |-> 0]
  <2>2. CASE Schemas!Becomes(h, r)
    <3>1. listing \in Schemas!Registry /\ \A i \in SchemaFiles : listing[i] # None
      BY <2>1, SchemaTypes
    <3>2. r \in Schemas!Request
      BY <3>1 DEF Schemas!Request
    <3>3. r.pc # "insert" /\ r.seen = listing
      OBVIOUS
    <3> HIDE DEF r
    <3> QED BY <1>1, <2>2, <3>1, <3>2, <3>3, DeskRequestsGoOn
  <2> QED BY <1>2, <2>1, <2>2 DEF Schemas!Open
<1>4. CASE Schemas!CheckName(h)
  <2>1. desk[h] \in Schemas!Request /\ \A i \in SchemaFiles : desk[h].seen[i] # None
    BY <1>4, SchemaTypes DEF Schemas!CheckName
  <2> DEFINE r == [desk[h] EXCEPT !.pc = "read"]
  <2>2. r \in Schemas!Request /\ r.pc # "insert" /\ r.seen = desk[h].seen
    BY <2>1 DEF Schemas!Request
  <2>3. Schemas!Becomes(h, r) \/ Schemas!Ends(h, "name_taken") \/ Schemas!Ends(h, "unavailable")
    BY <1>4 DEF Schemas!CheckName
  <2> HIDE DEF r
  <2> QED BY <1>1, <1>2, <2>1, <2>2, <2>3, DeskRequestsGoOn
<1>5. CASE Schemas!ReadVersions(h)
  <2>1. desk[h] \in Schemas!Request /\ \A i \in SchemaFiles : desk[h].seen[i] # None
    BY <1>5, SchemaTypes DEF Schemas!ReadVersions
  <2> DEFINE latest == Schemas!Max(Schemas!Taken(desk[h]) \union {0})
             r == [desk[h] EXCEPT !.pc = "insert", !.version = latest + 1]
  <2>2. Schemas!Taken(desk[h]) \in SUBSET (1 .. MaxVersion)
    BY DEF Schemas!Taken, Schemas!Saved, Schemas!Identity
  <2>3. latest \in 0 .. MaxVersion /\ \A y \in Schemas!Taken(desk[h]) : latest >= y
    BY <2>2, LatestVersion
  <2>4. Schemas!Ends(h, "unavailable") \/ (Schemas!Becomes(h, r) /\ latest < MaxVersion)
    BY <1>5 DEF Schemas!ReadVersions
  <2>5. \A i \in SchemaFiles : i[1] = desk[h].name => i[2] \in Schemas!Taken(desk[h])
    BY <2>1 DEF Schemas!Taken
  <2> HIDE DEF latest
  <2>6. CASE Schemas!Becomes(h, r) /\ latest < MaxVersion
    <3>1. latest + 1 \in 1 .. MaxVersion
      BY <2>3, <2>6
    <3>2. r \in Schemas!Request /\ r.seen = desk[h].seen /\ r.name = desk[h].name /\ r.version = latest + 1
      BY <2>1, <3>1 DEF Schemas!Request
    <3>3. <<r.name, r.version>> \notin SchemaFiles
      <4>1. ASSUME <<r.name, r.version>> \in SchemaFiles PROVE FALSE
        <5>1. latest + 1 \in Schemas!Taken(desk[h])
          BY <2>5, <3>2, <4>1
        <5> QED BY <2>3, <5>1
      <4> QED BY <4>1
    <3> HIDE DEF r
    <3> QED BY <1>1, <2>1, <2>6, <3>2, <3>3, DeskRequestsGoOn
  <2> QED BY <1>2, <2>4, <2>6
<1> QED BY <1>3, <1>4, <1>5

(* A version is inserted where no row and no file is.                        *)
LEMMA VersionsAreInserted ==
  ASSUME Schemas!SchemaInv, NEW h \in Handler, Schemas!Insert(h) PROVE Schemas!SchemaInv'
<1> DEFINE r == desk[h]
           id == <<r.name, r.version>>
<1>1. /\ known' = known /\ queued' = queued /\ executed' = executed /\ stoppages' \in 0 .. MaxFaults /\ r.pc = "insert"
  BY SchemaTypes DEF Schemas!Insert, Schemas!Up, Schemas!TypeOK
<1>2. r \in Schemas!Request /\ (\A i \in SchemaFiles : r.seen[i] # None) /\ id \notin SchemaFiles
  BY <1>1, SchemaTypes DEF Schemas!SchemaInv, Schemas!RequestsAreInformed
<1>3. id \in Schemas!Identity /\ r.draft \in Draft
  BY <1>2 DEF Schemas!Request, Schemas!Identity
<1>4. ASSUME NEW a \in {"created", "name_taken", "version_taken", "invalid", "unavailable"}, Schemas!Ends(h, a),
             versions' = versions, saved' = saved
      PROVE  Schemas!SchemaInv'
  <2>1. [pc |-> a] \in Schemas!Answer
    BY DEF Schemas!Answer
  <2> QED BY <1>1, <1>4, <2>1, DeskRequestsGoOn DEF Schemas!Ends
<1>5. CASE Schemas!LostRace(h, r) /\ versions' = versions /\ saved' = saved
  <2> DEFINE q == [r EXCEPT !.pc = "read", !.tries = r.tries + 1]
  <2>1. CASE Schemas!Becomes(h, q) /\ r.tries # 2
    <3>1. r.tries + 1 \in 0 .. 2
      BY <1>2, <2>1 DEF Schemas!Request
    <3>2. q \in Schemas!Request /\ q.seen = r.seen /\ q.pc # "insert"
      BY <1>2, <3>1 DEF Schemas!Request
    <3> HIDE DEF q
    <3> QED BY <1>1, <1>2, <1>5, <2>1, <3>2, DeskRequestsGoOn
  <2>2. Schemas!Ends(h, "name_taken") \/ Schemas!Ends(h, "version_taken") \/ (Schemas!Becomes(h, q) /\ r.tries # 2)
    BY <1>2, <1>5 DEF Schemas!LostRace, Schemas!Request
  <2> QED BY <1>4, <1>5, <2>1, <2>2
<1>6. CASE Schemas!Inserts(id) /\ versions' = [versions EXCEPT ![id] = r.draft]
           /\ saved' = saved \union {[id |-> id, draft |-> r.draft, base |-> r.base]} /\ Schemas!Ends(h, "created")
  <2> DEFINE s == [id |-> id, draft |-> r.draft, base |-> r.base]
  <2>1. s \in [id: Schemas!Identity, draft: Draft, base: Schemas!Identity \union {None}] /\ s.id = id /\ s.draft = r.draft
    BY <1>2, <1>3 DEF Schemas!Request
  <2>2. /\ versions' \in [Schemas!Identity -> Draft \union {None}] /\ versions[id] = None
        /\ \A i \in Schemas!Identity : versions'[i] = IF i = id THEN r.draft ELSE versions[i]
    BY <1>3, <1>6, SchemaTypes DEF Schemas!Inserts, Schemas!TypeOK
  <2>3. /\ desk' \in [Handler -> {Schemas!Idle} \union Schemas!Request \union Schemas!Answer]
        /\ \A g \in Handler : desk'[g] = IF g = h THEN [pc |-> "created"] ELSE desk[g]
    BY <1>6, SchemaTypes DEF Schemas!TypeOK, Schemas!Ends, Schemas!Becomes, Schemas!Answer
  <2>4. /\ \A i \in Schemas!Identity : i # id => Schemas!Merged'[i] = Schemas!Merged[i]
        /\ Schemas!Merged[id] = None /\ Schemas!Merged'[id] = r.draft /\ r.draft # None
    BY <1>2, <1>3, <2>2 DEF Schemas!Merged, Schemas!FilesOnly
  <2>5. saved' = saved \union {s}
    BY <1>6
  <2> HIDE DEF s
  <2>6. Schemas!TypeOK'
    BY <1>1, <2>1, <2>2, <2>3, <2>5, SchemaTypes DEF Schemas!TypeOK
  <2>7. Schemas!RowsAreBesideFiles' /\ Schemas!RequestsAreInformed'
    BY <1>2, <2>2, <2>3 DEF Schemas!SchemaInv, Schemas!RowsAreBesideFiles, Schemas!RequestsAreInformed
  <2> HIDE DEF Schemas!Merged
  <2>8. Schemas!RegistriesAgree' /\ Schemas!QueuedAreNamed' /\ Schemas!ExecutedAreNamed'
    BY <1>1, <2>4, SchemaTypes DEF Schemas!SchemaInv, Schemas!RegistriesAgree, Schemas!QueuedAreNamed, Schemas!ExecutedAreNamed, Schemas!TypeOK
  <2>9. Schemas!SavedAreKept'
    <3>1. \A t \in saved : t.id \in Schemas!Identity /\ t.draft \in Draft /\ versions[t.id] = t.draft
      BY SchemaTypes DEF Schemas!SchemaInv, Schemas!SavedAreKept, Schemas!TypeOK
    <3> QED BY <2>1, <2>2, <2>5, <3>1 DEF Schemas!SavedAreKept
  <2> QED BY <2>6, <2>7, <2>8, <2>9 DEF Schemas!SchemaInv
<1> QED BY <1>4, <1>5, <1>6 DEF Schemas!Insert

(* Runs are admitted and executed by what is named.                          *)
LEMMA RunsAreServed ==
  ASSUME Schemas!SchemaInv,
         \/ \E i \in Schemas!Identity : Schemas!Admit(i)
         \/ \E w \in Worker : Schemas!Start(w) \/ \E i \in Schemas!Identity : Schemas!Execute(w, i)
  PROVE  Schemas!SchemaInv'
<1>1. /\ versions' = versions /\ desk' = desk /\ saved' = saved /\ stoppages' \in 0 .. MaxFaults /\ Schemas!Merged' = Schemas!Merged
  BY SchemaTypes DEF Schemas!Admit, Schemas!Start, Schemas!Execute, Schemas!Up, Schemas!TypeOK, Schemas!Merged
<1>2. Schemas!RowsAreBesideFiles' /\ Schemas!RequestsAreInformed' /\ Schemas!SavedAreKept'
  BY <1>1 DEF Schemas!SchemaInv, Schemas!RowsAreBesideFiles, Schemas!RequestsAreInformed, Schemas!SavedAreKept
<1>3. \A i \in Schemas!Identity : Schemas!FilesOnly[i] # None => Schemas!Merged[i] # None
  BY DEF Schemas!Merged
<1> HIDE DEF Schemas!Merged, Schemas!FilesOnly
<1>4. ASSUME NEW i \in Schemas!Identity, Schemas!Admit(i) PROVE Schemas!SchemaInv'
  <2>1. known' = known /\ executed' = executed /\ queued' = queued \union {i} /\ Schemas!Merged[i] # None
    BY <1>3, <1>4 DEF Schemas!Admit
  <2>2. Schemas!TypeOK'
    BY <1>1, <2>1, SchemaTypes DEF Schemas!TypeOK
  <2> QED BY <1>1, <1>2, <2>1, <2>2 DEF Schemas!SchemaInv, Schemas!RegistriesAgree, Schemas!QueuedAreNamed, Schemas!ExecutedAreNamed
<1>5. ASSUME NEW w \in Worker, NEW registry \in Schemas!Registry, known' = [known EXCEPT ![w] = registry],
             \A i \in Schemas!Identity : registry[i] # None => registry[i] = Schemas!Merged[i]
      PROVE  known' \in [Worker -> Schemas!Registry] /\ Schemas!RegistriesAgree'
  <2>1. /\ known' \in [Worker -> Schemas!Registry]
        /\ \A v \in Worker : known'[v] = IF v = w THEN registry ELSE known[v]
    BY <1>5, SchemaTypes DEF Schemas!TypeOK
  <2> QED BY <1>1, <1>5, <2>1 DEF Schemas!SchemaInv, Schemas!RegistriesAgree
<1>6. ASSUME NEW w \in Worker, Schemas!Start(w) PROVE Schemas!SchemaInv'
  <2> DEFINE nothing == [i \in Schemas!Identity |-> None]
  <2>1. nothing \in Schemas!Registry /\ \A i \in Schemas!Identity : nothing[i] = None
    BY DEF Schemas!Registry
  <2>2. queued' = queued /\ executed' = executed
        /\ (known' = [known EXCEPT ![w] = Schemas!Merged] \/ known' = [known EXCEPT ![w] = nothing])
    BY <1>6 DEF Schemas!Start
  <2> HIDE DEF nothing
  <2>3. known' \in [Worker -> Schemas!Registry] /\ Schemas!RegistriesAgree'
    BY <1>5, <2>1, <2>2, SchemaTypes
  <2>4. Schemas!TypeOK'
    BY <1>1, <2>2, <2>3, SchemaTypes DEF Schemas!TypeOK
  <2> QED BY <1>1, <1>2, <2>2, <2>3, <2>4 DEF Schemas!SchemaInv, Schemas!QueuedAreNamed, Schemas!ExecutedAreNamed
<1>7. ASSUME NEW w \in Worker, NEW i \in Schemas!Identity, Schemas!Execute(w, i) PROVE Schemas!SchemaInv'
  <2>1. PICK registry \in {known[w], Schemas!Merged} : Schemas!Runs(w, i, registry) /\ i \in queued /\ registry[i] # None
    BY <1>7 DEF Schemas!SchemaInv, Schemas!QueuedAreNamed, Schemas!Execute, Schemas!StrictReload
  <2>2. /\ registry \in Schemas!Registry
        /\ \A j \in Schemas!Identity : registry[j] # None => registry[j] = Schemas!Merged[j]
    BY SchemaTypes DEF Schemas!SchemaInv, Schemas!RegistriesAgree, Schemas!TypeOK
  <2> DEFINE e == [id |-> i, with |-> registry[i]]
  <2>3. e \in [id: Schemas!Identity, with: Draft \union {FileDraft, None}] /\ e.id = i /\ e.with = registry[i]
    BY <2>2 DEF Schemas!Registry
  <2>4. queued' = queued \ {i} /\ executed' = executed \union {e} /\ known' = [known EXCEPT ![w] = registry]
    BY <2>1 DEF Schemas!Runs
  <2> HIDE DEF e
  <2>5. known' \in [Worker -> Schemas!Registry] /\ Schemas!RegistriesAgree'
    BY <1>5, <2>2, <2>4
  <2>6. Schemas!TypeOK'
    BY <1>1, <2>3, <2>4, <2>5, SchemaTypes DEF Schemas!TypeOK
  <2>7. Schemas!QueuedAreNamed' /\ Schemas!ExecutedAreNamed'
    BY <1>1, <2>1, <2>2, <2>3, <2>4 DEF Schemas!SchemaInv, Schemas!QueuedAreNamed, Schemas!ExecutedAreNamed
  <2> QED BY <1>2, <2>5, <2>6, <2>7 DEF Schemas!SchemaInv
<1> QED BY <1>4, <1>6, <1>7

LEMMA SchemasStart == ASSUME Schemas!Init PROVE Schemas!SchemaInv
<1>1. Schemas!FilesOnly \in Schemas!Registry
  BY DEF Schemas!FilesOnly, Schemas!Registry
<1>2. Schemas!TypeOK
  <2> HIDE DEF Schemas!FilesOnly
  <2> QED BY <1>1 DEF Schemas!Init, Schemas!TypeOK
<1>3. \A i \in Schemas!Identity : versions[i] = None
  BY DEF Schemas!Init
<1>4. \A h \in Handler : desk[h].pc = "idle"
  BY DEF Schemas!Init, Schemas!Idle
<1>5. \A w \in Worker, i \in Schemas!Identity : known[w][i] = Schemas!Merged[i]
  BY <1>3 DEF Schemas!Init, Schemas!Merged, Schemas!FilesOnly
<1> QED BY <1>2, <1>3, <1>4, <1>5 DEF Schemas!Init, Schemas!SchemaInv, Schemas!RowsAreBesideFiles, Schemas!RequestsAreInformed,
        Schemas!RegistriesAgree, Schemas!QueuedAreNamed, Schemas!ExecutedAreNamed, Schemas!SavedAreKept

LEMMA SchemasStep == Schemas!SchemaInv /\ [Schemas!Next]_(Schemas!schemaVars) => Schemas!SchemaInv'
<1>1. ASSUME Schemas!SchemaInv, UNCHANGED Schemas!schemaVars PROVE Schemas!SchemaInv'
  BY <1>1 DEF Schemas!schemaVars, Schemas!SchemaInv, Schemas!TypeOK, Schemas!RowsAreBesideFiles, Schemas!RequestsAreInformed,
     Schemas!RegistriesAgree, Schemas!QueuedAreNamed, Schemas!ExecutedAreNamed, Schemas!SavedAreKept, Schemas!Merged
<1>2. ASSUME Schemas!SchemaInv, Schemas!Next PROVE Schemas!SchemaInv'
  BY <1>2, DeskRequestsBegin, VersionsAreInserted, RunsAreServed DEF Schemas!Next
<1> QED BY <1>1, <1>2

(* What the invariant says of the versions saved.                            *)
LEMMA SavedVersionsHold == Schemas!SchemaInv => Schemas!SavedVersionsServe
<1>1. ASSUME Schemas!SchemaInv, NEW e \in executed PROVE e.with # None /\ (versions[e.id] # None => e.with = versions[e.id])
  <2>1. e.id \in Schemas!Identity /\ e.with # None /\ e.with = Schemas!Merged[e.id]
    BY <1>1 DEF Schemas!SchemaInv, Schemas!ExecutedAreNamed, Schemas!TypeOK
  <2> QED BY <2>1 DEF Schemas!Merged
<1> QED BY <1>1 DEF Schemas!SavedVersionsServe, Schemas!SchemaInv, Schemas!SavedAreKept

HIDE SchemaAssumption DEF versions, desk, known, queued, executed, saved, stoppages

-----------------------------------------------------------------------------
(* The pipeline                                                              *)

stored == v1
going == v2
removed == v3
troubles == v4

USE PipelineAssumption DEF stored, going, removed, troubles

LEMMA StagesAre ==
  /\ Pipeline!Stages = {"parse", "extract", "ground", "validate"}
  /\ Pipeline!Following("parse") = "extract"
  /\ Pipeline!Following("extract") = "ground"
  /\ Pipeline!Following("ground") = "validate"
<1>1. Pipeline!Stage = <<"parse", "extract", "ground", "validate">> /\ DOMAIN Pipeline!Stage = 1 .. 4
  BY DEF Pipeline!Stage
<1>2. /\ Pipeline!Stage[1] = "parse" /\ Pipeline!Stage[2] = "extract"
      /\ Pipeline!Stage[3] = "ground" /\ Pipeline!Stage[4] = "validate"
  BY <1>1
<1>3. \A i \in 1 .. 4 : i = 1 \/ i = 2 \/ i = 3 \/ i = 4
  OBVIOUS
<1>4. Pipeline!Stages = {"parse", "extract", "ground", "validate"}
  <2>1. Pipeline!Stages = {Pipeline!Stage[i] : i \in 1 .. 4}
    BY <1>1 DEF Pipeline!Stages, Pipeline!Range
  <2> QED BY <1>2, <1>3, <2>1
<1>5. ASSUME NEW n \in 1 .. 3 PROVE Pipeline!Following(Pipeline!Stage[n]) = Pipeline!Stage[1 + n]
  <2>1. \A i \in 1 .. 3 : Pipeline!Stage[i] = Pipeline!Stage[n] <=> i = n
    BY <1>2
  <2>2. (CHOOSE i \in 1 .. 3 : Pipeline!Stage[i] = Pipeline!Stage[n]) = n
    BY <2>1
  <2> QED BY <2>2 DEF Pipeline!Following
<1> QED BY <1>2, <1>4, <1>5

LEMMA IdsAre ==
  /\ \A s \in Pipeline!Stages \union {"angles"}, m \in Model : Pipeline!Named(s, m) \in Pipeline!Id
  /\ \A m : \A s \in Pipeline!Stages \union {"angles"} : Pipeline!Named(s, m)[1] = s
  /\ \A m, n : Pipeline!Named("extract", m) = Pipeline!Named("extract", n) <=> m = n
  /\ \A m : Pipeline!Named("parse", m) = Pipeline!Named("parse", Asked)
BY DEF Pipeline!Id, Pipeline!Named

LEMMA SkippedStages ==
  ASSUME NEW S \in SUBSET Pipeline!Stages
  PROVE  Pipeline!Skipped(S) \in Seq(Pipeline!Stages \X {"executed", "reused", "skipped", "failed"})
<1>1. Pipeline!Cardinality(S) = Cardinality(S)
  BY DEF Pipeline!Cardinality, Cardinality
<1>2. Cardinality(S) \in 0 .. 4
  <2>1. ASSUME NEW A, NEW x, NEW k \in Nat, IsFiniteSet(A), Cardinality(A) \in 0 .. k
        PROVE  IsFiniteSet(A \union {x}) /\ Cardinality(A \union {x}) \in 0 .. k + 1
    <3>1. /\ IsFiniteSet(A \union {x})
          /\ Cardinality(A \union {x}) = IF x \in A THEN Cardinality(A) ELSE Cardinality(A) + 1
      BY <2>1, FS_AddElement
    <3>2. Cardinality(A) \in 0 .. k + 1 /\ Cardinality(A) + 1 \in 0 .. k + 1
      BY <2>1
    <3> QED BY <3>1, <3>2
  <2>2. IsFiniteSet({}) /\ Cardinality({}) \in 0 .. 0
    BY FS_EmptySet
  <2>3. Pipeline!Stages = ((({} \union {"parse"}) \union {"extract"}) \union {"ground"}) \union {"validate"}
    BY StagesAre
  <2> DEFINE one == {} \union {"parse"}
             two == one \union {"extract"}
             three == two \union {"ground"}
             four == three \union {"validate"}
  <2>4. IsFiniteSet(one) /\ Cardinality(one) \in 0 .. 1
    <3>1. IsFiniteSet(one) /\ Cardinality(one) \in 0 .. 0 + 1
      BY <2>1, <2>2
    <3> QED BY <3>1
  <2> HIDE DEF one
  <2>5. IsFiniteSet(two) /\ Cardinality(two) \in 0 .. 2
    <3>1. IsFiniteSet(two) /\ Cardinality(two) \in 0 .. 1 + 1
      BY <2>1, <2>4
    <3> QED BY <3>1
  <2> HIDE DEF two
  <2>6. IsFiniteSet(three) /\ Cardinality(three) \in 0 .. 3
    <3>1. IsFiniteSet(three) /\ Cardinality(three) \in 0 .. 2 + 1
      BY <2>1, <2>5
    <3> QED BY <3>1
  <2> HIDE DEF three
  <2>7. IsFiniteSet(four) /\ Cardinality(four) \in 0 .. 4
    <3>1. IsFiniteSet(four) /\ Cardinality(four) \in 0 .. 3 + 1
      BY <2>1, <2>6
    <3> QED BY <3>1
  <2>8. Pipeline!Stages = four
    BY <2>3 DEF one, two, three
  <2> HIDE DEF four
  <2> QED BY <2>7, <2>8, FS_Subset, FS_CardinalityType
<1> DEFINE n == Cardinality(S)
<1>3. \A i \in 1 .. n : Pipeline!Stage[4 - n + i] \in Pipeline!Stages
  <2>1. \A j \in 1 .. 4 : Pipeline!Stage[j] \in Pipeline!Stages
    BY StagesAre DEF Pipeline!Stage
  <2>2. \A i \in 1 .. n : 4 - n + i \in 1 .. 4
    BY <1>2
  <2> QED BY <2>1, <2>2
<1> HIDE DEF n
<1>4. Pipeline!Skipped(S) = [i \in 1 .. n |-> <<Pipeline!Stage[4 - n + i], "skipped">>]
  BY <1>1 DEF Pipeline!Skipped, n
<1>5. n \in Nat
  BY <1>2 DEF n
<1> DEFINE T == Pipeline!Stages \X {"executed", "reused", "skipped", "failed"}
           skip(i) == <<Pipeline!Stage[4 - n + i], "skipped">>
<1>6. \A i \in 1 .. n : skip(i) \in T
  BY <1>3
<1>7. Pipeline!Skipped(S) = [i \in 1 .. n |-> skip(i)]
  BY <1>4
<1> HIDE DEF T, skip
<1>8. Pipeline!Skipped(S) \in Seq(T)
  BY <1>5, <1>6, <1>7
<1> QED BY <1>8 DEF T

LEMMA ResultsAre ==
  /\ Pipeline!ResultOf("parse") = ParserReading /\ Pipeline!ResultOf("angles") = ParserReading
  /\ Pipeline!ResultOf("extract") = Pipeline!Extraction /\ Pipeline!ResultOf("ground") = Pipeline!Grounding
  /\ Pipeline!ResultOf("validate") = [of: Pipeline!Extraction, weighs: Pipeline!Grounding]
  /\ \A s \in Pipeline!Stages \union {"angles"} : Pipeline!ResultOf(s) \subseteq Pipeline!Result
<1>1. /\ Pipeline!ResultOf("parse") = ParserReading /\ Pipeline!ResultOf("angles") = ParserReading
      /\ Pipeline!ResultOf("extract") = Pipeline!Extraction /\ Pipeline!ResultOf("ground") = Pipeline!Grounding
      /\ Pipeline!ResultOf("validate") = [of: Pipeline!Extraction, weighs: Pipeline!Grounding]
  BY DEF Pipeline!ResultOf
<1> HIDE DEF Pipeline!ResultOf
<1> QED BY <1>1, StagesAre DEF Pipeline!Result

LEMMA EarlierStages ==
  /\ \A s \in Pipeline!Stages : s \notin Pipeline!Earlier(s) /\ Pipeline!Earlier(s) \subseteq Pipeline!Stages
  /\ \A s \in Pipeline!Stages \ {"validate"} :
       /\ Pipeline!Following(s) \in Pipeline!Stages \ {"parse"}
       /\ Pipeline!Earlier(Pipeline!Following(s)) = Pipeline!Earlier(s) \union {s}
  /\ Pipeline!Earlier("parse") = {} /\ Pipeline!Earlier("extract") = {"parse"}
  /\ Pipeline!Earlier("ground") = {"parse", "extract"} /\ Pipeline!Earlier("validate") = {"parse", "extract", "ground"}
<1>1. /\ Pipeline!Earlier("parse") = {} /\ Pipeline!Earlier("extract") = {"parse"}
      /\ Pipeline!Earlier("ground") = {"parse", "extract"} /\ Pipeline!Earlier("validate") = {"parse", "extract", "ground"}
  BY DEF Pipeline!Earlier
<1> QED BY <1>1, StagesAre

(* One run goes on, and what is filed stays or comes to it.                  *)
LEMMA RunsMove ==
  ASSUME Pipeline!PipelineInv, NEW a \in Handler, NEW run \in Pipeline!Run, Pipeline!Become(a, run),
         stored' \in [Pipeline!Id -> Pipeline!Result \union {None}],
         \A id \in Pipeline!Id : stored'[id] \in Pipeline!ResultOf(id[1]) \union {None},
         \A s \in Pipeline!Stages : run.made[s] \in Pipeline!ResultOf(s) \union {None},
         Pipeline!OnCourse(run) => Pipeline!InOrder(run),
         removed' = removed, troubles' \in 0 .. MaxFaults,
         removed = {} => \A id \in Pipeline!Id : stored[id] # None => stored'[id] = stored[id],
         Pipeline!StoreAgrees',
         removed = {} /\ Pipeline!OnCourse(run) /\ run.model = Asked =>
           /\ Pipeline!Chained(run.made)
           /\ ~run.degraded => \A s \in Pipeline!Settled(run) : run.made[s] = stored'[Pipeline!Named(s, Asked)]
  PROVE  Pipeline!PipelineInv'
<1>1. Pipeline!TypeOK
  BY DEF Pipeline!PipelineInv
<1>2. /\ going' \in [Handler -> Pipeline!Run \union {Pipeline!Idle}]
      /\ \A b \in Handler : going'[b] = IF b = a THEN run ELSE going[b]
  BY <1>1 DEF Pipeline!TypeOK, Pipeline!Become
<1>3. Pipeline!TypeOK'
  BY <1>1, <1>2 DEF Pipeline!TypeOK
<1>4. Pipeline!ResultsAreOfTheirStage'
  BY <1>2 DEF Pipeline!PipelineInv, Pipeline!ResultsAreOfTheirStage
<1>5. Pipeline!RunsAreInOrder'
  BY <1>2 DEF Pipeline!PipelineInv, Pipeline!RunsAreInOrder
<1>6. Pipeline!RunsAgree'
  <2> SUFFICES ASSUME removed = {}, NEW b \in Handler, Pipeline!OnCourse(going'[b]), going'[b].model = Asked
               PROVE  /\ Pipeline!Chained(going'[b].made)
                      /\ ~going'[b].degraded =>
                           \A s \in Pipeline!Settled(going'[b]) : going'[b].made[s] = stored'[Pipeline!Named(s, Asked)]
    BY DEF Pipeline!RunsAgree, Pipeline!Consistent
  <2>1. CASE b = a
    BY <1>2, <2>1
  <2>2. CASE b # a
    <3> DEFINE r == going[b]
    <3>1. going'[b] = r /\ Pipeline!OnCourse(r) /\ Pipeline!InOrder(r) /\ Pipeline!Consistent(r) /\ r \in Pipeline!Run
      BY <1>1, <1>2, <2>2 DEF Pipeline!PipelineInv, Pipeline!RunsAreInOrder, Pipeline!RunsAgree, Pipeline!OnCourse, Pipeline!TypeOK
    <3>2. r.stage \in Pipeline!Stages
      BY <3>1 DEF Pipeline!Run
    <3>3. ASSUME ~r.degraded, NEW s \in Pipeline!Settled(r) PROVE r.made[s] = stored'[Pipeline!Named(s, Asked)]
      <4>1. s \in Pipeline!Stages /\ s \in Pipeline!Made(r)
        BY <3>2, EarlierStages DEF Pipeline!Settled, Pipeline!Made
      <4>2. r.made[s] # None /\ r.made[s] = stored[Pipeline!Named(s, Asked)]
        BY <3>1, <3>3, <4>1 DEF Pipeline!InOrder, Pipeline!Consistent
      <4>3. Pipeline!Named(s, Asked) \in Pipeline!Id
        BY <4>1, IdsAre
      <4> QED BY <4>2, <4>3
    <3> QED BY <3>1, <3>3 DEF Pipeline!Consistent
  <2> QED BY <2>1, <2>2
<1> QED BY <1>3, <1>4, <1>5, <1>6 DEF Pipeline!PipelineInv

(* A run that only reads leaves what is filed alone.                         *)
LEMMA RunsRead ==
  ASSUME Pipeline!PipelineInv, NEW a \in Handler, NEW run \in Pipeline!Run, Pipeline!Become(a, run),
         stored' = stored, removed' = removed, troubles' \in 0 .. MaxFaults,
         \A s \in Pipeline!Stages : run.made[s] \in Pipeline!ResultOf(s) \union {None},
         Pipeline!OnCourse(run) => Pipeline!InOrder(run),
         removed = {} /\ Pipeline!OnCourse(run) /\ run.model = Asked => Pipeline!Consistent(run)
  PROVE  Pipeline!PipelineInv'
<1>1. Pipeline!StoreAgrees'
  BY DEF Pipeline!PipelineInv, Pipeline!StoreAgrees, Pipeline!Stored
<1>2. /\ stored' \in [Pipeline!Id -> Pipeline!Result \union {None}]
      /\ \A id \in Pipeline!Id : stored'[id] \in Pipeline!ResultOf(id[1]) \union {None}
  BY DEF Pipeline!PipelineInv, Pipeline!TypeOK, Pipeline!ResultsAreOfTheirStage
<1> QED BY <1>1, <1>2, RunsMove DEF Pipeline!Consistent

(* What a stage's passing makes of a run.                                    *)
LEMMA StagesPass ==
  ASSUME NEW run \in Pipeline!Run, NEW result, NEW status \in {"executed", "reused"},
         result \in Pipeline!ResultOf(run.stage), run.verdict = "running", run.mode = "ocr" => run.stage = "parse",
         run.stage = "parse" => run.model = Asked,
         \A s \in Pipeline!Stages : s # run.stage => (run.made[s] # None <=> s \in Pipeline!Earlier(run.stage)),
         \A s \in Pipeline!Stages : run.made[s] \in Pipeline!ResultOf(s) \union {None},
         NEW next, next = Pipeline!Passed(run, result, status)
  PROVE  /\ next \in Pipeline!Run /\ Pipeline!OnCourse(next) /\ Pipeline!InOrder(next)
         /\ next.model = run.model /\ next.degraded = run.degraded
         /\ \A s \in Pipeline!Stages : next.made[s] = IF s = run.stage THEN result ELSE run.made[s]
         /\ Pipeline!Settled(next) = Pipeline!Earlier(run.stage) \union {run.stage}
         /\ \A s \in Pipeline!Stages : next.made[s] \in Pipeline!ResultOf(s) \union {None}
<1> DEFINE outcomes == Append(run.outcomes, <<run.stage, status>>)
           made == [run.made EXCEPT ![run.stage] = result]
           now == [run EXCEPT !.made = made, !.outcomes = outcomes]
           over == [now EXCEPT !.doing = "over", !.verdict = "complete"]
           on == [now EXCEPT !.stage = Pipeline!Following(run.stage), !.doing = "boundary"]
           last == run.stage = "validate" \/ run.mode = "ocr"
<1>1. run.stage \in Pipeline!Stages /\ result \in Pipeline!Result /\ result # None
  <2>1. run.stage \in Pipeline!Stages
    BY DEF Pipeline!Run
  <2> QED BY <2>1, ResultsAre
<1>2. outcomes \in Seq(Pipeline!Stages \X {"executed", "reused", "skipped", "failed"})
  BY <1>1 DEF Pipeline!Run
<1>3. /\ made \in [Pipeline!Stages -> Pipeline!Result \union {None}]
      /\ \A s \in Pipeline!Stages : made[s] = IF s = run.stage THEN result ELSE run.made[s]
  BY <1>1 DEF Pipeline!Run
<1>4. next = IF last THEN over ELSE on
  BY DEF Pipeline!Passed
<1> HIDE DEF outcomes, made
<1>5. /\ now \in Pipeline!Run /\ now.made = made /\ now.stage = run.stage /\ now.mode = run.mode /\ now.model = run.model
      /\ now.degraded = run.degraded /\ now.verdict = "running"
  BY <1>2, <1>3 DEF Pipeline!Run
<1> HIDE DEF now
<1>6. /\ over \in Pipeline!Run /\ over.made = made /\ over.stage = run.stage /\ over.mode = run.mode /\ over.model = run.model
      /\ over.degraded = run.degraded /\ over.verdict = "complete" /\ over.doing = "over"
  BY <1>5 DEF Pipeline!Run, Pipeline!Verdict
<1>7. ASSUME ~last
      PROVE  /\ on \in Pipeline!Run /\ on.made = made /\ on.stage = Pipeline!Following(run.stage) /\ on.mode = run.mode
             /\ on.model = run.model /\ on.degraded = run.degraded /\ on.verdict = "running" /\ on.doing = "boundary"
             /\ run.stage # "validate" /\ run.mode # "ocr"
  <2>1. Pipeline!Following(run.stage) \in Pipeline!Stages
    BY <1>1, <1>7, EarlierStages
  <2> QED BY <1>5, <1>7, <2>1 DEF Pipeline!Run
<1> HIDE DEF over, on
<1>8. CASE last
  <2>1. next = over
    BY <1>4, <1>8
  <2>2. /\ Pipeline!Settled(next) = Pipeline!Earlier(run.stage) \union {run.stage}
        /\ Pipeline!Made(next) = Pipeline!Earlier(run.stage) \union {run.stage}
    BY <1>6, <2>1 DEF Pipeline!Settled, Pipeline!Made
  <2>3. Pipeline!InOrder(next)
    <3>1. \A s \in Pipeline!Stages : next.made[s] # None <=> s \in Pipeline!Made(next)
      BY <1>1, <1>3, <1>6, <2>1, <2>2
    <3>2. "extract" \notin Pipeline!Made(next) => next.model = Asked
      BY <1>1, <1>6, <2>1, <2>2, StagesAre, EarlierStages
    <3> QED BY <1>6, <1>8, <2>1, <3>1, <3>2 DEF Pipeline!InOrder
  <2>4. Pipeline!OnCourse(next)
    BY <1>6, <2>1 DEF Pipeline!OnCourse, Pipeline!Idle
  <2>5. \A s \in Pipeline!Stages : next.made[s] = IF s = run.stage THEN result ELSE run.made[s]
    BY <1>3, <1>6, <2>1
  <2>6. \A s \in Pipeline!Stages : next.made[s] \in Pipeline!ResultOf(s) \union {None}
    BY <2>5
  <2>7. next \in Pipeline!Run /\ next.model = run.model /\ next.degraded = run.degraded
    BY <1>6, <2>1
  <2> QED BY <2>2, <2>3, <2>4, <2>5, <2>6, <2>7
<1>9. CASE ~last
  <2>1. next = on
    BY <1>4, <1>9
  <2>2. /\ Pipeline!Settled(next) = Pipeline!Earlier(run.stage) \union {run.stage}
        /\ Pipeline!Made(next) = Pipeline!Earlier(run.stage) \union {run.stage}
    BY <1>1, <1>7, <1>9, <2>1, EarlierStages DEF Pipeline!Settled, Pipeline!Made
  <2>3. Pipeline!InOrder(next)
    <3>1. \A s \in Pipeline!Stages : next.made[s] # None <=> s \in Pipeline!Made(next)
      BY <1>1, <1>3, <1>7, <1>9, <2>1, <2>2
    <3>2. "extract" \notin Pipeline!Made(next) => next.model = Asked
      BY <1>1, <1>7, <1>9, <2>1, <2>2, StagesAre, EarlierStages
    <3> QED BY <1>7, <1>9, <2>1, <3>1, <3>2 DEF Pipeline!InOrder
  <2>4. Pipeline!OnCourse(next)
    BY <1>7, <1>9, <2>1 DEF Pipeline!OnCourse, Pipeline!Idle
  <2>5. \A s \in Pipeline!Stages : next.made[s] = IF s = run.stage THEN result ELSE run.made[s]
    BY <1>3, <1>7, <1>9, <2>1
  <2>6. \A s \in Pipeline!Stages : next.made[s] \in Pipeline!ResultOf(s) \union {None}
    BY <2>5
  <2>7. next \in Pipeline!Run /\ next.model = run.model /\ next.degraded = run.degraded
    BY <1>7, <1>9, <2>1
  <2> QED BY <2>2, <2>3, <2>4, <2>5, <2>6, <2>7
<1> QED BY <1>8, <1>9

(* A run that is neither waiting to begin nor over.                          *)
LEMMA RunUnderWay ==
  ASSUME Pipeline!PipelineInv, NEW a \in Handler, NEW run, run = going[a], run.doing \in {"boundary", "work", "file", "angles"}
  PROVE  /\ run \in Pipeline!Run /\ run.stage \in Pipeline!Stages /\ run.model \in Model /\ run.degraded \in BOOLEAN
         /\ Pipeline!OnCourse(run) /\ Pipeline!InOrder(run) /\ run.verdict = "running"
         /\ \A s \in Pipeline!Stages : run.made[s] \in Pipeline!ResultOf(s) \union {None}
         /\ removed = {} /\ run.model = Asked => Pipeline!Consistent(run)
<1>1. run \in Pipeline!Run \union {Pipeline!Idle} /\ run # Pipeline!Idle
  <2>1. Pipeline!Idle.doing = "idle"
    BY DEF Pipeline!Idle
  <2> QED BY <2>1 DEF Pipeline!PipelineInv, Pipeline!TypeOK
<1>2. run \in Pipeline!Run /\ run.stage \in Pipeline!Stages /\ run.model \in Model /\ run.degraded \in BOOLEAN
  BY <1>1 DEF Pipeline!Run
<1>3. Pipeline!OnCourse(run)
  BY <1>1 DEF Pipeline!OnCourse
<1>4. Pipeline!InOrder(run) /\ run.verdict = "running"
  BY <1>3 DEF Pipeline!PipelineInv, Pipeline!RunsAreInOrder, Pipeline!InOrder
<1> QED BY <1>1, <1>2, <1>3, <1>4 DEF Pipeline!PipelineInv, Pipeline!ResultsAreOfTheirStage, Pipeline!RunsAgree

(* A run ends without its document.                                          *)
LEMMA RunStops ==
  ASSUME Pipeline!PipelineInv, NEW a \in Handler, NEW run, run = going[a], run.doing \in {"boundary", "work", "file", "angles"},
         NEW next \in Pipeline!Run, Pipeline!Become(a, next), next.made = run.made, next.doing = "over", next.verdict # "complete",
         stored' = stored, removed' = removed, troubles' \in 0 .. MaxFaults
  PROVE  Pipeline!PipelineInv'
<1>1. ~Pipeline!OnCourse(next)
  BY DEF Pipeline!OnCourse
<1>2. \A s \in Pipeline!Stages : next.made[s] \in Pipeline!ResultOf(s) \union {None}
  BY RunUnderWay
<1> QED BY <1>1, <1>2, RunsRead

LEMMA FaultsAreBounded ==
  ASSUME Pipeline!PipelineInv, Pipeline!Fault \/ Pipeline!NoFault
  PROVE  troubles' \in 0 .. MaxFaults
BY DEF Pipeline!PipelineInv, Pipeline!TypeOK, Pipeline!Fault, Pipeline!NoFault

LEMMA PipelineBegins ==
  ASSUME Pipeline!PipelineInv, NEW a \in Handler, Pipeline!Begin(a) PROVE Pipeline!PipelineInv'
<1>1. PICK mode \in Mode : going' = [going EXCEPT ![a] = Pipeline!Begun(mode)]
  BY DEF Pipeline!Begin
<1> DEFINE run == Pipeline!Begun(mode)
<1>2. /\ run.stage = "parse" /\ run.doing = "boundary" /\ run.verdict = "running" /\ run.model = Asked
      /\ run.made = [s \in Pipeline!Stages |-> None]
  BY DEF Pipeline!Begun
<1>3. run \in Pipeline!Run
  BY StagesAre DEF Pipeline!Begun, Pipeline!Run, Pipeline!Verdict
<1> HIDE DEF run
<1>4. Pipeline!Settled(run) = {} /\ Pipeline!Made(run) = {}
  BY <1>2, EarlierStages DEF Pipeline!Settled, Pipeline!Made
<1>5. \A s \in Pipeline!Stages : run.made[s] = None
  BY <1>2
<1>6. Pipeline!InOrder(run)
  BY <1>2, <1>4, <1>5 DEF Pipeline!InOrder
<1>7. Pipeline!Consistent(run)
  BY <1>4, <1>5, StagesAre DEF Pipeline!Consistent, Pipeline!Chained
<1>8. Pipeline!Become(a, run) /\ stored' = stored /\ removed' = removed /\ troubles' = troubles
  BY <1>1 DEF run, Pipeline!Become, Pipeline!Begin
<1>9. troubles' \in 0 .. MaxFaults
  BY <1>8 DEF Pipeline!PipelineInv, Pipeline!TypeOK
<1> QED BY <1>3, <1>5, <1>6, <1>7, <1>8, <1>9, RunsRead

LEMMA PipelineStops ==
  ASSUME Pipeline!PipelineInv, NEW a \in Handler, Pipeline!StopAtBoundary(a) PROVE Pipeline!PipelineInv'
<1> DEFINE run == going[a]
           S == {run.stage} \union Pipeline!Later(run.stage)
           outcomes == run.outcomes \o Pipeline!Skipped(S)
           next == [run EXCEPT !.doing = "over", !.verdict = "cancelled", !.outcomes = outcomes]
<1>1. /\ run.doing = "boundary" /\ Pipeline!Become(a, next) /\ stored' = stored /\ removed' = removed
      /\ Pipeline!Fault
  BY DEF Pipeline!StopAtBoundary
<1>2. run \in Pipeline!Run /\ run.stage \in Pipeline!Stages
  BY <1>1, RunUnderWay
<1>3. S \in SUBSET Pipeline!Stages
  <2>1. \A i \in 1 .. 4 : Pipeline!Stage[i] \in Pipeline!Stages
    BY StagesAre DEF Pipeline!Stage
  <2> QED BY <1>2, <2>1 DEF Pipeline!Later
<1> HIDE DEF S
<1>4. outcomes \in Seq(Pipeline!Stages \X {"executed", "reused", "skipped", "failed"})
  BY <1>2, <1>3, SkippedStages DEF Pipeline!Run
<1> HIDE DEF outcomes
<1>5. next \in Pipeline!Run /\ next.made = run.made /\ next.doing = "over" /\ next.verdict = "cancelled"
  BY <1>2, <1>4 DEF Pipeline!Run, Pipeline!Verdict
<1> HIDE DEF next
<1> QED BY <1>1, <1>5, RunStops, FaultsAreBounded

LEMMA PipelineFails ==
  ASSUME Pipeline!PipelineInv, NEW a \in Handler, Pipeline!FailStage(a) PROVE Pipeline!PipelineInv'
<1> DEFINE run == going[a]
<1>1. /\ run.doing = "work" /\ stored' = stored /\ removed' = removed /\ Pipeline!Fault
  BY DEF Pipeline!FailStage
<1>2. run \in Pipeline!Run /\ run.stage \in Pipeline!Stages
  BY <1>1, RunUnderWay
<1>3. PICK blamed \in Pipeline!Raises(run.stage) :
        Pipeline!Become(a, [run EXCEPT !.doing = "over", !.verdict = "failed", !.failed = run.stage, !.blamed = blamed,
                              !.outcomes = run.outcomes \o <<<<blamed, "failed">>>> \o Pipeline!Skipped(Pipeline!Later(blamed))])
  BY <1>2 DEF Pipeline!FailStage, Pipeline!Run
<1>4. blamed \in Pipeline!Stages
  BY <1>2, StagesAre DEF Pipeline!Raises, Pipeline!Layer
<1>5. Pipeline!Later(blamed) \in SUBSET Pipeline!Stages
  <2>1. \A i \in 1 .. 4 : Pipeline!Stage[i] \in Pipeline!Stages
    BY StagesAre DEF Pipeline!Stage
  <2> QED BY <2>1 DEF Pipeline!Later
<1> DEFINE outcomes == run.outcomes \o <<<<blamed, "failed">>>> \o Pipeline!Skipped(Pipeline!Later(blamed))
           next == [run EXCEPT !.doing = "over", !.verdict = "failed", !.failed = run.stage, !.blamed = blamed,
                      !.outcomes = outcomes]
<1>6. outcomes \in Seq(Pipeline!Stages \X {"executed", "reused", "skipped", "failed"})
  <2>1. /\ Pipeline!Skipped(Pipeline!Later(blamed)) \in Seq(Pipeline!Stages \X {"executed", "reused", "skipped", "failed"})
        /\ run.outcomes \in Seq(Pipeline!Stages \X {"executed", "reused", "skipped", "failed"})
        /\ <<<<blamed, "failed">>>> \in Seq(Pipeline!Stages \X {"executed", "reused", "skipped", "failed"})
    BY <1>2, <1>4, <1>5, SkippedStages DEF Pipeline!Run
  <2> HIDE DEF run
  <2> QED BY <2>1
<1>7. Pipeline!Become(a, next)
  BY <1>3
<1> HIDE DEF outcomes
<1>8. next \in Pipeline!Run /\ next.made = run.made /\ next.doing = "over" /\ next.verdict = "failed"
  BY <1>2, <1>4, <1>6 DEF Pipeline!Run, Pipeline!Verdict
<1> HIDE DEF next
<1> QED BY <1>1, <1>7, <1>8, RunStops, FaultsAreBounded

(* A chain is four results.                                                  *)
LEMMA ChainsAre ==
  ASSUME NEW f, NEW g, \A s \in Pipeline!Stages : f[s] = g[s], Pipeline!Chained(f)
  PROVE  Pipeline!Chained(g)
BY StagesAre DEF Pipeline!Chained

(* A run goes to work on its stage, or gives its store up.                   *)
LEMMA RunsTurn ==
  ASSUME Pipeline!PipelineInv, NEW a \in Handler, NEW run, run = going[a], run.doing = "boundary",
         NEW next \in Pipeline!Run, Pipeline!Become(a, next), next.doing = "work", next.made = run.made, next.stage = run.stage,
         next.mode = run.mode, next.model = run.model, next.verdict = run.verdict, next.degraded \in {run.degraded, TRUE},
         stored' = stored, removed' = removed, troubles' \in 0 .. MaxFaults
  PROVE  Pipeline!PipelineInv'
<1>1. /\ Pipeline!InOrder(run) /\ run.verdict = "running" /\ run.degraded \in BOOLEAN
      /\ \A s \in Pipeline!Stages : run.made[s] \in Pipeline!ResultOf(s) \union {None}
      /\ removed = {} /\ run.model = Asked => Pipeline!Consistent(run)
  BY RunUnderWay
<1>2. Pipeline!Settled(next) = Pipeline!Settled(run) /\ Pipeline!Made(next) = Pipeline!Made(run)
  BY <1>1 DEF Pipeline!Settled, Pipeline!Made
<1>3. Pipeline!InOrder(next)
  BY <1>1, <1>2 DEF Pipeline!InOrder
<1>4. Pipeline!Consistent(run) => Pipeline!Consistent(next)
  BY <1>1, <1>2 DEF Pipeline!Consistent
<1>5. \A s \in Pipeline!Stages : next.made[s] \in Pipeline!ResultOf(s) \union {None}
  BY <1>1
<1> QED BY <1>1, <1>3, <1>4, <1>5, RunsRead

(* A stage is not run again: what its id names is what the run has of it.    *)
LEMMA RunsReuse ==
  ASSUME Pipeline!PipelineInv, NEW a \in Handler, NEW run, run = going[a], run.doing = "boundary", ~run.degraded,
         NEW found, found = stored[Pipeline!Expected(run)], found # None,
         Pipeline!Become(a, Pipeline!Passed(Pipeline!Answered(run, found), found, "reused")),
         stored' = stored, removed' = removed, troubles' \in 0 .. MaxFaults
  PROVE  Pipeline!PipelineInv'
<1> DEFINE answered == Pipeline!Answered(run, found)
           next == Pipeline!Passed(answered, found, "reused")
<1>1. /\ run \in Pipeline!Run /\ run.stage \in Pipeline!Stages /\ run.model \in Model
      /\ Pipeline!InOrder(run) /\ run.verdict = "running"
      /\ \A s \in Pipeline!Stages : run.made[s] \in Pipeline!ResultOf(s) \union {None}
      /\ removed = {} /\ run.model = Asked => Pipeline!Consistent(run)
  BY RunUnderWay
<1>2. found \in Pipeline!ResultOf(run.stage)
  <2>1. Pipeline!Expected(run) \in Pipeline!Id /\ Pipeline!Expected(run)[1] = run.stage
    BY <1>1, IdsAre DEF Pipeline!Expected
  <2> QED BY <2>1 DEF Pipeline!PipelineInv, Pipeline!ResultsAreOfTheirStage
<1>3. ASSUME run.stage = "extract" PROVE found.by \in Model
  <2>1. found \in Pipeline!Extraction
    BY <1>2, <1>3, ResultsAre
  <2> QED BY <2>1 DEF Pipeline!Extraction
<1>4. /\ answered \in Pipeline!Run /\ answered.made = run.made /\ answered.stage = run.stage /\ answered.mode = run.mode
      /\ answered.verdict = run.verdict /\ answered.degraded = run.degraded /\ answered.doing = run.doing
      /\ answered.model = IF run.stage = "extract" THEN found.by ELSE run.model
  BY <1>1, <1>3 DEF Pipeline!Answered, Pipeline!Run
<1> HIDE DEF answered
<1>5. /\ run.mode = "ocr" => run.stage = "parse"
      /\ run.stage \in {"parse", "extract"} => run.model = Asked
      /\ \A s \in Pipeline!Stages : run.made[s] # None <=> s \in Pipeline!Earlier(run.stage)
      /\ Pipeline!Settled(run) = Pipeline!Earlier(run.stage)
  BY <1>1, EarlierStages DEF Pipeline!InOrder, Pipeline!Made, Pipeline!Settled
<1>6. /\ next \in Pipeline!Run /\ Pipeline!OnCourse(next) /\ Pipeline!InOrder(next)
      /\ next.model = answered.model /\ next.degraded = run.degraded
      /\ \A s \in Pipeline!Stages : next.made[s] = IF s = run.stage THEN found ELSE run.made[s]
      /\ Pipeline!Settled(next) = Pipeline!Earlier(run.stage) \union {run.stage}
      /\ \A s \in Pipeline!Stages : next.made[s] \in Pipeline!ResultOf(s) \union {None}
  <2>1. answered.stage = "parse" => answered.model = Asked
    BY <1>4, <1>5
  <2> QED BY <1>1, <1>2, <1>4, <1>5, <2>1, StagesPass
<1> HIDE DEF next
<1>7. ASSUME removed = {}, next.model = Asked PROVE Pipeline!Consistent(next)
  <2>1. run.model = Asked
    BY <1>4, <1>5, <1>6, <1>7
  <2>2. Pipeline!Chained(run.made) /\ \A s \in Pipeline!Earlier(run.stage) : run.made[s] = stored[Pipeline!Named(s, Asked)]
    BY <1>1, <1>5, <1>7, <2>1 DEF Pipeline!Consistent
  <2>3. found = stored[Pipeline!Named(run.stage, Asked)]
    BY <2>1 DEF Pipeline!Expected
  <2>4. \A s \in Pipeline!Settled(next) : next.made[s] = stored[Pipeline!Named(s, Asked)]
    BY <1>1, <1>6, <2>2, <2>3, EarlierStages
  <2>5. /\ \A s \in Pipeline!Stages : s \in Pipeline!Settled(next) => next.made[s] = Pipeline!Stored[s]
        /\ \A s \in Pipeline!Stages : s \notin Pipeline!Settled(next) => next.made[s] = None
    BY <1>5, <1>6, <2>4 DEF Pipeline!Stored
  <2>6. Pipeline!Chained(Pipeline!Stored)
    BY <1>7 DEF Pipeline!PipelineInv, Pipeline!StoreAgrees
  <2>7. Pipeline!Chained(next.made)
    BY <1>1, <1>6, <2>5, <2>6, StagesAre, EarlierStages DEF Pipeline!Chained
  <2> QED BY <2>4, <2>7 DEF Pipeline!Consistent
<1> QED BY <1>6, <1>7, RunsRead DEF next, answered

LEMMA PipelineLooks ==
  ASSUME Pipeline!PipelineInv, NEW a \in Handler, Pipeline!Look(a) PROVE Pipeline!PipelineInv'
<1> DEFINE run == going[a]
           found == stored[Pipeline!Expected(run)]
           work == [run EXCEPT !.doing = "work"]
<1>1. run.doing = "boundary" /\ stored' = stored /\ removed' = removed
  BY DEF Pipeline!Look
<1>2. run \in Pipeline!Run /\ run.verdict = "running" /\ run.degraded \in BOOLEAN
  BY <1>1, RunUnderWay
<1>3. troubles' \in 0 .. MaxFaults
  BY FaultsAreBounded DEF Pipeline!Look
<1>4. /\ work \in Pipeline!Run /\ work.doing = "work" /\ work.made = run.made /\ work.stage = run.stage
      /\ work.mode = run.mode /\ work.model = run.model /\ work.verdict = run.verdict /\ work.degraded = run.degraded
  BY <1>2 DEF Pipeline!Run
<1>5. CASE Pipeline!Become(a, work)
  BY <1>1, <1>3, <1>4, <1>5, RunsTurn
<1>6. CASE Pipeline!Become(a, Pipeline!Degraded(work))
  <2> DEFINE next == Pipeline!Degraded(work)
  <2>1. /\ next \in Pipeline!Run /\ next.doing = "work" /\ next.made = run.made /\ next.stage = run.stage
        /\ next.mode = run.mode /\ next.model = run.model /\ next.verdict = run.verdict /\ next.degraded = TRUE
    BY <1>2, <1>4 DEF Pipeline!Degraded, Pipeline!Run
  <2> HIDE DEF next
  <2>2. Pipeline!Become(a, next)
    BY <1>6 DEF next
  <2> QED BY <1>1, <1>3, <2>1, <2>2, RunsTurn
<1>7. CASE Pipeline!Become(a, Pipeline!Raised(run))
  <2> DEFINE next == Pipeline!Raised(run)
  <2>1. next \in Pipeline!Run /\ next.made = run.made /\ next.doing = "over" /\ next.verdict = "raised"
    BY <1>2 DEF Pipeline!Raised, Pipeline!Run, Pipeline!Verdict
  <2> HIDE DEF next
  <2>2. Pipeline!Become(a, next)
    BY <1>7 DEF next
  <2> QED BY <1>1, <1>3, <2>1, <2>2, RunStops
<1>8. CASE ~run.degraded /\ found # None /\ Pipeline!Become(a, Pipeline!Passed(Pipeline!Answered(run, found), found, "reused"))
  BY <1>1, <1>3, <1>8, RunsReuse
<1> QED BY <1>5, <1>6, <1>7, <1>8 DEF Pipeline!Look

LEMMA PipelineExecutes ==
  ASSUME Pipeline!PipelineInv, NEW a \in Handler, Pipeline!Execute(a) PROVE Pipeline!PipelineInv'
<1> DEFINE run == going[a]
<1>1. run.doing = "work" /\ stored' = stored /\ removed' = removed /\ troubles' = troubles
  BY DEF Pipeline!Execute
<1>2. /\ run \in Pipeline!Run /\ run.stage \in Pipeline!Stages /\ run.model \in Model
      /\ Pipeline!InOrder(run) /\ run.verdict = "running"
      /\ \A s \in Pipeline!Stages : run.made[s] \in Pipeline!ResultOf(s) \union {None}
      /\ removed = {} /\ run.model = Asked => Pipeline!Consistent(run)
  BY <1>1, RunUnderWay
<1>3. PICK out \in Pipeline!Outputs(run) :
        Pipeline!Become(a, [Pipeline!Answered(run, out) EXCEPT !.doing = "file", !.made[run.stage] = out])
  BY DEF Pipeline!Execute
<1>4. /\ run.mode = "ocr" => run.stage = "parse"
      /\ run.stage \in {"parse", "extract"} => run.model = Asked
      /\ \A s \in Pipeline!Stages : run.made[s] # None <=> s \in Pipeline!Earlier(run.stage)
      /\ Pipeline!Settled(run) = Pipeline!Earlier(run.stage)
  BY <1>1, <1>2, EarlierStages DEF Pipeline!InOrder, Pipeline!Made, Pipeline!Settled
<1>5. /\ out \in Pipeline!ResultOf(run.stage)
      /\ run.stage = "extract" => out.of = run.made["parse"] /\ out.by \in Model
      /\ run.stage = "ground" => out = Pipeline!Grounded(run.made["parse"], run.made["extract"])
      /\ run.stage = "validate" => out = Pipeline!Validated(run.made["extract"], run.made["ground"])
  <2> HIDE DEF run
  <2>1. CASE run.stage = "parse"
    BY <2>1, ResultsAre DEF Pipeline!Outputs
  <2>2. CASE run.stage = "extract"
    <3>1. run.made["parse"] \in ParserReading
      BY <1>2, <1>4, <2>2, StagesAre, EarlierStages, ResultsAre
    <3>2. PICK reply \in ModelReply, model \in Model : out = Pipeline!Extracted(run.made["parse"], reply, model)
      BY <1>3, <2>2 DEF Pipeline!Outputs
    <3>3. out \in Pipeline!Extraction /\ out.of = run.made["parse"] /\ out.by \in Model
      BY <3>1, <3>2 DEF Pipeline!Extraction, Pipeline!Extracted
    <3> QED BY <2>2, <3>3, ResultsAre
  <2>3. CASE run.stage = "ground"
    <3>1. run.made["parse"] \in ParserReading /\ run.made["extract"] \in Pipeline!Extraction
      BY <1>2, <1>4, <2>3, StagesAre, EarlierStages, ResultsAre
    <3>2. out = Pipeline!Grounded(run.made["parse"], run.made["extract"])
      BY <1>3, <2>3 DEF Pipeline!Outputs
    <3>3. out \in Pipeline!Grounding
      BY <3>1, <3>2 DEF Pipeline!Grounding, Pipeline!Grounded
    <3> QED BY <2>3, <3>2, <3>3, ResultsAre
  <2>4. CASE run.stage = "validate"
    <3>1. run.made["extract"] \in Pipeline!Extraction /\ run.made["ground"] \in Pipeline!Grounding
      BY <1>2, <1>4, <2>4, StagesAre, EarlierStages, ResultsAre
    <3>2. out = Pipeline!Validated(run.made["extract"], run.made["ground"])
      BY <1>3, <2>4 DEF Pipeline!Outputs
    <3>3. out \in [of: Pipeline!Extraction, weighs: Pipeline!Grounding]
      BY <3>1, <3>2 DEF Pipeline!Validated
    <3> QED BY <2>4, <3>2, <3>3, ResultsAre
  <2> QED BY <1>2, <2>1, <2>2, <2>3, <2>4, StagesAre
<1>6. out \in Pipeline!Result /\ out # None
  BY <1>2, <1>5, ResultsAre
<1> DEFINE answered == Pipeline!Answered(run, out)
           made == [run.made EXCEPT ![run.stage] = out]
           next == [answered EXCEPT !.doing = "file", !.made[run.stage] = out]
<1>7. /\ answered \in Pipeline!Run /\ answered.made = run.made /\ answered.stage = run.stage /\ answered.mode = run.mode
      /\ answered.verdict = run.verdict /\ answered.degraded = run.degraded
      /\ answered.model = IF run.stage = "extract" THEN out.by ELSE run.model
  BY <1>2, <1>5 DEF Pipeline!Answered, Pipeline!Run
<1>8. /\ made \in [Pipeline!Stages -> Pipeline!Result \union {None}]
      /\ \A s \in Pipeline!Stages : made[s] = IF s = run.stage THEN out ELSE run.made[s]
  BY <1>2, <1>6 DEF Pipeline!Run
<1>9. next = [answered EXCEPT !.doing = "file", !.made = made]
  BY <1>7 DEF Pipeline!Run
<1> HIDE DEF answered, made
<1>10. /\ next \in Pipeline!Run /\ next.made = made /\ next.stage = run.stage /\ next.mode = run.mode /\ next.doing = "file"
       /\ next.verdict = "running" /\ next.degraded = run.degraded /\ next.model = answered.model
  <2> HIDE DEF next
  <2> QED BY <1>2, <1>7, <1>8, <1>9 DEF Pipeline!Run
<1> HIDE DEF next
<1>11. /\ Pipeline!Settled(next) = Pipeline!Earlier(run.stage)
       /\ Pipeline!Made(next) = Pipeline!Earlier(run.stage) \union {run.stage}
  BY <1>10 DEF Pipeline!Settled, Pipeline!Made
<1>12. Pipeline!InOrder(next)
  <2>1. \A s \in Pipeline!Stages : next.made[s] # None <=> s \in Pipeline!Made(next)
    BY <1>4, <1>6, <1>8, <1>10, <1>11
  <2>2. "extract" \notin Pipeline!Made(next) => next.model = Asked
    BY <1>2, <1>4, <1>7, <1>10, <1>11, StagesAre, EarlierStages
  <2> QED BY <1>4, <1>10, <2>1, <2>2 DEF Pipeline!InOrder
<1>13. ASSUME removed = {}, next.model = Asked PROVE Pipeline!Consistent(next)
  <2>1. run.model = Asked
    BY <1>4, <1>7, <1>10, <1>13
  <2>2. Pipeline!Consistent(run)
    BY <1>2, <1>13, <2>1
  <2>3. \A s \in Pipeline!Settled(next) : next.made[s] = run.made[s]
    BY <1>2, <1>8, <1>10, <1>11, EarlierStages
  <2>4. run.stage = "extract" => out.by = Asked
    BY <1>7, <1>10, <1>13
  <2>5. \A s \in Pipeline!Stages : next.made[s] = IF s = run.stage THEN out ELSE run.made[s]
    BY <1>8, <1>10
  <2>6. Pipeline!Chained(next.made)
    <3> HIDE DEF run
    <3>1. Pipeline!Chained(run.made)
      BY <2>2 DEF Pipeline!Consistent
    <3> QED BY <1>2, <1>4, <1>5, <2>4, <2>5, <3>1, StagesAre, EarlierStages DEF Pipeline!Chained
  <2> QED BY <1>4, <1>10, <1>11, <2>2, <2>3, <2>6 DEF Pipeline!Consistent
<1>14. \A s \in Pipeline!Stages : next.made[s] \in Pipeline!ResultOf(s) \union {None}
  BY <1>2, <1>5, <1>8, <1>10
<1>15. Pipeline!Become(a, next) /\ troubles' \in 0 .. MaxFaults
  BY <1>1, <1>3 DEF next, answered, Pipeline!PipelineInv, Pipeline!TypeOK
<1> QED BY <1>1, <1>10, <1>12, <1>13, <1>14, <1>15, RunsRead

(* What a run makes of itself once its stage's result is filed, or not.      *)
LEMMA RunsPass ==
  ASSUME Pipeline!PipelineInv, NEW a \in Handler, NEW run, run = going[a], run.doing \in {"file", "angles"},
         NEW put \in Pipeline!Run, put.made = run.made, put.stage = run.stage, put.mode = run.mode,
         put.doing = run.doing, put.verdict = run.verdict, put.model = run.model,
         NEW next, next = IF run.doing = "file" THEN Pipeline!AfterPut(put)
                          ELSE Pipeline!Passed(put, run.made["parse"], "executed")
  PROVE  /\ next \in Pipeline!Run /\ Pipeline!OnCourse(next) /\ Pipeline!InOrder(next)
         /\ next.model = run.model /\ next.degraded = put.degraded
         /\ \A s \in Pipeline!Stages : next.made[s] = run.made[s]
         /\ Pipeline!Settled(next) = Pipeline!Earlier(run.stage) \union {run.stage}
         /\ \A s \in Pipeline!Stages : next.made[s] \in Pipeline!ResultOf(s) \union {None}
<1>1. /\ run \in Pipeline!Run /\ run.stage \in Pipeline!Stages /\ run.model \in Model
      /\ Pipeline!InOrder(run) /\ run.verdict = "running"
      /\ \A s \in Pipeline!Stages : run.made[s] \in Pipeline!ResultOf(s) \union {None}
  BY RunUnderWay
<1>2. put.verdict = "running"
  BY <1>1
<1>3. /\ run.mode = "ocr" => run.stage = "parse"
      /\ run.stage = "parse" => run.model = Asked
      /\ run.doing = "angles" => run.stage = "parse"
      /\ Pipeline!Made(run) = Pipeline!Earlier(run.stage) \union {run.stage}
      /\ \A s \in Pipeline!Stages : run.made[s] # None <=> s \in Pipeline!Earlier(run.stage) \union {run.stage}
  <2>1. Pipeline!Made(run) = Pipeline!Earlier(run.stage) \union {run.stage}
    BY <1>1 DEF Pipeline!Made, Pipeline!Settled
  <2>2. /\ run.mode = "ocr" => run.stage = "parse"
        /\ run.doing = "angles" => run.stage = "parse"
        /\ "extract" \notin Pipeline!Made(run) => run.model = Asked
        /\ \A s \in Pipeline!Stages : run.made[s] # None <=> s \in Pipeline!Made(run)
    BY <1>1 DEF Pipeline!InOrder
  <2>3. run.stage = "parse" => "extract" \notin Pipeline!Made(run)
    BY <2>1, EarlierStages
  <2> QED BY <2>1, <2>2, <2>3
<1>4. CASE run.doing = "file" /\ run.stage = "parse"
  <2>1. next = [put EXCEPT !.doing = "angles"]
    BY <1>2, <1>4 DEF Pipeline!AfterPut
  <2>2. /\ next \in Pipeline!Run /\ next.made = run.made /\ next.stage = "parse" /\ next.mode = run.mode /\ next.doing = "angles"
        /\ next.verdict = "running" /\ next.degraded = put.degraded /\ next.model = run.model
    BY <1>2, <1>4, <2>1 DEF Pipeline!Run
  <2>3. Pipeline!OnCourse(next)
    BY <2>2 DEF Pipeline!OnCourse, Pipeline!Idle
  <2>4. /\ Pipeline!Settled(next) = Pipeline!Earlier(run.stage) \union {run.stage}
        /\ Pipeline!Made(next) = Pipeline!Earlier(run.stage) \union {run.stage}
    BY <1>4, <2>2 DEF Pipeline!Settled, Pipeline!Made
  <2>5. Pipeline!InOrder(next)
    BY <1>3, <1>4, <2>2, <2>4 DEF Pipeline!InOrder
  <2> QED BY <1>1, <2>2, <2>3, <2>4, <2>5
<1>5. CASE ~(run.doing = "file" /\ run.stage = "parse")
  <2> DEFINE result == run.made[run.stage]
  <2>1. next = Pipeline!Passed(put, result, "executed")
    BY <1>2, <1>3, <1>5 DEF Pipeline!AfterPut
  <2>2. result \in Pipeline!ResultOf(run.stage)
    BY <1>1, <1>3
  <2> HIDE DEF result
  <2>3. /\ result \in Pipeline!ResultOf(put.stage) /\ put.verdict = "running"
        /\ put.mode = "ocr" => put.stage = "parse"
        /\ put.stage = "parse" => put.model = Asked
        /\ \A s \in Pipeline!Stages : s # put.stage => (put.made[s] # None <=> s \in Pipeline!Earlier(put.stage))
        /\ \A s \in Pipeline!Stages : put.made[s] \in Pipeline!ResultOf(s) \union {None}
        /\ "executed" \in {"executed", "reused"}
    BY <1>1, <1>2, <1>3, <2>2
  <2>4. /\ next \in Pipeline!Run /\ Pipeline!OnCourse(next) /\ Pipeline!InOrder(next)
        /\ next.model = put.model /\ next.degraded = put.degraded
        /\ \A s \in Pipeline!Stages : next.made[s] = IF s = put.stage THEN result ELSE put.made[s]
        /\ Pipeline!Settled(next) = Pipeline!Earlier(put.stage) \union {put.stage}
        /\ \A s \in Pipeline!Stages : next.made[s] \in Pipeline!ResultOf(s) \union {None}
    BY <1>2, <2>1, <2>3, StagesPass
  <2>5. \A s \in Pipeline!Stages : next.made[s] = run.made[s]
    BY <1>2, <2>4 DEF result
  <2> QED BY <1>2, <2>4, <2>5
<1> QED BY <1>4, <1>5

(* What a run has is filed, and it goes on.                                  *)
LEMMA RunsFile ==
  ASSUME Pipeline!PipelineInv, NEW a \in Handler, NEW run, run = going[a], run.doing = "file", ~run.degraded,
         run.stage = "extract" => run.model = Asked,
         NEW id, id = Pipeline!Named(run.stage, run.model), NEW result, result = run.made[run.stage],
         stored[id] \in {None, result}, stored' = [stored EXCEPT ![id] = result],
         Pipeline!Become(a, Pipeline!AfterPut(run)), removed' = removed, troubles' = troubles
  PROVE  Pipeline!PipelineInv'
<1> DEFINE next == Pipeline!AfterPut(run)
<1>1. /\ run \in Pipeline!Run /\ run.stage \in Pipeline!Stages /\ run.model \in Model
      /\ Pipeline!InOrder(run) /\ run.verdict = "running"
      /\ \A s \in Pipeline!Stages : run.made[s] \in Pipeline!ResultOf(s) \union {None}
      /\ removed = {} /\ run.model = Asked => Pipeline!Consistent(run)
  BY RunUnderWay
<1>2. /\ next \in Pipeline!Run /\ Pipeline!OnCourse(next) /\ Pipeline!InOrder(next)
      /\ next.model = run.model /\ next.degraded = run.degraded
      /\ \A s \in Pipeline!Stages : next.made[s] = run.made[s]
      /\ Pipeline!Settled(next) = Pipeline!Earlier(run.stage) \union {run.stage}
      /\ \A s \in Pipeline!Stages : next.made[s] \in Pipeline!ResultOf(s) \union {None}
  <2> HIDE DEF next
  <2>1. next = IF run.doing = "file" THEN Pipeline!AfterPut(run) ELSE Pipeline!Passed(run, run.made["parse"], "executed")
    BY DEF next
  <2>2. run.doing \in {"file", "angles"} /\ run \in Pipeline!Run
    BY <1>1
  <2> QED BY <2>1, <2>2, RunsPass
<1> HIDE DEF next
<1>3. /\ Pipeline!Settled(run) = Pipeline!Earlier(run.stage)
      /\ \A s \in Pipeline!Stages : run.made[s] # None <=> s \in Pipeline!Earlier(run.stage) \union {run.stage}
      /\ run.stage = "parse" => run.model = Asked
  <2>1. /\ Pipeline!Settled(run) = Pipeline!Earlier(run.stage)
        /\ Pipeline!Made(run) = Pipeline!Earlier(run.stage) \union {run.stage}
    BY <1>1 DEF Pipeline!Made, Pipeline!Settled
  <2>2. run.stage = "parse" => "extract" \notin Pipeline!Made(run)
    BY <2>1, EarlierStages
  <2> QED BY <1>1, <2>1, <2>2 DEF Pipeline!InOrder
<1>4. result \in Pipeline!ResultOf(run.stage) /\ result \in Pipeline!Result /\ result # None
  BY <1>1, <1>3, ResultsAre
<1>5. id \in Pipeline!Id /\ id[1] = run.stage
  BY <1>1, IdsAre
<1>6. /\ stored' \in [Pipeline!Id -> Pipeline!Result \union {None}]
      /\ \A i \in Pipeline!Id : stored'[i] = IF i = id THEN result ELSE stored[i]
  BY <1>4, <1>5 DEF Pipeline!PipelineInv, Pipeline!TypeOK
<1>7. \A i \in Pipeline!Id : stored'[i] \in Pipeline!ResultOf(i[1]) \union {None}
  BY <1>4, <1>5, <1>6 DEF Pipeline!PipelineInv, Pipeline!ResultsAreOfTheirStage
<1>8. \A i \in Pipeline!Id : stored[i] # None => stored'[i] = stored[i]
  BY <1>6
<1>9. \A s \in Pipeline!Stages : /\ Pipeline!Named(s, Asked) \in Pipeline!Id
                                 /\ Pipeline!Stored[s] = stored[Pipeline!Named(s, Asked)]
                                 /\ (Pipeline!Stored[s])' = stored'[Pipeline!Named(s, Asked)]
  BY IdsAre DEF Pipeline!Stored
<1>10. ASSUME removed = {}
       PROVE  /\ Pipeline!Chained(Pipeline!Stored)
              /\ \A s \in Pipeline!Stages :
                   Pipeline!Stored[s] # None => \A t \in Pipeline!Earlier(s) : Pipeline!Stored[t] # None
              /\ \A m \in Model \ {Asked} : stored[Pipeline!Named("extract", m)] = None
  BY <1>10 DEF Pipeline!PipelineInv, Pipeline!StoreAgrees
<1>11. ASSUME removed = {}, run.model = Asked
       PROVE  /\ id = Pipeline!Named(run.stage, Asked) /\ Pipeline!Chained(run.made)
              /\ \A s \in Pipeline!Earlier(run.stage) : run.made[s] = stored[Pipeline!Named(s, Asked)]
  BY <1>1, <1>3, <1>11 DEF Pipeline!Consistent
<1>12. ASSUME removed = {}, run.model = Asked, stored[id] = None
       PROVE  \A s \in Pipeline!Stages : stored'[Pipeline!Named(s, Asked)] = run.made[s]
  <2> SUFFICES ASSUME NEW s \in Pipeline!Stages PROVE stored'[Pipeline!Named(s, Asked)] = run.made[s]
    OBVIOUS
  <2>1. CASE s = run.stage
    BY <1>6, <1>9, <1>11, <1>12, <2>1
  <2>2. CASE s # run.stage
    <3>1. Pipeline!Named(s, Asked) # id /\ stored'[Pipeline!Named(s, Asked)] = stored[Pipeline!Named(s, Asked)]
      BY <1>1, <1>5, <1>6, <1>9, <2>2, IdsAre
    <3>2. CASE s \in Pipeline!Earlier(run.stage)
      BY <1>11, <1>12, <3>1, <3>2
    <3>3. CASE s \notin Pipeline!Earlier(run.stage)
      <4>1. run.stage \in Pipeline!Earlier(s)
        BY <1>1, <2>2, <3>3, StagesAre, EarlierStages
      <4>2. stored[Pipeline!Named(s, Asked)] = None
        BY <1>1, <1>9, <1>10, <1>11, <1>12, <4>1
      <4> QED BY <1>3, <2>2, <3>1, <3>3, <4>2
    <3> QED BY <3>2, <3>3
  <2> QED BY <2>1, <2>2
<1>13. ASSUME removed = {} PROVE Pipeline!StoreAgrees'
  <2>1. \A m \in Model \ {Asked} : stored'[Pipeline!Named("extract", m)] = None
    <3> SUFFICES ASSUME NEW m \in Model \ {Asked} PROVE stored'[Pipeline!Named("extract", m)] = None
      OBVIOUS
    <3>1. Pipeline!Named("extract", m) \in Pipeline!Id /\ Pipeline!Named("extract", m)[1] = "extract"
      BY StagesAre, IdsAre
    <3>2. Pipeline!Named("extract", m) # id
      BY <1>5, <3>1, IdsAre
    <3> QED BY <1>6, <1>10, <1>13, <3>1, <3>2
  <2>2. CASE run.model = Asked /\ stored[id] = None
    <3>1. \A s \in Pipeline!Stages : run.made[s] = (Pipeline!Stored[s])'
      BY <1>9, <1>12, <1>13, <2>2
    <3>2. Pipeline!Chained(run.made)
      BY <1>11, <1>13, <2>2
    <3>3. Pipeline!Chained(Pipeline!Stored)'
      BY <3>1, <3>2, ChainsAre DEF Pipeline!Chained
    <3>4. ASSUME NEW s \in Pipeline!Stages, (Pipeline!Stored[s])' # None, NEW t \in Pipeline!Earlier(s)
          PROVE  (Pipeline!Stored[t])' # None
      <4>1. s \in Pipeline!Earlier(run.stage) \union {run.stage} /\ t \in Pipeline!Stages
        BY <1>3, <3>1, <3>4, EarlierStages
      <4>2. t \in Pipeline!Earlier(run.stage)
        BY <1>1, <3>4, <4>1, StagesAre, EarlierStages
      <4> QED BY <1>3, <3>1, <4>1, <4>2
    <3> QED BY <2>1, <3>3, <3>4 DEF Pipeline!StoreAgrees
  <2>3. CASE ~(run.model = Asked /\ stored[id] = None)
    <3>1. \A s \in Pipeline!Stages : stored'[Pipeline!Named(s, Asked)] = stored[Pipeline!Named(s, Asked)]
      <4>1. CASE run.model = Asked
        BY <1>6, <1>9, <2>3, <4>1
      <4>2. CASE run.model # Asked
        <5>1. run.stage \in {"ground", "validate"}
          BY <1>1, <1>3, <4>2, StagesAre
        <5>2. \A s : Pipeline!Named(s, Asked) # id
          BY <4>2, <5>1 DEF Pipeline!Named
        <5> QED BY <1>6, <1>9, <5>2
      <4> QED BY <4>1, <4>2
    <3>2. \A s \in Pipeline!Stages : Pipeline!Stored[s] = (Pipeline!Stored[s])'
      BY <1>9, <3>1
    <3>3. Pipeline!Stored' = Pipeline!Stored
      BY <3>1 DEF Pipeline!Stored
    <3> QED BY <1>10, <1>13, <2>1, <3>3 DEF Pipeline!StoreAgrees, Pipeline!Chained
  <2> QED BY <2>2, <2>3
<1>14. ASSUME removed = {}, next.model = Asked
       PROVE  /\ Pipeline!Chained(next.made)
              /\ \A s \in Pipeline!Settled(next) : next.made[s] = stored'[Pipeline!Named(s, Asked)]
  <2>1. run.model = Asked
    BY <1>2, <1>14
  <2>2. Pipeline!Chained(next.made)
    BY <1>2, <1>11, <1>14, <2>1, ChainsAre
  <2>3. ASSUME NEW s \in Pipeline!Earlier(run.stage) PROVE run.made[s] = stored'[Pipeline!Named(s, Asked)]
    <3>1. s \in Pipeline!Stages
      BY <1>1, EarlierStages
    <3> QED BY <1>3, <1>8, <1>9, <1>11, <1>14, <2>1, <2>3, <3>1
  <2>4. run.made[run.stage] = stored'[Pipeline!Named(run.stage, Asked)]
    BY <1>1, <1>6, <1>9, <1>11, <1>14, <2>1
  <2>5. ASSUME NEW s \in Pipeline!Settled(next) PROVE next.made[s] = stored'[Pipeline!Named(s, Asked)]
    <3>1. s \in Pipeline!Stages /\ next.made[s] = run.made[s]
      BY <1>1, <1>2, EarlierStages
    <3>2. s \in Pipeline!Earlier(run.stage) \/ s = run.stage
      BY <1>2
    <3> QED BY <2>3, <2>4, <3>1, <3>2
  <2> QED BY <2>2, <2>5
<1>15. troubles' \in 0 .. MaxFaults
  BY DEF Pipeline!PipelineInv, Pipeline!TypeOK
<1>16. Pipeline!StoreAgrees'
  BY <1>13 DEF Pipeline!StoreAgrees
<1> QED BY <1>2, <1>6, <1>7, <1>8, <1>14, <1>15, <1>16, RunsMove DEF next

(* A run goes on without its store.                                          *)
LEMMA RunsGoUnfiled ==
  ASSUME Pipeline!PipelineInv, NEW a \in Handler, NEW run, run = going[a], run.doing \in {"file", "angles"},
         NEW next \in Pipeline!Run, Pipeline!OnCourse(next), Pipeline!InOrder(next), next.model = run.model,
         next.degraded \/ (run.stage = "extract" /\ run.model # Asked),
         \A s \in Pipeline!Stages : next.made[s] = run.made[s],
         Pipeline!Become(a, next), stored' = stored, removed' = removed, troubles' \in 0 .. MaxFaults
  PROVE  Pipeline!PipelineInv'
<1>1. /\ \A s \in Pipeline!Stages : run.made[s] \in Pipeline!ResultOf(s) \union {None}
      /\ removed = {} /\ run.model = Asked => Pipeline!Consistent(run)
  BY RunUnderWay
<1>2. ASSUME removed = {}, next.model = Asked PROVE Pipeline!Consistent(next)
  <2>1. Pipeline!Chained(run.made)
    BY <1>1, <1>2 DEF Pipeline!Consistent
  <2>2. Pipeline!Chained(next.made)
    BY <2>1, ChainsAre
  <2> QED BY <1>2, <2>2 DEF Pipeline!Consistent
<1>3. \A s \in Pipeline!Stages : next.made[s] \in Pipeline!ResultOf(s) \union {None}
  BY <1>1
<1> QED BY <1>2, <1>3, RunsRead

LEMMA RunsDegrade ==
  ASSUME NEW run \in Pipeline!Run
  PROVE  LET next == Pipeline!Degraded(run) IN
         /\ next \in Pipeline!Run /\ next.degraded = TRUE /\ next.made = run.made /\ next.stage = run.stage
         /\ next.mode = run.mode /\ next.doing = run.doing /\ next.verdict = run.verdict /\ next.model = run.model
         /\ Pipeline!OnCourse(run) => Pipeline!OnCourse(next)
         /\ Pipeline!InOrder(run) => Pipeline!InOrder(next)
<1> DEFINE next == Pipeline!Degraded(run)
<1>1. /\ next \in Pipeline!Run /\ next.degraded = TRUE /\ next.made = run.made /\ next.stage = run.stage
      /\ next.mode = run.mode /\ next.doing = run.doing /\ next.verdict = run.verdict /\ next.model = run.model
  BY DEF Pipeline!Degraded, Pipeline!Run
<1> HIDE DEF next
<1>2. Pipeline!OnCourse(run) => Pipeline!OnCourse(next)
  <2>1. next.doing # "idle"
    BY <1>1 DEF Pipeline!Run
  <2> QED BY <1>1, <2>1 DEF Pipeline!OnCourse, Pipeline!Idle
<1>3. Pipeline!Made(next) = Pipeline!Made(run)
  BY <1>1 DEF Pipeline!Made, Pipeline!Settled
<1>4. Pipeline!InOrder(run) => Pipeline!InOrder(next)
  BY <1>1, <1>3 DEF Pipeline!InOrder
<1> QED BY <1>1, <1>2, <1>4 DEF next

LEMMA PipelineFiles ==
  ASSUME Pipeline!PipelineInv, NEW a \in Handler, Pipeline!File(a) PROVE Pipeline!PipelineInv'
<1> DEFINE run == going[a]
           result == run.made[run.stage]
           id == IF run.stage = "extract" THEN Pipeline!Named("extract", Asked) ELSE Pipeline!Named(run.stage, run.model)
<1>1. run.doing = "file" /\ removed' = removed
  BY DEF Pipeline!File
<1>2. /\ run \in Pipeline!Run /\ run.stage \in Pipeline!Stages /\ run.degraded \in BOOLEAN /\ run.verdict = "running"
      /\ Pipeline!OnCourse(run) /\ Pipeline!InOrder(run)
  BY <1>1, RunUnderWay
<1>3. troubles' \in 0 .. MaxFaults
  BY FaultsAreBounded DEF Pipeline!File
<1>4. CASE (run.degraded \/ ~Pipeline!Filable(run)) /\ Pipeline!Become(a, Pipeline!AfterPut(run)) /\ stored' = stored
  <2> DEFINE next == Pipeline!AfterPut(run)
  <2>1. next = IF run.doing = "file" THEN Pipeline!AfterPut(run) ELSE Pipeline!Passed(run, run.made["parse"], "executed")
    BY <1>1
  <2>2. Pipeline!Become(a, next)
    BY <1>4
  <2> HIDE DEF next
  <2>3. /\ next \in Pipeline!Run /\ Pipeline!OnCourse(next) /\ Pipeline!InOrder(next)
        /\ next.model = run.model /\ next.degraded = run.degraded
        /\ \A s \in Pipeline!Stages : next.made[s] = run.made[s]
    BY <1>1, <1>2, <2>1, RunsPass
  <2>4. next.degraded \/ (run.stage = "extract" /\ run.model # Asked)
    BY <1>4, <2>3 DEF Pipeline!Filable
  <2> QED BY <1>1, <1>3, <1>4, <2>2, <2>3, <2>4, RunsGoUnfiled
<1>5. CASE Pipeline!Become(a, Pipeline!AfterPut(Pipeline!Degraded(run))) /\ stored' = stored
  <2> DEFINE put == Pipeline!Degraded(run)
             next == Pipeline!AfterPut(put)
  <2>1. /\ put \in Pipeline!Run /\ put.made = run.made /\ put.stage = run.stage /\ put.mode = run.mode
        /\ put.doing = run.doing /\ put.verdict = run.verdict /\ put.model = run.model /\ put.degraded = TRUE
    BY <1>2, RunsDegrade
  <2>2. Pipeline!Become(a, next)
    BY <1>5
  <2> HIDE DEF put
  <2>3. next = IF run.doing = "file" THEN Pipeline!AfterPut(put) ELSE Pipeline!Passed(put, run.made["parse"], "executed")
    BY <1>1
  <2> HIDE DEF next
  <2>4. /\ next \in Pipeline!Run /\ Pipeline!OnCourse(next) /\ Pipeline!InOrder(next)
        /\ next.model = run.model /\ next.degraded = put.degraded
        /\ \A s \in Pipeline!Stages : next.made[s] = run.made[s]
    BY <1>1, <2>1, <2>3, RunsPass
  <2>5. next.degraded
    BY <2>1, <2>4
  <2> QED BY <1>1, <1>3, <1>5, <2>2, <2>4, <2>5, RunsGoUnfiled
<1>6. CASE Pipeline!Become(a, Pipeline!Raised(run)) /\ stored' = stored
  <2> DEFINE next == Pipeline!Raised(run)
  <2>1. next \in Pipeline!Run /\ next.made = run.made /\ next.doing = "over" /\ next.verdict = "raised"
    BY <1>2 DEF Pipeline!Raised, Pipeline!Run, Pipeline!Verdict
  <2>2. Pipeline!Become(a, next)
    BY <1>6
  <2> HIDE DEF next
  <2> QED BY <1>1, <1>3, <1>6, <2>1, <2>2, RunStops
<1>7. CASE /\ ~run.degraded /\ Pipeline!Filable(run) /\ ~Pipeline!ConflictRaises(id, result)
           /\ Pipeline!Files(id, result) /\ Pipeline!Become(a, Pipeline!AfterPut(run)) /\ Pipeline!NoFault
  <2>1. run.stage = "extract" => run.model = Asked
    BY <1>7 DEF Pipeline!Filable
  <2>2. id = Pipeline!Named(run.stage, run.model)
    BY <2>1
  <2> HIDE DEF id, result
  <2>3. stored[id] \in {None, result} /\ stored' = [stored EXCEPT ![id] = result] /\ troubles' = troubles
    BY <1>7 DEF Pipeline!ConflictRaises, Pipeline!Agrees, Pipeline!Files, Pipeline!NoFault
  <2>4. result = run.made[run.stage]
    BY DEF result
  <2> HIDE DEF run
  <2>5. run = going[a]
    BY DEF run
  <2> QED BY <1>1, <1>7, <2>1, <2>2, <2>3, <2>4, <2>5, RunsFile
<1> QED BY <1>4, <1>5, <1>6, <1>7 DEF Pipeline!File

LEMMA PipelineFilesAngles ==
  ASSUME Pipeline!PipelineInv, NEW a \in Handler, Pipeline!FileAngles(a) PROVE Pipeline!PipelineInv'
<1> DEFINE run == going[a]
           result == run.made["parse"]
           id == Pipeline!Named("angles", Asked)
           next == Pipeline!Passed(run, result, "executed")
<1>1. run.doing = "angles" /\ removed' = removed
  BY DEF Pipeline!FileAngles
<1>2. /\ run \in Pipeline!Run /\ run.verdict = "running" /\ Pipeline!InOrder(run)
      /\ \A s \in Pipeline!Stages : run.made[s] \in Pipeline!ResultOf(s) \union {None}
      /\ removed = {} /\ run.model = Asked => Pipeline!Consistent(run)
  BY <1>1, RunUnderWay
<1>3. /\ run.stage = "parse" /\ Pipeline!Made(run) = {"parse"} /\ Pipeline!Settled(run) = {"parse"}
      /\ result # None /\ result \in ParserReading
  <2>1. run.stage = "parse"
    BY <1>1, <1>2 DEF Pipeline!InOrder
  <2>2. Pipeline!Made(run) = {"parse"} /\ Pipeline!Settled(run) = {"parse"}
    BY <1>1, <2>1, EarlierStages DEF Pipeline!Made, Pipeline!Settled
  <2>3. result # None
    BY <1>2, <2>2, StagesAre DEF Pipeline!InOrder
  <2> QED BY <1>2, <2>1, <2>2, <2>3, StagesAre, ResultsAre
<1>4. troubles' \in 0 .. MaxFaults
  BY FaultsAreBounded DEF Pipeline!FileAngles
<1>5. next = IF run.doing = "file" THEN Pipeline!AfterPut(run) ELSE Pipeline!Passed(run, run.made["parse"], "executed")
  BY <1>1
<1> HIDE DEF next
<1>6. /\ next \in Pipeline!Run /\ Pipeline!OnCourse(next) /\ Pipeline!InOrder(next)
      /\ next.model = run.model /\ next.degraded = run.degraded
      /\ \A s \in Pipeline!Stages : next.made[s] = run.made[s]
      /\ Pipeline!Settled(next) = Pipeline!Earlier(run.stage) \union {run.stage}
      /\ \A s \in Pipeline!Stages : next.made[s] \in Pipeline!ResultOf(s) \union {None}
  BY <1>1, <1>2, <1>5, RunsPass
<1>7. CASE Pipeline!Become(a, Pipeline!Degraded(next)) /\ stored' = stored
  <2> DEFINE degraded == Pipeline!Degraded(next)
  <2>1. /\ degraded \in Pipeline!Run /\ Pipeline!OnCourse(degraded) /\ Pipeline!InOrder(degraded)
        /\ degraded.model = run.model /\ degraded.degraded /\ degraded.made = next.made
    BY <1>6, RunsDegrade
  <2>2. Pipeline!Become(a, degraded)
    BY <1>7
  <2> HIDE DEF degraded
  <2>3. \A s \in Pipeline!Stages : degraded.made[s] = run.made[s]
    BY <1>6, <2>1
  <2> QED BY <1>1, <1>4, <1>7, <2>1, <2>2, <2>3, RunsGoUnfiled
<1>8. ASSUME removed = {}, next.model = Asked
      PROVE  /\ Pipeline!Chained(next.made)
             /\ ~next.degraded => result = stored[Pipeline!Named("parse", Asked)]
  <2>1. Pipeline!Consistent(run)
    BY <1>2, <1>6, <1>8
  <2>2. Pipeline!Chained(run.made)
    BY <2>1 DEF Pipeline!Consistent
  <2> QED BY <1>3, <1>6, <2>1, <2>2, ChainsAre DEF Pipeline!Consistent
<1>9. ASSUME Pipeline!Become(a, next), stored' = [stored EXCEPT ![id] = result] \/ stored' = stored,
             stored[id] \in {None, result} \/ stored' = stored
      PROVE  Pipeline!PipelineInv'
  <2>1. id \in Pipeline!Id /\ id[1] = "angles"
    BY IdsAre
  <2>2. result \in Pipeline!ResultOf("angles") /\ result \in Pipeline!Result
    BY <1>3, ResultsAre
  <2>3. \A i \in Pipeline!Id : i # id => stored'[i] = stored[i]
    BY <1>9 DEF Pipeline!PipelineInv, Pipeline!TypeOK
  <2>4. /\ stored' \in [Pipeline!Id -> Pipeline!Result \union {None}]
        /\ stored'[id] \in {stored[id], result}
    BY <1>9, <2>1, <2>2 DEF Pipeline!PipelineInv, Pipeline!TypeOK
  <2>5. \A i \in Pipeline!Id : stored'[i] \in Pipeline!ResultOf(i[1]) \union {None}
    BY <2>1, <2>2, <2>3, <2>4 DEF Pipeline!PipelineInv, Pipeline!ResultsAreOfTheirStage
  <2>6. \A i \in Pipeline!Id : stored[i] # None => stored'[i] = stored[i]
    BY <1>9, <2>3, <2>4
  <2>7. \A s \in Pipeline!Stages, m \in Model :
          stored'[Pipeline!Named(s, m)] = stored[Pipeline!Named(s, m)]
    <3>1. "angles" \notin Pipeline!Stages
      BY StagesAre
    <3> QED BY <2>1, <2>3, <3>1, IdsAre
  <2>8. Pipeline!Stored' = Pipeline!Stored
    BY <2>7 DEF Pipeline!Stored
  <2>9. Pipeline!StoreAgrees'
    <3>1. \A m \in Model : stored'[Pipeline!Named("extract", m)] = stored[Pipeline!Named("extract", m)]
      BY <2>7, StagesAre
    <3> QED BY <1>1, <2>8, <3>1 DEF Pipeline!PipelineInv, Pipeline!StoreAgrees, Pipeline!Chained
  <2>10. ASSUME removed = {}, next.model = Asked
         PROVE  /\ Pipeline!Chained(next.made)
                /\ ~next.degraded =>
                     \A s \in Pipeline!Settled(next) : next.made[s] = stored'[Pipeline!Named(s, Asked)]
    <3>1. /\ Pipeline!Chained(next.made)
          /\ ~next.degraded => result = stored[Pipeline!Named("parse", Asked)]
      BY <1>8, <2>10
    <3>2. \A s \in Pipeline!Settled(next) : s = "parse"
      BY <1>3, <1>6, EarlierStages
    <3> QED BY <1>6, <1>8, <2>7, <2>10, <3>1, <3>2, StagesAre
  <2> QED BY <1>1, <1>4, <1>6, <1>9, <2>4, <2>5, <2>6, <2>9, <2>10, RunsMove
<1> QED BY <1>7, <1>9 DEF Pipeline!FileAngles, Pipeline!Files, Pipeline!Agrees, next

LEMMA PipelineIsSwept ==
  ASSUME Pipeline!PipelineInv, NEW id \in Pipeline!Id, Pipeline!Sweep(id) PROVE Pipeline!PipelineInv'
<1>1. /\ stored' = [stored EXCEPT ![id] = None] /\ removed' = removed \union {id} /\ removed' # {}
      /\ going' = going /\ troubles' \in 0 .. MaxFaults
  BY FaultsAreBounded DEF Pipeline!Sweep
<1>2. Pipeline!TypeOK'
  BY <1>1 DEF Pipeline!PipelineInv, Pipeline!TypeOK
<1>3. Pipeline!ResultsAreOfTheirStage'
  <2>1. \A i \in Pipeline!Id : stored'[i] \in {stored[i], None}
    BY <1>1 DEF Pipeline!PipelineInv, Pipeline!TypeOK
  <2> QED BY <1>1, <2>1 DEF Pipeline!PipelineInv, Pipeline!ResultsAreOfTheirStage
<1> QED BY <1>1, <1>2, <1>3 DEF Pipeline!PipelineInv, Pipeline!RunsAreInOrder, Pipeline!RunsAgree, Pipeline!StoreAgrees

LEMMA PipelineStarts ==
  Pipeline!Init => Pipeline!PipelineInv
<1> SUFFICES ASSUME Pipeline!Init PROVE Pipeline!PipelineInv
  OBVIOUS
<1>1. stored = [i \in Pipeline!Id |-> None] /\ going = [a \in Handler |-> Pipeline!Idle] /\ removed = {} /\ troubles = 0
  BY DEF Pipeline!Init
<1>2. \A s \in Pipeline!Stages, m \in Model : stored[Pipeline!Named(s, m)] = None
  BY <1>1, IdsAre
<1>3. Pipeline!TypeOK
  BY <1>1 DEF Pipeline!TypeOK
<1>4. Pipeline!ResultsAreOfTheirStage /\ Pipeline!RunsAreInOrder /\ Pipeline!RunsAgree
  BY <1>1 DEF Pipeline!ResultsAreOfTheirStage, Pipeline!RunsAreInOrder, Pipeline!RunsAgree, Pipeline!OnCourse
<1>5. \A s \in Pipeline!Stages : Pipeline!Stored[s] = None
  BY <1>2 DEF Pipeline!Stored
<1>6. Pipeline!StoreAgrees
  <2>1. Pipeline!Chained(Pipeline!Stored)
    BY <1>5, StagesAre DEF Pipeline!Chained
  <2>2. \A m \in Model : stored[Pipeline!Named("extract", m)] = None
    BY <1>2, StagesAre
  <2> QED BY <1>5, <2>1, <2>2 DEF Pipeline!StoreAgrees
<1> QED BY <1>3, <1>4, <1>6 DEF Pipeline!PipelineInv

LEMMA PipelineStep ==
  Pipeline!PipelineInv /\ [Pipeline!Next]_(Pipeline!pipelineVars) => Pipeline!PipelineInv'
<1> SUFFICES ASSUME Pipeline!PipelineInv, [Pipeline!Next]_(Pipeline!pipelineVars) PROVE Pipeline!PipelineInv'
  OBVIOUS
<1>1. ASSUME NEW a \in Handler,
             \/ Pipeline!Begin(a) \/ Pipeline!StopAtBoundary(a) \/ Pipeline!Look(a) \/ Pipeline!Execute(a)
             \/ Pipeline!FailStage(a) \/ Pipeline!File(a) \/ Pipeline!FileAngles(a)
      PROVE  Pipeline!PipelineInv'
  BY <1>1, PipelineBegins, PipelineStops, PipelineLooks, PipelineExecutes, PipelineFails, PipelineFiles, PipelineFilesAngles
<1>2. CASE UNCHANGED Pipeline!pipelineVars
  BY <1>2 DEF Pipeline!pipelineVars, Pipeline!PipelineInv, Pipeline!TypeOK, Pipeline!ResultsAreOfTheirStage,
    Pipeline!RunsAreInOrder, Pipeline!RunsAgree, Pipeline!Consistent, Pipeline!StoreAgrees, Pipeline!Stored
<1> QED BY <1>1, <1>2, PipelineIsSwept DEF Pipeline!Next

(* What the invariant says of results and of what is filed.                  *)
LEMMA ReuseHolds ==
  ASSUME Pipeline!PipelineInv
  PROVE  Pipeline!ReuseAgrees /\ Pipeline!StoredChainsAgree
<1>1. Pipeline!ReuseAgrees
  <2> SUFFICES ASSUME NEW a \in Handler, Pipeline!Ended(a, {"complete"}), going[a].model = Asked, removed = {}
               PROVE  /\ Pipeline!Together(going[a].made)
                      /\ ~going[a].degraded =>
                           \A s \in Pipeline!Stages : going[a].made[s] \in {None, stored[Pipeline!Named(s, Asked)]}
    BY DEF Pipeline!ReuseAgrees
  <2> DEFINE run == going[a]
  <2>1. run # Pipeline!Idle /\ run.verdict = "complete"
    BY DEF Pipeline!Ended
  <2>2. Pipeline!OnCourse(run)
    BY <2>1 DEF Pipeline!OnCourse
  <2>3. Pipeline!InOrder(run) /\ Pipeline!Consistent(run) /\ run \in Pipeline!Run
    BY <2>1, <2>2 DEF Pipeline!PipelineInv, Pipeline!RunsAreInOrder, Pipeline!RunsAgree, Pipeline!TypeOK
  <2>4. run.stage \in Pipeline!Stages
    BY <2>3 DEF Pipeline!Run
  <2> HIDE DEF run
  <2>5. /\ Pipeline!Made(run) = Pipeline!Settled(run) /\ Pipeline!Settled(run) = Pipeline!Earlier(run.stage) \union {run.stage}
        /\ run.stage = "validate" \/ run.stage = "parse"
    BY <2>1, <2>3 DEF Pipeline!InOrder, Pipeline!Made, Pipeline!Settled
  <2>6. Pipeline!Together(run.made)
    BY <2>3, <2>5, StagesAre, EarlierStages DEF Pipeline!Together, Pipeline!Consistent, Pipeline!Chained, Pipeline!InOrder
  <2>7. ~run.degraded => \A s \in Pipeline!Stages : run.made[s] \in {None, stored[Pipeline!Named(s, Asked)]}
    BY <2>3, <2>5 DEF Pipeline!Consistent, Pipeline!InOrder
  <2> QED BY <2>6, <2>7 DEF run
<1>2. Pipeline!StoredChainsAgree
  <2> SUFFICES ASSUME removed = {}, NEW m \in Model
               PROVE  LET e == stored[Pipeline!Named("extract", m)] g == stored[Pipeline!Named("ground", m)]
                          d == stored[Pipeline!Named("parse", m)] IN
                      /\ e # None => e.by = m /\ e.of = d
                      /\ (g # None /\ e # None) => g.grounds = e
    BY DEF Pipeline!StoredChainsAgree
  <2>1. CASE m # Asked
    BY <2>1 DEF Pipeline!PipelineInv, Pipeline!StoreAgrees
  <2>2. CASE m = Asked
    <3>1. Pipeline!Chained(Pipeline!Stored)
      BY DEF Pipeline!PipelineInv, Pipeline!StoreAgrees
    <3>2. \A s \in Pipeline!Stages : Pipeline!Stored[s] = stored[Pipeline!Named(s, Asked)]
      BY DEF Pipeline!Stored
    <3>3. Pipeline!Grounded(Pipeline!Stored["parse"], Pipeline!Stored["extract"]).grounds = Pipeline!Stored["extract"]
      BY DEF Pipeline!Grounded
    <3> QED BY <2>2, <3>1, <3>2, <3>3, StagesAre, IdsAre DEF Pipeline!Chained
  <2> QED BY <2>1, <2>2
<1> QED BY <1>1, <1>2

HIDE PipelineAssumption DEF stored, going, removed, troubles

-----------------------------------------------------------------------------
(* Validation                                                                *)

drafted == v1
said == v2
located == v3
policy == v4
reached == v5   \* step
values == v6
opinion == v7
again == v8

USE ValidationAssumption DEF drafted, said, located, policy, reached, values, opinion, again

LEMMA ValidationStart == ASSUME Validation!Init PROVE Validation!ValidationInv
<1>1. /\ drafted \in Validation!Schema /\ said \in ModelAnswers /\ policy \in Validation!Policy /\ reached = "draft"
      /\ located \subseteq Validation!Slots(said.entries) /\ values = <<>> /\ opinion = None /\ again = None
  BY DEF Validation!Init
<1>2. DOMAIN values = {}
  BY <1>1
<1>3. Validation!TypeOK
  BY <1>1, <1>2 DEF Validation!TypeOK
<1>4. Validation!VerdictsAreSound
  BY <1>1 DEF Validation!VerdictsAreSound, Validation!Outcome
<1> QED BY <1>1, <1>3, <1>4 DEF Validation!ValidationInv, Validation!ValidationIsOnCourse

(* Reading a schema changes nothing but how far it got.                      *)
LEMMA SchemasAreLoaded == ASSUME Validation!ValidationInv, Validation!Load PROVE Validation!ValidationInv'
<1>1. /\ reached = "draft" /\ reached' = (IF Validation!SchemaFits THEN "accepted" ELSE "refused")
      /\ drafted' = drafted /\ said' = said /\ located' = located /\ policy' = policy /\ values' = values
      /\ opinion' = opinion /\ again' = again
  BY DEF Validation!Load
<1>2. Validation!SchemaFits' = Validation!SchemaFits
  BY <1>1 DEF Validation!SchemaFits, Validation!ConstraintFits, Validation!RuleFits, Validation!ValueFits,
     Validation!TypesFit
<1>3. Validation!TypeOK'
  BY <1>1 DEF Validation!ValidationInv, Validation!TypeOK
<1>4. opinion = None /\ again = None
  BY <1>1 DEF Validation!ValidationInv, Validation!ValidationIsOnCourse
<1>5. Validation!VerdictsAreSound'
  BY <1>1, <1>4 DEF Validation!VerdictsAreSound, Validation!Outcome
<1> QED BY <1>1, <1>2, <1>3, <1>4, <1>5 DEF Validation!ValidationInv, Validation!ValidationIsOnCourse

(* What a type carries is a value of it.                                     *)
LEMMA FormsAreCoerced ==
  ASSUME NEW type \in Validation!FieldType, NEW raw \in Validation!Saying, raw.form \in Validation!Carries(type)
  PROVE  /\ Validation!Coerce(raw, type) \in Validation!Value
         /\ Validation!OfItsType(Validation!Coerce(raw, type), type)
<1>1. PICK kind : kind = Validation!Kind(type, raw.form)
  OBVIOUS
<1>2. kind \in {"text", "bool", "number", "inf", "nan", "date", "naive", "zoned"}
  BY <1>1 DEF Validation!Kind, Validation!FieldType
<1>3. Validation!Rank(kind, raw.n) \in Nat
  BY DEF Validation!Saying, Validation!Rank
<1>4. Validation!Coerce(raw, type) = [is |-> kind, n |-> Validation!Rank(kind, raw.n)]
  BY <1>1 DEF Validation!Coerce
<1>5. Validation!Coerce(raw, type) \in Validation!Value
  BY <1>2, <1>3, <1>4 DEF Validation!Value
<1> QED BY <1>5 DEF Validation!OfItsType

(* What the checks read of a draft, an answer and its values stays with them. *)
LEMMA SoundnessStays ==
  ASSUME drafted' = drafted, said' = said, values' = values
  PROVE  /\ Validation!SchemaFits' = Validation!SchemaFits /\ Validation!Conformed' = Validation!Conformed
         /\ Validation!FloatsAreFinite' = Validation!FloatsAreFinite
         /\ \A p : Validation!Given(p)' = Validation!Given(p)
         /\ \A c : Validation!Obeyed(c)' = Validation!Obeyed(c)
         /\ \A r : Validation!AddsUp(r)' = Validation!AddsUp(r)
<1>1. \A s : Validation!Present(s)' = Validation!Present(s)
  BY DEF Validation!Present
<1>2. Validation!SchemaFits' = Validation!SchemaFits
  BY DEF Validation!SchemaFits, Validation!ConstraintFits, Validation!RuleFits, Validation!ValueFits, Validation!TypesFit
<1>3. Validation!Conformed' = Validation!Conformed /\ Validation!FloatsAreFinite' = Validation!FloatsAreFinite
  BY <1>1 DEF Validation!Conformed, Validation!FloatsAreFinite
<1>4. \A p : Validation!Given(p)' = Validation!Given(p)
  BY <1>1 DEF Validation!Given
<1>5. \A c : Validation!Obeyed(c)' = Validation!Obeyed(c)
  BY <1>1 DEF Validation!Obeyed
<1>6. \A r, i : Validation!AgreesAt(r, i)' = Validation!AgreesAt(r, i)
  <2>1. \A r, i : Validation!Operands(r, i)' = Validation!Operands(r, i)
    BY DEF Validation!Operands
  <2> SUFFICES ASSUME NEW r, NEW i PROVE Validation!AgreesAt(r, i)' = Validation!AgreesAt(r, i)
    OBVIOUS
  <2>2. Validation!Operands(r, i)' = Validation!Operands(r, i)
    BY <2>1
  <2>3. CASE r.kind = "conditional_presence"
    BY <2>3 DEF Validation!AgreesAt
  <2>4. CASE r.kind = "product_equals"
    BY <2>2, <2>4 DEF Validation!AgreesAt
  <2>5. CASE r.kind \notin {"conditional_presence", "product_equals"}
    BY <2>2, <2>5 DEF Validation!AgreesAt
  <2> QED BY <2>3, <2>4, <2>5
<1>7. \A r : Validation!AddsUp(r)' = Validation!AddsUp(r)
  <2>1. \A p : Validation!Members(p)' = Validation!Members(p)
    BY DEF Validation!Members
  <2>2. \A r : Validation!Places(r)' = Validation!Places(r)
    BY DEF Validation!Places
  <2> QED BY <1>1, <1>6, <2>1, <2>2 DEF Validation!AddsUp
<1> QED BY <1>2, <1>3, <1>4, <1>5, <1>7

(* An answer is refused, or its values have the types of their fields.       *)
LEMMA AnswersAreConformed == ASSUME Validation!ValidationInv, Validation!Conform PROVE Validation!ValidationInv'
<1> DEFINE slots8 == Validation!Slots(said.entries)
           Value8(s) == IF Validation!Said(s).form = "null" THEN None
                        ELSE Validation!Coerce(Validation!Said(s), drafted.type[s[1]])
<1>1. /\ reached = "accepted" /\ drafted' = drafted /\ said' = said /\ located' = located /\ policy' = policy
      /\ opinion' = opinion /\ again' = again
      /\ IF ~Validation!Conforms THEN reached' = "failed" /\ values' = values
         ELSE reached' = "conformed" /\ values' = [s \in slots8 |-> Value8(s)]
  BY DEF Validation!Conform
<1>2. /\ Validation!TypeOK /\ Validation!SchemaFits /\ opinion = None /\ again = None
      /\ drafted \in Validation!Schema /\ said \in ModelAnswers
  BY <1>1 DEF Validation!ValidationInv, Validation!ValidationIsOnCourse, Validation!TypeOK
<1>3. Validation!SchemaFits'
  <2>1. Validation!SchemaFits' = Validation!SchemaFits
    BY <1>1 DEF Validation!SchemaFits, Validation!ConstraintFits, Validation!RuleFits, Validation!ValueFits,
       Validation!TypesFit
  <2> QED BY <1>2, <2>1
<1>4. Validation!VerdictsAreSound'
  BY <1>1, <1>2 DEF Validation!VerdictsAreSound, Validation!Outcome
<1>5. CASE ~Validation!Conforms
  <2>1. Validation!TypeOK'
    BY <1>1, <1>2, <1>5 DEF Validation!TypeOK
  <2> QED BY <1>1, <1>2, <1>3, <1>4, <1>5, <2>1 DEF Validation!ValidationInv, Validation!ValidationIsOnCourse
<1>6. CASE Validation!Conforms
  <2>1. reached' = "conformed" /\ values' = [s \in slots8 |-> Value8(s)]
    BY <1>1, <1>6
  <2>2. ASSUME NEW s \in slots8
        PROVE  Value8(s) = None \/ (Value8(s) \in Validation!Value /\ Validation!OfItsType(Value8(s), drafted.type[s[1]]))
    <3>1. s[1] \in Validation!Scalar
      BY <2>2 DEF Validation!Slots
    <3>2. drafted.type[s[1]] \in Validation!FieldType
      BY <1>2, <3>1 DEF Validation!Schema
    <3>3. Validation!Said(s) \in Validation!Saying \/ Validation!Said(s) = None
      BY <1>2, <2>2 DEF Validation!Said
    <3>4. Validation!Said(s) # None /\ Validation!Said(s).form \in Validation!Carries(drafted.type[s[1]]) \union {"null"}
      BY <1>6, <2>2 DEF Validation!Conforms
    <3>5. CASE Validation!Said(s).form = "null"
      BY <3>5
    <3>6. CASE Validation!Said(s).form # "null"
      BY <3>2, <3>3, <3>4, <3>6, FormsAreCoerced
    <3> QED BY <3>5, <3>6
  <2> HIDE DEF Value8
  <2>3. DOMAIN values' = slots8 /\ \A s \in slots8 : values'[s] = Value8(s)
    BY <2>1
  <2>4. Validation!TypeOK'
    BY <1>1, <1>2, <2>1, <2>2, <2>3 DEF Validation!TypeOK
  <2>5. Validation!Conformed'
    <3>1. values' = [s \in slots8 |-> values'[s]]
      BY <2>1, <2>3
    <3> QED BY <1>1, <2>2, <2>3, <3>1 DEF Validation!Conformed
  <2> QED BY <1>1, <1>2, <1>3, <1>4, <2>1, <2>4, <2>5 DEF Validation!ValidationInv, Validation!ValidationIsOnCourse
<1> QED BY <1>5, <1>6

(* What some types make of whatever form.                                    *)
LEMMA KindsOfTypes ==
  /\ \A form : Validation!Kind("string", form) = "text" /\ Validation!Kind("boolean", form) = "bool"
  /\ \A form : Validation!Kind("datetime", form) \in {"naive", "zoned"}
<1>1. ASSUME NEW form PROVE Validation!Kind("string", form) = "text"
  BY DEF Validation!Kind
<1>2. ASSUME NEW form PROVE Validation!Kind("boolean", form) = "bool"
  BY DEF Validation!Kind
<1>3. ASSUME NEW form PROVE Validation!Kind("datetime", form) \in {"naive", "zoned"}
  BY DEF Validation!Kind
<1> QED BY <1>1, <1>2, <1>3

(* A value of a type has a form the type carries.                            *)
LEMMA ValuesHaveForms ==
  ASSUME NEW type \in Validation!FieldType, NEW v, Validation!OfItsType(v, type)
  PROVE  \E form \in Validation!Carries(type) :
           v.is = Validation!Kind(type, form) /\ v.n \in Nat /\ v = [is |-> v.is, n |-> v.n] /\ (v.is \in {"inf", "nan"} => v.n = 0)
<1>1. PICK raw \in Validation!Saying : raw.form \in Validation!Carries(type) /\ v = Validation!Coerce(raw, type)
  BY DEF Validation!OfItsType
<1>2. PICK kind : kind = Validation!Kind(type, raw.form)
  OBVIOUS
<1>3. v = [is |-> kind, n |-> Validation!Rank(kind, raw.n)]
  BY <1>1, <1>2 DEF Validation!Coerce
<1>4. Validation!Rank(kind, raw.n) \in Nat /\ (kind \in {"inf", "nan"} => Validation!Rank(kind, raw.n) = 0)
  BY DEF Validation!Saying, Validation!Rank
<1> QED BY <1>1, <1>2, <1>3, <1>4

(* What the store wrote as text is read as what it was, and what it wrote as  *)
(* it is, but for a float that is not finite.                                 *)
LEMMA StoredValuesAreRead ==
  ASSUME NEW type \in Validation!FieldType, NEW v, Validation!OfItsType(v, type),
         type = "number" => ~Validation!StoredAsNull(v)
  PROVE  Validation!Retyped(v, type) = v
<1>1. PICK form \in Validation!Carries(type) :
        v.is = Validation!Kind(type, form) /\ v.n \in Nat /\ v = [is |-> v.is, n |-> v.n] /\ (v.is \in {"inf", "nan"} => v.n = 0)
  BY ValuesHaveForms
<1>2. CASE type \in Validation!TypedInStore
  <2>1. type # "number" => v.is \in {"text", "bool", "number"}
    <3>1. CASE type = "string" \/ type = "boolean"
      BY <1>1, <3>1, KindsOfTypes
    <3>2. CASE type = "integer"
      <4>1. form = "int"
        BY <1>1, <3>2 DEF Validation!Carries
      <4> QED BY <1>1, <3>2, <4>1 DEF Validation!Kind
    <3> QED BY <1>2, <3>1, <3>2 DEF Validation!TypedInStore
  <2>2. ~Validation!StoredAsNull(v)
    BY <2>1 DEF Validation!StoredAsNull
  <2> QED BY <1>2, <2>2 DEF Validation!Retyped
<1>3. CASE type \notin Validation!TypedInStore
  <2>1. Validation!Kind(type, Validation!Written(v)) = v.is
    <3>1. type \in {"date", "datetime", "decimal"}
      BY <1>3 DEF Validation!FieldType, Validation!TypedInStore
    <3>2. CASE type = "decimal"
      <4>1. form \in {"amount", "digits", "NaN", "Infinity"}
        BY <1>1, <3>2 DEF Validation!Carries
      <4>2. v.is \in {"number", "nan", "inf"}
        BY <1>1, <3>2, <4>1 DEF Validation!Kind
      <4>3. /\ v.is = "number" => Validation!Written(v) = "amount"
            /\ v.is = "nan" => Validation!Written(v) = "NaN"
            /\ v.is = "inf" => Validation!Written(v) = "Infinity"
        BY DEF Validation!Written
      <4> QED BY <3>2, <4>2, <4>3 DEF Validation!Kind
    <3>3. CASE type = "date"
      BY <1>1, <3>3 DEF Validation!Kind
    <3>4. CASE type = "datetime"
      <4>1. v.is \in {"naive", "zoned"}
        BY <1>1, <3>4, KindsOfTypes
      <4>2. Validation!Written(v) = v.is
        BY <4>1 DEF Validation!Written
      <4> QED BY <3>4, <4>1, <4>2 DEF Validation!Kind
    <3> QED BY <3>1, <3>2, <3>3, <3>4
  <2>2. PICK raw : raw = [form |-> Validation!Written(v), n |-> v.n]
    OBVIOUS
  <2>3. Validation!Retyped(v, type) = [is |-> v.is, n |-> Validation!Rank(v.is, v.n)]
    BY <1>3, <2>1, <2>2 DEF Validation!Retyped, Validation!Coerce
  <2>4. Validation!Rank(v.is, v.n) = v.n
    BY <1>1 DEF Validation!Rank
  <2> QED BY <1>1, <2>3, <2>4
<1> QED BY <1>2, <1>3

(* A valid result has no check that raised, failed or was not evaluated.     *)
LEMMA ValidMeans ==
  ASSUME NEW vals, Validation!Verdict(vals) = "valid", NEW c \in Validation!Checks(vals)
  PROVE  /\ ~(c.outcome = "raised" /\ c.severity = "error")
         /\ ~(c.outcome = "failed" /\ c.severity = "error")
         /\ ~(c.outcome = "not evaluated" /\ c.severity = "warning")
BY DEF Validation!Verdict

LEMMA JudgedHolds ==
  ASSUME NEW vals, Validation!Verdict(vals) = "valid", NEW of, NEW holds \in BOOLEAN,
         Validation!Judged(of, holds, "error") \in Validation!Checks(vals)
  PROVE  holds
<1> DEFINE c == Validation!Judged(of, holds, "error")
<1>1. c.outcome = (IF holds THEN "passed" ELSE "failed") /\ c.severity = "error"
  BY DEF Validation!Judged, Validation!Check
<1> HIDE DEF c
<1>2. ~(c.outcome = "failed" /\ c.severity = "error")
  BY ValidMeans DEF c
<1> QED BY <1>1, <1>2

LEMMA NothingRaised ==
  ASSUME NEW vals, Validation!Verdict(vals) = "valid", NEW of
  PROVE  Validation!Raised(of) \notin Validation!Checks(vals) /\ Validation!NotEvaluated(of) \notin Validation!Checks(vals)
<1>1. Validation!Raised(of).outcome = "raised" /\ Validation!Raised(of).severity = "error"
  BY DEF Validation!Raised, Validation!Check
<1>2. Validation!NotEvaluated(of).outcome = "not evaluated" /\ Validation!NotEvaluated(of).severity = "warning"
  BY DEF Validation!NotEvaluated, Validation!Check
<1> QED BY <1>1, <1>2, ValidMeans

(* What is required is there, unless its whole group is not.                 *)
LEMMA RequiredAreThere ==
  ASSUME Validation!Verdict(values) = "valid", NEW p \in drafted.required
  PROVE  Validation!Given(p)
<1>1. CASE p \in Validation!Group
  <2>1. Validation!Judged(<<"required", <<p, 0>>>>, ~Validation!AbsentGroup(values, p), "error") \in Validation!Checks(values)
    BY <1>1 DEF Validation!Checks, Validation!RequiredChecks
  <2>2. (~Validation!AbsentGroup(values, p)) \in BOOLEAN
    BY DEF Validation!AbsentGroup
  <2>3. ~Validation!AbsentGroup(values, p)
    BY <2>1, <2>2, JudgedHolds
  <2> QED BY <1>1, <2>3 DEF Validation!Given
<1>2. CASE p \notin Validation!Group
  <2>1. ASSUME NEW s \in DOMAIN values, s[1] = p, ~(Validation!Within(p) = "o" /\ Validation!AbsentGroup(values, "o"))
        PROVE  Validation!Present(s)
    <3>1. Validation!Judged(<<"required", s>>, values[s] # None, "error") \in Validation!Checks(values)
      BY <2>1 DEF Validation!Checks, Validation!RequiredChecks
    <3>2. (values[s] # None) \in BOOLEAN
      OBVIOUS
    <3>3. values[s] # None
      BY <3>1, <3>2, JudgedHolds
    <3> QED BY <3>3 DEF Validation!Present
  <2> QED BY <1>2, <2>1 DEF Validation!Given
<1> QED BY <1>1, <1>2

(* One value keeps what was declared of it.                                  *)
LEMMA ValuesKeep ==
  ASSUME Validation!Verdict(values) = "valid", NEW c \in Validation!Constraint, NEW s, NEW v, NEW type \in Validation!FieldType,
         type = drafted.type[s[1]], type \in Validation!Domain(c.key), Validation!ValueFits(c, type),
         Validation!OfItsType(v, type), Validation!Evaluated(c, s, v) \in Validation!Checks(values)
  PROVE  Validation!Keeps(v, c)
<1>1. PICK form \in Validation!Carries(type) : v.is = Validation!Kind(type, form) /\ v.n \in Nat
  BY ValuesHaveForms
<1>2. c.key \in Validation!Keyword /\ c.n \in Nat
  BY DEF Validation!Constraint
<1>3. PICK of : of = <<c.key, s>>
  OBVIOUS
<1>4. PICK check : check = Validation!Evaluated(c, s, v)
  OBVIOUS
<1>5. check # Validation!Raised(of) /\ check \in Validation!Checks(values)
  BY <1>4, NothingRaised
<1>6. v.is # "null" /\ (v.is = "text" => type = "string")
  BY <1>1 DEF Validation!Kind, Validation!FieldType
<1>7. ASSUME NEW holds \in BOOLEAN, check = Validation!Judged(of, holds, "error") PROVE holds
  BY <1>5, <1>7, JudgedHolds
<1>8. CASE c.key = "enum"
  <2>1. check = Validation!Judged(of, c.n = v.n /\ v.is \notin {"inf", "nan"}, "error")
    BY <1>3, <1>4, <1>6, <1>8 DEF Validation!Evaluated
  <2>2. c.n = v.n /\ v.is \notin {"inf", "nan"}
    BY <2>1, <1>7
  <2> QED BY <1>8, <2>2 DEF Validation!Keeps
<1>9. CASE c.key = "const"
  <2>1. PICK holds : holds = Validation!Equals(c, v, type)
    OBVIOUS
  <2>2. check = Validation!Judged(of, holds, "error")
    BY <2>1, <1>3, <1>4, <1>6, <1>9 DEF Validation!Evaluated
  <2>3. holds \in BOOLEAN
    BY <2>1 DEF Validation!Equals
  <2>4. holds
    BY <2>2, <2>3, <1>7
  <2>5. IF v.is = "inf" THEN c.form = "Infinity" ELSE v.is # "nan" /\ c.n = v.n
    BY <2>1, <2>4 DEF Validation!Equals
  <2> QED BY <1>9, <2>5 DEF Validation!Keeps
<1>10. CASE c.key \in {"pattern", "min_length", "max_length"}
  <2>1. type = "string"
    BY <1>10 DEF Validation!Domain
  <2>2. v.is = "text"
    BY <1>1, <2>1, KindsOfTypes
  <2>3. CASE c.key = "pattern"
    <3>1. check = Validation!Judged(of, c.n = v.n, "error")
      BY <1>3, <1>4, <1>6, <2>3 DEF Validation!Evaluated
    <3>2. c.n = v.n
      BY <3>1, <1>7
    <3> QED BY <2>2, <2>3, <3>2 DEF Validation!Keeps
  <2>4. CASE c.key = "min_length"
    <3>1. check = Validation!Judged(of, v.n >= c.n, "error")
      BY <1>3, <1>4, <1>6, <2>4 DEF Validation!Evaluated
    <3>2. (v.n >= c.n) \in BOOLEAN
      BY <1>1, <1>2
    <3>3. v.n >= c.n /\ c.form = "int"
      BY <3>1, <3>2, <1>7, <2>4 DEF Validation!ValueFits
    <3> QED BY <2>2, <2>4, <3>3 DEF Validation!Keeps
  <2>5. CASE c.key = "max_length"
    <3>1. check = Validation!Judged(of, v.n <= c.n, "error")
      BY <1>3, <1>4, <1>6, <2>5 DEF Validation!Evaluated
    <3>2. (v.n <= c.n) \in BOOLEAN
      BY <1>1, <1>2
    <3>3. v.n <= c.n
      BY <3>1, <3>2, <1>7
    <3> QED BY <2>2, <2>5, <3>3 DEF Validation!Keeps
  <2> QED BY <1>10, <2>3, <2>4, <2>5
<1>11. CASE c.key = "multiple_of"
  <2>1. v.is \in {"number", "inf", "nan"}
    <3>1. type \in {"integer", "number", "decimal"}
      BY <1>11 DEF Validation!Domain, Validation!Numeric
    <3> QED BY <3>1, <1>1 DEF Validation!Kind
  <2>2. ~(v.is \in {"inf", "nan"} \/ c.form = "NaN")
    BY <1>3, <1>4, <1>5, <1>6, <1>11 DEF Validation!Evaluated
  <2>3. PICK holds : holds = (IF c.form = "Infinity" THEN v.n = 0 ELSE v.n % c.n = 0)
    OBVIOUS
  <2>4. check = Validation!Judged(of, holds, "error")
    BY <1>3, <1>4, <1>6, <1>11, <2>2, <2>3 DEF Validation!Evaluated
  <2>5. holds \in BOOLEAN
    BY <2>3
  <2>6. holds
    BY <2>4, <2>5, <1>7
  <2> QED BY <1>11, <2>1, <2>2, <2>3, <2>6 DEF Validation!Keeps
<1>12. CASE c.key \in {"minimum", "maximum"}
  <2>1. v.is # "text"
    BY <1>6, <1>12 DEF Validation!Domain, Validation!Numeric, Validation!Temporal
  <2>2. PICK holds : holds = (IF c.key = "minimum" THEN Validation!NotBelow(v, c) ELSE Validation!NotAbove(v, c))
    OBVIOUS
  <2>3. /\ check = Validation!Judged(of, holds, "error")
        /\ ~(Validation!IsNumber(v) /\ ~Validation!ReadsAsNumber(c.form)) /\ ~Validation!Incomparable(c, v)
    BY <1>3, <1>4, <1>5, <1>6, <1>12, <2>1, <2>2 DEF Validation!Evaluated
  <2>4. holds \in BOOLEAN
    BY <1>1, <1>2, <2>2 DEF Validation!NotBelow, Validation!NotAbove
  <2>5. holds
    BY <2>3, <2>4, <1>7
  <2>6. v.is # "nan"
    BY <2>3 DEF Validation!Incomparable
  <2>7. CASE c.key = "minimum"
    BY <2>2, <2>5, <2>6, <2>7 DEF Validation!NotBelow, Validation!Keeps
  <2>8. CASE c.key = "maximum"
    BY <2>2, <2>5, <2>6, <2>8 DEF Validation!NotAbove, Validation!Keeps
  <2> QED BY <1>12, <2>7, <2>8
<1> QED BY <1>2, <1>8, <1>9, <1>10, <1>11, <1>12 DEF Validation!Keyword

(* What was declared of a value, or of the entries there are, is kept.       *)
LEMMA BoundsAreObeyed ==
  ASSUME Validation!Verdict(values) = "valid", NEW c \in drafted.constraints, drafted \in Validation!Schema,
         Validation!ConstraintFits(c), Validation!Conformed, said.entries \in Nat
  PROVE  Validation!Obeyed(c)
<1>1. /\ c \in Validation!Constraint
      /\ c.at \in Validation!Scalar \union Validation!Group /\ c.form \in Validation!Form /\ c.n \in Nat
      /\ drafted.type \in [Validation!Scalar -> Validation!FieldType]
  BY DEF Validation!Schema, Validation!Constraint
<1>2. CASE c.at = "g"
  <2>1. Validation!CountCheck(c) \in Validation!Checks(values)
    BY <1>2 DEF Validation!Checks, Validation!ConstraintChecks
  <2>2. Validation!CountCheck(c) # Validation!Raised(<<c.key, <<"g", 0>>>>)
    BY <2>1, NothingRaised
  <2>3. PICK holds : holds = (IF c.key = "min_length" THEN said.entries >= c.n ELSE said.entries <= c.n)
    OBVIOUS
  <2>4. Validation!CountCheck(c) = Validation!Judged(<<c.key, <<"g", 0>>>>, holds, "error")
    BY <2>2, <2>3 DEF Validation!CountCheck
  <2>5. holds \in BOOLEAN
    <3>1. CASE c.key = "min_length"
      BY <1>1, <2>3, <3>1
    <3>2. CASE c.key # "min_length"
      BY <1>1, <2>3, <3>2
    <3> QED BY <3>1, <3>2
  <2>6. holds
    BY <2>1, <2>4, <2>5, JudgedHolds
  <2> QED BY <1>2, <2>3, <2>6 DEF Validation!Obeyed
<1>3. CASE c.at # "g"
  <2>1. c.at \in Validation!Scalar
    <3>1. c.at # "o"
      BY DEF Validation!ConstraintFits
    <3> QED BY <1>1, <1>3, <3>1 DEF Validation!Group
  <2>2. /\ drafted.type[c.at] \in Validation!FieldType /\ drafted.type[c.at] \in Validation!Domain(c.key)
        /\ Validation!ValueFits(c, drafted.type[c.at])
    BY <1>1, <1>3, <2>1 DEF Validation!ConstraintFits, Validation!Scalar
  <2>3. ASSUME NEW s \in DOMAIN values, s[1] = c.at, Validation!Present(s)
        PROVE  Validation!Keeps(values[s], c)
    <3>1. Validation!Evaluated(c, s, values[s]) \in Validation!Checks(values)
      BY <2>3 DEF Validation!Checks, Validation!ConstraintChecks, Validation!Present
    <3>2. Validation!OfItsType(values[s], drafted.type[s[1]])
      <4>1. s \in Validation!Slots(said.entries)
        BY <2>3 DEF Validation!Conformed
      <4> QED BY <2>3, <4>1 DEF Validation!Conformed, Validation!Present
    <3> QED BY <1>1, <2>2, <2>3, <3>1, <3>2, ValuesKeep
  <2> QED BY <1>3, <2>3 DEF Validation!Obeyed
<1> QED BY <1>2, <1>3

(* Where a rule of numbers is no obstacle, all of them are there, and what it *)
(* computed is what was stated.                                               *)
LEMMA NumbersAgree ==
  ASSUME Validation!Verdict(values) = "valid", NEW r, NEW of, NEW terms, NEW computed, NEW stated, r.severity \in Validation!Severity,
         Validation!Arithmetic(r, of, terms, computed, stated) \in Validation!Checks(values)
  PROVE  /\ stated # None /\ stated.is \in {"number", "inf"}
         /\ \A v \in terms : v # None /\ v.is \in {"number", "inf"}
         /\ computed.is # "nan" /\ ~(computed.is = "inf" /\ stated.is = "inf")
         /\ r.severity = "error" => computed.is = stated.is /\ Validation!Abs(computed.n, stated.n) <= r.tolerance
<1>1. PICK check : check = Validation!Arithmetic(r, of, terms, computed, stated)
  OBVIOUS
<1>2. check # Validation!Raised(of) /\ check # Validation!NotEvaluated(of) /\ check \in Validation!Checks(values)
  BY <1>1, NothingRaised
<1>3. PICK holds : holds = (computed.is = stated.is /\ Validation!Abs(computed.n, stated.n) <= r.tolerance)
  OBVIOUS
<1>4. ~(\E v \in terms \union {stated} : v = None \/ ~Validation!IsNumber(v))
  BY <1>1, <1>2 DEF Validation!Arithmetic
<1>5. ~((\E v \in terms \union {stated, computed} : v.is = "nan") \/ (computed.is = "inf" /\ stated.is = "inf"))
  BY <1>1, <1>2, <1>4 DEF Validation!Arithmetic
<1>6. check = Validation!Judged(of, holds, r.severity)
  BY <1>1, <1>3, <1>4, <1>5 DEF Validation!Arithmetic
<1>7. holds \in BOOLEAN
  BY <1>3
<1>8. r.severity = "error" => holds
  BY <1>2, <1>6, <1>7, JudgedHolds
<1> QED BY <1>3, <1>4, <1>5, <1>8 DEF Validation!IsNumber

LEMMA SumsAddUp ==
  ASSUME Validation!Verdict(values) = "valid", NEW r \in drafted.rules, r \in Validation!Rule, r.kind = "sum_equals"
  PROVE  Validation!AddsUp(r)
<1>1. PICK addends, q, stated, computed, terms :
        /\ addends = Validation!Members(r.operands[1]) /\ q = <<r.operands[2], 0>> /\ stated = values[q]
        /\ computed = Validation!Sum(values, addends) /\ terms = {values[s] : s \in addends}
  OBVIOUS
<1>2. PICK of : of = <<r.id, q>>
  OBVIOUS
<1>3. Validation!Arithmetic(r, of, terms, computed, stated) \in Validation!Checks(values)
  <2>1. Validation!SumEquals(r, values) \in Validation!RuleChecks(r, values)
    BY DEF Validation!RuleChecks
  <2>2. Validation!SumEquals(r, values) \in Validation!Checks(values)
    BY <2>1 DEF Validation!Checks
  <2> QED BY <2>2, <1>1, <1>2 DEF Validation!SumEquals
<1>4. r.severity \in Validation!Severity
  BY DEF Validation!Rule
<1>5. /\ stated # None /\ stated.is \in {"number", "inf"}
      /\ \A v \in terms : v # None /\ v.is \in {"number", "inf"}
      /\ computed.is # "nan" /\ ~(computed.is = "inf" /\ stated.is = "inf")
      /\ r.severity = "error" => computed.is = stated.is /\ Validation!Abs(computed.n, stated.n) <= r.tolerance
  BY <1>3, <1>4, NumbersAgree
<1>6. \A s \in addends : values[s] # None /\ values[s].is \in {"number", "inf"}
  BY <1>1, <1>5
<1>7. ASSUME r.severity = "error"
      PROVE  /\ stated.is = "number" /\ \A s \in addends : values[s].is = "number"
             /\ Validation!Abs(Validation!Total(values, addends), stated.n) <= r.tolerance
  <2>1. computed = IF \E s \in addends : values[s].is = "inf" THEN Validation!Infinity ELSE Validation!Number(Validation!Total(values, addends))
    BY <1>1 DEF Validation!Sum
  <2>2. ~\E s \in addends : values[s].is = "inf"
    <3>1. Validation!Infinity.is = "inf"
      BY DEF Validation!Infinity
    <3> QED BY <3>1, <2>1, <1>5, <1>7
  <2>3. computed.is = "number" /\ computed.n = Validation!Total(values, addends)
    BY <2>1, <2>2 DEF Validation!Number
  <2> QED BY <2>2, <2>3, <1>5, <1>6, <1>7
<1> QED BY <1>1, <1>5, <1>6, <1>7 DEF Validation!AddsUp, Validation!Present

(* A rule of one place holds there, or its author does not call it an error. *)
LEMMA PlacesAgree ==
  ASSUME Validation!Verdict(values) = "valid", NEW r \in drafted.rules, r \in Validation!Rule, Validation!ShapeFits(r),
         r.kind # "sum_equals", NEW i \in Validation!Places(r)
  PROVE  Validation!AgreesAt(r, i)
<1>1. PICK check, of, v, w, x : /\ check = Validation!CheckAt(r, values, i) /\ of = <<r.id, <<r.operands[1], i>>>>
                                /\ v = values[<<r.operands[1], i>>] /\ w = values[<<r.operands[2], i>>] /\ x = values[<<r.operands[3], i>>]
  OBVIOUS
<1>2. check \in Validation!Checks(values)
  <2>1. check \in Validation!RuleChecks(r, values)
    BY <1>1 DEF Validation!RuleChecks
  <2> QED BY <2>1 DEF Validation!Checks
<1>3. check # Validation!Raised(of) /\ check # Validation!NotEvaluated(of)
  BY <1>2, NothingRaised
<1>4. /\ r.kind \in {"product_equals", "comparison", "conditional_presence"} /\ r.severity \in Validation!Severity
      /\ r.operands \in Seq(Validation!Scalar) /\ Len(r.operands) = Validation!Arity(r.kind)
      /\ r.operator \in {"==", "!=", "<", "<=", None}
  BY DEF Validation!Rule, Validation!ShapeFits
<1>5. DOMAIN r.operands = 1 .. Validation!Arity(r.kind)
  BY <1>4
<1>6. CASE r.kind = "product_equals"
  <2>1. Validation!Operands(r, i) = {v, w, x}
    <3>1. DOMAIN r.operands = {1, 2, 3}
      BY <1>5, <1>6 DEF Validation!Arity
    <3> QED BY <1>1, <3>1 DEF Validation!Operands
  <2>2. PICK computed : computed = Validation!Product(v, w)
    OBVIOUS
  <2>3. check = Validation!Arithmetic(r, of, {v, w}, computed, x)
    BY <1>1, <1>6, <2>2 DEF Validation!CheckAt
  <2>4. /\ x # None /\ x.is \in {"number", "inf"}
        /\ \A u \in {v, w} : u # None /\ u.is \in {"number", "inf"}
        /\ computed.is # "nan" /\ ~(computed.is = "inf" /\ x.is = "inf")
        /\ r.severity = "error" => computed.is = x.is /\ Validation!Abs(computed.n, x.n) <= r.tolerance
    BY <1>2, <1>4, <2>3, NumbersAgree
  <2>5. ASSUME r.severity = "error"
        PROVE  v.is = "number" /\ w.is = "number" /\ x.is = "number" /\ Validation!Abs(v.n * w.n, x.n) <= r.tolerance
    <3>1. v.is = "number" /\ w.is = "number"
      <4> SUFFICES ASSUME ~(v.is = "number" /\ w.is = "number") PROVE FALSE
        OBVIOUS
      <4>1. computed \in {Validation!NaN, Validation!Infinity}
        BY <2>2 DEF Validation!Product
      <4>2. Validation!NaN.is = "nan" /\ Validation!Infinity.is = "inf"
        BY DEF Validation!NaN, Validation!Infinity
      <4>3. computed.is = "inf"
        BY <4>1, <4>2, <2>4
      <4>4. x.is = "inf"
        BY <4>3, <2>4, <2>5
      <4> QED BY <4>3, <4>4, <2>4
    <3>2. computed.is = "number" /\ computed.n = v.n * w.n
      BY <2>2, <3>1 DEF Validation!Product, Validation!Number
    <3> QED BY <2>4, <2>5, <3>1, <3>2
  <2> QED BY <1>1, <1>6, <2>1, <2>4, <2>5 DEF Validation!AgreesAt
<1>7. CASE r.kind = "conditional_presence"
  <2>1. check = Validation!Judged(of, v = None \/ w # None, r.severity)
    BY <1>1, <1>7 DEF Validation!CheckAt
  <2>2. r.severity = "error" => v = None \/ w # None
    BY <1>2, <2>1, JudgedHolds
  <2> QED BY <1>1, <1>7, <2>2 DEF Validation!AgreesAt
<1>8. CASE r.kind = "comparison"
  <2>1. Validation!Operands(r, i) = {v, w}
    <3>1. DOMAIN r.operands = {1, 2}
      BY <1>5, <1>8 DEF Validation!Arity
    <3> QED BY <1>1, <3>1 DEF Validation!Operands
  <2>2. check = Validation!Comparison(r, of, v, w)
    BY <1>1, <1>8 DEF Validation!CheckAt
  <2>3. None \notin {v, w}
    BY <2>2, <1>3 DEF Validation!Comparison
  <2>4. r.operator \in {"==", "!=", "<", "<="}
    BY <1>4, <1>8 DEF Validation!ShapeFits
  <2>5. PICK holds : holds = Validation!Compare(r.operator, v, w)
    OBVIOUS
  <2>6. \/ check = Validation!Judged(of, holds, r.severity)
        \/ check = Validation!Judged(of, r.operator = "!=", r.severity) /\ "nan" \in {v.is, w.is}
    BY <1>3, <2>2, <2>3, <2>5 DEF Validation!Comparison
  <2>7. ASSUME r.severity = "error" PROVE holds \/ (r.operator = "!=" /\ v.is = "nan")
    <3>1. CASE check = Validation!Judged(of, holds, r.severity)
      <4>1. holds \in BOOLEAN
        BY <2>4, <2>5 DEF Validation!Compare, Validation!Below
      <4> QED BY <1>2, <2>7, <3>1, <4>1, JudgedHolds
    <3>2. CASE check = Validation!Judged(of, r.operator = "!=", r.severity) /\ "nan" \in {v.is, w.is}
      <4>1. (r.operator = "!=") \in BOOLEAN
        OBVIOUS
      <4>2. r.operator = "!="
        BY <1>2, <2>7, <3>2, <4>1, JudgedHolds
      <4>3. v.is # "nan" => v # w
        BY <3>2
      <4> QED BY <2>5, <4>2, <4>3 DEF Validation!Compare
    <3> QED BY <2>6, <3>1, <3>2
  <2> QED BY <1>1, <1>8, <2>1, <2>3, <2>5, <2>7 DEF Validation!AgreesAt
<1> QED BY <1>4, <1>6, <1>7, <1>8

LEMMA ResultsAreJudged == ASSUME Validation!ValidationInv, Validation!Validate PROVE Validation!ValidationInv'
<1> DEFINE read == [s \in DOMAIN values |-> IF values[s] = None THEN None
                                            ELSE Validation!Retyped(values[s], drafted.type[s[1]])]
<1>1. /\ reached = "conformed" /\ reached' = "judged" /\ opinion' = Validation!Verdict(values)
      /\ again' = Validation!Verdict(read)
      /\ drafted' = drafted /\ said' = said /\ located' = located /\ policy' = policy /\ values' = values
  BY DEF Validation!Validate
<1>2. /\ Validation!TypeOK /\ Validation!SchemaFits /\ Validation!Conformed
      /\ drafted \in Validation!Schema /\ said \in ModelAnswers /\ said.entries \in Nat
  BY <1>1 DEF Validation!ValidationInv, Validation!ValidationIsOnCourse, Validation!TypeOK
<1>3. ASSUME Validation!FloatsAreFinite PROVE read = values
  <2>1. ASSUME NEW s \in DOMAIN values PROVE read[s] = values[s]
    <3>1. s \in Validation!Slots(said.entries)
      BY <1>2, <2>1 DEF Validation!Conformed
    <3>2. s[1] \in Validation!Scalar
      BY <3>1 DEF Validation!Slots
    <3>3. drafted.type[s[1]] \in Validation!FieldType
      BY <1>2, <3>2 DEF Validation!Schema
    <3>4. values[s] = None \/ Validation!OfItsType(values[s], drafted.type[s[1]])
      BY <1>2, <3>1 DEF Validation!Conformed
    <3>5. values[s] # None /\ drafted.type[s[1]] = "number" => ~Validation!StoredAsNull(values[s])
      BY <1>3, <2>1 DEF Validation!FloatsAreFinite, Validation!Present
    <3> QED BY <2>1, <3>3, <3>4, <3>5, StoredValuesAreRead
  <2>2. values = [s \in DOMAIN values |-> values[s]]
    BY <1>2 DEF Validation!Conformed
  <2> HIDE DEF read
  <2>3. DOMAIN read = DOMAIN values /\ read = [s \in DOMAIN values |-> read[s]]
    BY DEF read
  <2> QED BY <2>1, <2>2, <2>3
<1> HIDE DEF read
<1>4. Validation!FloatsAreFinite => again' = opinion'
  BY <1>1, <1>3
<1>5. opinion' \in Validation!Outcome /\ again' \in Validation!Outcome
  BY <1>1 DEF Validation!Verdict, Validation!Outcome
<1>6. ASSUME opinion' = "valid"
      PROVE  /\ \A p \in drafted.required : Validation!Given(p)
             /\ \A c \in drafted.constraints : Validation!Obeyed(c)
             /\ \A r \in drafted.rules : Validation!AddsUp(r)
  <2>1. Validation!Verdict(values) = "valid"
    BY <1>1, <1>6
  <2>2. \A p \in drafted.required : Validation!Given(p)
    BY <2>1, RequiredAreThere
  <2>3. \A c \in drafted.constraints : Validation!Obeyed(c)
    BY <1>2, <2>1, BoundsAreObeyed DEF Validation!SchemaFits
  <2>4. ASSUME NEW r \in drafted.rules PROVE Validation!AddsUp(r)
    <3>1. r \in Validation!Rule /\ Validation!ShapeFits(r)
      BY <1>2 DEF Validation!Schema, Validation!SchemaFits, Validation!RuleFits
    <3>2. CASE r.kind = "sum_equals"
      BY <2>1, <3>1, <3>2, SumsAddUp
    <3>3. CASE r.kind # "sum_equals"
      BY <2>1, <3>1, <3>3, PlacesAgree DEF Validation!AddsUp
    <3> QED BY <3>2, <3>3
  <2> QED BY <2>2, <2>3, <2>4
<1>7. Validation!VerdictsAreSound'
  BY <1>1, <1>4, <1>6, SoundnessStays DEF Validation!VerdictsAreSound
<1>8. Validation!TypeOK'
  BY <1>1, <1>2, <1>5 DEF Validation!TypeOK
<1> QED BY <1>1, <1>2, <1>7, <1>8, SoundnessStays DEF Validation!ValidationInv, Validation!ValidationIsOnCourse

LEMMA ValidationStep == ASSUME Validation!ValidationInv, [Validation!Next]_(Validation!validationVars) PROVE Validation!ValidationInv'
<1>1. CASE UNCHANGED Validation!validationVars
  <2>1. /\ drafted' = drafted /\ said' = said /\ located' = located /\ policy' = policy /\ reached' = reached
        /\ values' = values /\ opinion' = opinion /\ again' = again
    BY <1>1 DEF Validation!validationVars
  <2>2. Validation!TypeOK' = Validation!TypeOK
    BY <2>1 DEF Validation!TypeOK
  <2>3. Validation!VerdictsAreSound' = Validation!VerdictsAreSound
    BY <2>1, SoundnessStays DEF Validation!VerdictsAreSound
  <2> QED BY <2>1, <2>2, <2>3, SoundnessStays DEF Validation!ValidationInv, Validation!ValidationIsOnCourse
<1>2. CASE Validation!Load
  BY <1>2, SchemasAreLoaded
<1>3. CASE Validation!Conform
  BY <1>3, AnswersAreConformed
<1>4. CASE Validation!Validate
  BY <1>4, ResultsAreJudged
<1> QED BY <1>1, <1>2, <1>3, <1>4 DEF Validation!Next, Validation!Rest

HIDE ValidationAssumption DEF drafted, said, located, policy, reached, values, opinion, again

-----------------------------------------------------------------------------
(* Ingest: sequences                                                         *)

(* What is left of a sequence is its end.                                    *)
EndOf(ts, cs) == Len(ts) <= Len(cs) /\ \A k \in DOMAIN ts : ts[k] = cs[Len(cs) - Len(ts) + k]

(* The chunks left after one of them was answered.                           *)
LEMMA ChunksGoOn ==
  ASSUME NEW cs \in Seq(Seq(Nat)), NEW ts \in Seq(Seq(Nat)), ts # <<>>, EndOf(ts, cs)
  PROVE  /\ Tail(ts) \in Seq(Seq(Nat)) /\ Len(Tail(ts)) = Len(ts) - 1 /\ EndOf(Tail(ts), cs)
         /\ Head(ts) = cs[Len(cs) - Len(ts) + 1] /\ Head(ts) \in Seq(Nat)
         /\ Tail(ts) = <<>> <=> Len(ts) = 1
         /\ Tail(ts) # <<>> => Head(Tail(ts)) = cs[Len(cs) - Len(ts) + 2]
<1>1. Len(ts) \in Nat \ {0} /\ Len(cs) \in Nat /\ Len(ts) <= Len(cs)
  BY DEF EndOf
<1>2. PICK r : r = Tail(ts)
  OBVIOUS
<1>3. /\ r \in Seq(Seq(Nat)) /\ Len(r) = Len(ts) - 1 /\ Head(ts) \in Seq(Nat) /\ Head(ts) = ts[1]
      /\ \A k \in 1 .. Len(ts) - 1 : r[k] = ts[k + 1]
  BY <1>1, <1>2
<1>4. r # <<>> => Len(r) \in Nat \ {0}
  BY <1>3, EmptySeq
<1>5. r = <<>> => Len(r) = 0
  BY EmptySeq
<1>6. r = <<>> <=> Len(ts) = 1
  BY <1>1, <1>3, <1>4, <1>5
<1>7. \A k \in DOMAIN r : r[k] = cs[Len(cs) - Len(r) + k]
  <2> SUFFICES ASSUME NEW k \in DOMAIN r PROVE r[k] = cs[Len(cs) - Len(r) + k]
    OBVIOUS
  <2>0. DOMAIN r = 1 .. Len(r) /\ DOMAIN ts = 1 .. Len(ts) /\ Len(r) = Len(ts) - 1
    BY <1>3
  <2>1. k \in 1 .. Len(ts) - 1 /\ k + 1 \in DOMAIN ts
    BY <1>1, <2>0
  <2>2. Len(cs) - Len(ts) + (k + 1) = Len(cs) - Len(r) + k
    BY <1>1, <1>3, <2>1
  <2> QED BY <1>3, <2>1, <2>2 DEF EndOf
<1>8. Head(ts) = cs[Len(cs) - Len(ts) + 1]
  <2>1. 1 \in DOMAIN ts
    BY <1>1
  <2> QED BY <1>3, <2>1 DEF EndOf
<1>9. r # <<>> => Head(r) = cs[Len(cs) - Len(ts) + 2]
  <2> SUFFICES ASSUME r # <<>> PROVE Head(r) = cs[Len(cs) - Len(ts) + 2]
    OBVIOUS
  <2>1. 1 \in DOMAIN r /\ Head(r) = r[1] /\ Len(cs) - Len(r) + 1 = Len(cs) - Len(ts) + 2
    BY <1>1, <1>3, <1>4
  <2> QED BY <1>7, <2>1
<1>10. EndOf(r, cs)
  BY <1>1, <1>3, <1>7 DEF EndOf
<1> QED BY <1>2, <1>3, <1>6, <1>8, <1>9, <1>10

LEMMA JoinedAre ==
  ASSUME NEW a \in Seq(Nat), NEW c \in Seq(Nat)
  PROVE  /\ a \o c \in Seq(Nat) /\ Len(a \o c) = Len(a) + Len(c)
         /\ \A i \in 1 .. Len(a) + Len(c) : (a \o c)[i] = IF i <= Len(a) THEN a[i] ELSE c[i - Len(a)]
<1>1. a \o c \in Seq(Nat) /\ Len(a \o c) = Len(a) + Len(c)
  OBVIOUS
<1>2. \A i \in 1 .. Len(a) + Len(c) : (a \o c)[i] = IF i <= Len(a) THEN a[i] ELSE c[i - Len(a)]
  OBVIOUS
<1> QED BY <1>1, <1>2

(* Numbers that begin with the first.                                        *)
From(first, c) == Len(c) > 0 /\ c[1] = first /\ \A i \in 1 .. Len(c) : c[i] = first - 1 + i

(* The numbers before a chunk and those of the chunk are those before the    *)
(* next.                                                                     *)
LEMMA PagesGoOn ==
  ASSUME NEW first \in Nat \ {0}, NEW a \in Seq(Nat), NEW b \in Seq(Nat), NEW c \in Seq(Nat), From(first, c),
         Len(a) = first - 1, \A i \in 1 .. Len(a) : a[i] = i,
         Len(b) = first - 1 + Len(c), \A i \in 1 .. Len(b) : b[i] = i
  PROVE  a \o c = b
<1>1. /\ a \o c \in Seq(Nat) /\ Len(a \o c) = Len(a) + Len(c)
      /\ \A i \in 1 .. Len(a) + Len(c) : (a \o c)[i] = IF i <= Len(a) THEN a[i] ELSE c[i - Len(a)]
  BY JoinedAre
<1>2. Len(a) \in Nat /\ Len(b) \in Nat /\ Len(c) \in Nat
  OBVIOUS
<1>3. ASSUME NEW i \in 1 .. Len(a \o c) PROVE (a \o c)[i] = b[i]
  <2>1. i \in 1 .. Len(a) + Len(c) /\ i \in 1 .. Len(b) /\ b[i] = i
    BY <1>1, <1>2
  <2>2. CASE i <= Len(a)
    <3>1. i \in 1 .. Len(a) /\ (a \o c)[i] = a[i]
      BY <1>1, <1>2, <2>1, <2>2
    <3> QED BY <2>1, <3>1
  <2>3. CASE ~(i <= Len(a))
    <3>1. i - Len(a) \in 1 .. Len(c)
      BY <1>2, <2>1, <2>3
    <3>0. (a \o c)[i] = c[i - Len(a)]
      BY <1>1, <2>1, <2>3
    <3>2. c[i - Len(a)] = first - 1 + (i - Len(a))
      BY <3>1 DEF From
    <3> QED BY <1>2, <2>1, <3>0, <3>1, <3>2
  <2> QED BY <2>2, <2>3
<1>4. Len(a \o c) = Len(b)
  BY <1>1, <1>2
<1> QED BY <1>1, <1>3, <1>4, SeqEqual

(* All but the last of a sequence.                                           *)
LEMMA AllButTheLast ==
  ASSUME NEW pages \in Seq(Nat), NEW short, short = SubSeq(pages, 1, Len(pages) - 1)
  PROVE  short \in Seq(Nat) /\ Len(short) <= Len(pages) /\ (Len(pages) > 0 => Len(short) # Len(pages))
<1>1. Len(pages) \in Nat
  OBVIOUS
<1>2. CASE Len(pages) > 0
  <2>1. PICK n \in Nat : n = Len(pages) - 1 /\ n <= Len(pages)
    BY <1>1, <1>2
  <2>2. SubSeq(pages, 1, n) \in Seq(Nat) /\ Len(SubSeq(pages, 1, n)) = n
    BY <1>1, <2>1
  <2> QED BY <1>1, <2>1, <2>2
<1>3. CASE Len(pages) = 0
  <2>1. short = <<>>
    BY <1>3, SubSeqEmpty
  <2> QED BY <1>3, <2>1, EmptySeq
<1> QED BY <1>1, <1>2, <1>3

-----------------------------------------------------------------------------
(* Pages and their chunks                                                    *)

job == v1
ruling == v3
chosen == v4
ahead == v5
got == v6
attempt == v7
left == v8
used == v9
heard == v10
parsed == v11

USE IngestAssumption DEF job, step, ruling, chosen, ahead, got, attempt, left, used, heard, parsed

(* The pages of a file, numbered.                                            *)
LEMMA ChunksAreNumbered ==
  ASSUME NEW n \in Nat
  PROVE  /\ Ingest!Numbered(n) \in Seq(Nat) /\ Len(Ingest!Numbered(n)) = n
         /\ \A i \in 1 .. n : Ingest!Numbered(n)[i] = i
<1>1. \A i \in 1 .. n : i \in Nat
  OBVIOUS
<1> QED BY <1>1 DEF Ingest!Numbered

(* What a sequence of chunks of n pages is.                                  *)
Chunked(cs, n) ==
  /\ cs \in Seq(Seq(Nat))
  /\ \A k \in 1 .. Len(cs) :
       /\ Len(cs[k]) > 0
       /\ \A i \in 1 .. Len(cs[k]) : cs[k][i] = cs[k][1] - 1 + i
       /\ cs[k][1] \in Nat \ {0}
       /\ cs[k][1] - 1 + Len(cs[k]) = (IF k = Len(cs) THEN n ELSE cs[k + 1][1] - 1)
  /\ cs # <<>> => cs[1][1] = 1
  /\ cs = <<>> => n = 0

(* A quotient rounded up.                                                    *)
LEMMA RoundedUp ==
  ASSUME NEW n \in Nat, NEW size \in Nat \ {0}, NEW m, m = (n + size - 1) \div size
  PROVE  m \in Nat /\ n <= m * size /\ (m - 1) * size < n + (IF n = 0 THEN 1 ELSE 0)
<1>1. m \in Int /\ m * size <= n + size - 1 /\ n + size - 1 < m * size + size
  OBVIOUS
<1>2. m \in Nat
  BY <1>1
<1>3. (m - 1) * size = m * size - size
  BY <1>2
<1> QED BY <1>1, <1>2, <1>3

(* The chunks of an endpoint are the pages of the file, in order.            *)
LEMMA ChunksOfAre ==
  ASSUME NEW n \in Nat, NEW size \in Nat \ {0}
  PROVE  /\ Chunked(Ingest!ChunksOf(n, size), n)
         /\ Len(Ingest!ChunksOf(n, size)) = (n + size - 1) \div size
<1> DEFINE m == (n + size - 1) \div size
           L(k) == IF k * size <= n THEN size ELSE n - (k - 1) * size
           c(k) == [i \in 1 .. L(k) |-> (k - 1) * size + i]
           cs == Ingest!ChunksOf(n, size)
<1>1. m \in Nat /\ n <= m * size /\ (m - 1) * size < n + (IF n = 0 THEN 1 ELSE 0)
  BY RoundedUp
<1>2. ASSUME NEW k \in 1 .. m
      PROVE  /\ L(k) \in Nat \ {0} /\ (k - 1) * size \in Nat
             /\ (k - 1) * size + L(k) = (IF k = m THEN n ELSE k * size)
  <2>0. n # 0
    <3>1. n = 0 => m = 0
      <4> SUFFICES ASSUME n = 0, m # 0 PROVE FALSE
        OBVIOUS
      <4>1. m - 1 \in Nat /\ (m - 1) * size >= 0 /\ m * size = (m - 1) * size + size
        BY <1>1
      <4>2. m * size <= n + size - 1
        OBVIOUS
      <4> QED BY <4>1, <4>2
    <3> QED BY <3>1
  <2>1. k * size \in Nat /\ k * size = (k - 1) * size + size /\ (k - 1) * size \in Nat
    OBVIOUS
  <2>2. CASE k = m
    BY <2>0, <2>1, <2>2, <1>1
  <2>3. CASE k # m
    <3>1. k \in Nat /\ (m - 1) - k \in Nat /\ ((m - 1) - k) * size \in Nat
      BY <2>3, <1>1
    <3>2. (m - 1) * size = k * size + ((m - 1) - k) * size
      BY <3>1, <1>1
    <3>3. k * size <= n
      BY <3>1, <3>2, <1>1, <2>0, <2>1
    <3> QED BY <2>3, <3>3, <2>1
  <2> QED BY <2>2, <2>3
<1>3. cs = [k \in 1 .. m |-> c(k)]
  BY DEF Ingest!ChunksOf
<1> DEFINE b(k) == (k - 1) * size
<1>a. b(1) = 0 /\ \A k \in 1 .. m : b(k) \in Nat /\ L(k) \in Nat \ {0}
  BY <1>2
<1>b. \A k \in 1 .. m : b(k) + L(k) = (IF k = m THEN n ELSE b(k + 1))
  <2> SUFFICES ASSUME NEW k \in 1 .. m PROVE b(k) + L(k) = (IF k = m THEN n ELSE b(k + 1))
    OBVIOUS
  <2>1. (k + 1) - 1 = k
    OBVIOUS
  <2> QED BY <2>1, <1>2
<1>c. \A k : c(k) = [i \in 1 .. L(k) |-> b(k) + i]
  OBVIOUS
<1> HIDE DEF m, L, cs, b, c
<1>4. \A k \in 1 .. m : c(k) \in Seq(Nat) /\ Len(c(k)) = L(k) /\ \A i \in 1 .. L(k) : c(k)[i] = b(k) + i
  <2> SUFFICES ASSUME NEW k \in 1 .. m
               PROVE  c(k) \in Seq(Nat) /\ Len(c(k)) = L(k) /\ \A i \in 1 .. L(k) : c(k)[i] = b(k) + i
    OBVIOUS
  <2>1. b(k) \in Nat /\ L(k) \in Nat /\ \A i \in 1 .. L(k) : b(k) + i \in Nat
    BY <1>a
  <2> QED BY <1>c, <2>1
<1>5. cs \in Seq(Seq(Nat)) /\ Len(cs) = m /\ \A k \in 1 .. m : cs[k] = c(k)
  BY <1>1, <1>3, <1>4
<1>6. ASSUME NEW k \in 1 .. m
      PROVE  cs[k][1] = b(k) + 1 /\ Len(cs[k]) = L(k) /\ \A i \in 1 .. L(k) : cs[k][i] = b(k) + i
  <2>1. 1 \in 1 .. L(k)
    BY <1>a
  <2> QED BY <2>1, <1>4, <1>5
<1>7. ASSUME NEW k \in 1 .. m, k # m PROVE cs[k + 1][1] = b(k + 1) + 1
  <2>1. k + 1 \in 1 .. m
    BY <1>1, <1>7
  <2> QED BY <2>1, <1>6
<1>8. ASSUME NEW k \in 1 .. m
      PROVE  /\ Len(cs[k]) > 0
             /\ \A i \in 1 .. Len(cs[k]) : cs[k][i] = cs[k][1] - 1 + i
             /\ cs[k][1] \in Nat \ {0}
             /\ cs[k][1] - 1 + Len(cs[k]) = (IF k = m THEN n ELSE cs[k + 1][1] - 1)
  <2>1. b(k) \in Nat /\ L(k) \in Nat \ {0} /\ b(k) + L(k) = (IF k = m THEN n ELSE b(k + 1))
    BY <1>a, <1>b
  <2>2. k # m => cs[k + 1][1] = b(k + 1) + 1 /\ b(k + 1) \in Nat
    <3>1. k # m => k + 1 \in 1 .. m
      BY <1>1
    <3> QED BY <3>1, <1>a, <1>7
  <2>3. cs[k][1] = b(k) + 1 /\ Len(cs[k]) = L(k) /\ \A i \in 1 .. L(k) : cs[k][i] = b(k) + i
    BY <1>6
  <2>4. cs[k][1] - 1 + Len(cs[k]) = (IF k = m THEN n ELSE cs[k + 1][1] - 1)
    BY <2>1, <2>2, <2>3
  <2>5. \A i \in 1 .. Len(cs[k]) : cs[k][i] = cs[k][1] - 1 + i
    BY <2>1, <2>3
  <2> QED BY <2>1, <2>3, <2>4, <2>5
<1>9. m # 0 => cs[1][1] = 1
  <2>1. m # 0 => 1 \in 1 .. m
    BY <1>1
  <2> QED BY <2>1, <1>a, <1>6
<1>10. m = 0 => n = 0
  BY <1>1
<1>11. Len(cs) = (n + size - 1) \div size
  BY <1>5 DEF m
<1>12. Chunked(cs, n)
  BY <1>1, <1>5, <1>8, <1>9, <1>10 DEF Chunked
<1> QED BY <1>11, <1>12 DEF cs

(* The file of a parse.                                                      *)
LEMMA FilesAre ==
  ASSUME job \in Jobs
  PROVE  /\ job \in Ingest!Job /\ Ingest!file = job.file /\ Ingest!file.text \in Seq(BOOLEAN)
         /\ Ingest!Pages \in Nat
         /\ Ingest!file.media = "image" => Ingest!Pages = 1
         /\ Ingest!file.media \in {"pdf", "image", "tiff", "unknown"}
         /\ Ingest!file.opens \in {"fine", "encrypted", "corrupt"}
<1>1. job \in Ingest!Job
  OBVIOUS
<1>2. job.file \in Ingest!File
  BY <1>1 DEF Ingest!Job
<1>3. job.file.text \in Seq(BOOLEAN) /\ Len(job.file.text) \in Nat
  BY <1>2 DEF Ingest!File
<1> QED BY <1>1, <1>2, <1>3 DEF Ingest!file, Ingest!Pages, Ingest!File

LEMMA ChunksAre ==
  ASSUME job \in Jobs, Ingest!Satisfies(chosen), chosen \in Ingest!Parser
  PROVE  /\ Ingest!Chunks \in Seq(Seq(Nat))
         /\ chosen = Ingest!Endpoint => Chunked(Ingest!Chunks, Ingest!Pages)
         /\ chosen # Ingest!Endpoint => Ingest!Chunks = <<Ingest!Numbered(Ingest!Pages)>>
         /\ Len(Ingest!Chunks) <= (Ingest!Pages + ChunkPages - 1) \div ChunkPages + 1
         /\ (Ingest!Pages + ChunkPages - 1) \div ChunkPages \in Nat
<1> DEFINE n == Ingest!Pages
           m == (n + ChunkPages - 1) \div ChunkPages
<1>1. n \in Nat /\ m \in Nat /\ ChunkPages \in Nat \ {0}
  <2>1. n \in Nat /\ ChunkPages \in Nat \ {0}
    BY FilesAre
  <2> QED BY <2>1, RoundedUp
<1>2. CASE chosen = Ingest!Endpoint /\ Ingest!file.media = "pdf"
  <2>1. Ingest!Chunks = Ingest!ChunksOf(n, ChunkPages)
    BY <1>2 DEF Ingest!Chunks
  <2>2. Chunked(Ingest!Chunks, n) /\ Len(Ingest!Chunks) = m
    BY <1>1, <2>1, ChunksOfAre
  <2> QED BY <1>1, <1>2, <2>2 DEF Chunked
<1>3. CASE ~(chosen = Ingest!Endpoint /\ Ingest!file.media = "pdf")
  <2>1. Ingest!Chunks = <<Ingest!Numbered(n)>>
    BY <1>3 DEF Ingest!Chunks
  <2>2. Ingest!Chunks \in Seq(Seq(Nat)) /\ Len(Ingest!Chunks) = 1
    BY <2>1, <1>1, ChunksAreNumbered
  <2>3. chosen = Ingest!Endpoint => Chunked(Ingest!Chunks, n)
    <3> SUFFICES ASSUME chosen = Ingest!Endpoint PROVE Chunked(Ingest!Chunks, n)
      OBVIOUS
    <3>1. Ingest!file.media = "image"
      BY <1>3, FilesAre DEF Ingest!Satisfies, Ingest!MediaTypes, Ingest!Endpoint, Ingest!Native
    <3>2. n = 1
      BY <3>1, FilesAre
    <3>3. /\ Ingest!Numbered(1) \in Seq(Nat) /\ Len(Ingest!Numbered(1)) = 1
          /\ \A i \in 1 .. 1 : Ingest!Numbered(1)[i] = i
      BY ChunksAreNumbered
    <3>4. PICK w : w = Ingest!Numbered(1)
      OBVIOUS
    <3>5. w \in Seq(Nat) /\ Len(w) = 1 /\ w[1] = 1 /\ Ingest!Chunks = <<w>>
      BY <2>1, <3>2, <3>3, <3>4
    <3>6. PICK cs : cs = Ingest!Chunks
      OBVIOUS
    <3>7. cs \in Seq(Seq(Nat)) /\ Len(cs) = 1 /\ cs[1] = w /\ cs # <<>>
      BY <2>2, <3>5, <3>6
    <3>8. \A k \in 1 .. Len(cs) :
            /\ Len(cs[k]) > 0
            /\ \A i \in 1 .. Len(cs[k]) : cs[k][i] = cs[k][1] - 1 + i
            /\ cs[k][1] \in Nat \ {0}
            /\ cs[k][1] - 1 + Len(cs[k]) = (IF k = Len(cs) THEN 1 ELSE cs[k + 1][1] - 1)
      <4>1. \A i \in 1 .. Len(w) : w[i] = w[1] - 1 + i
        BY <3>5
      <4>2. \A k \in 1 .. Len(cs) : k = 1 /\ k = Len(cs) /\ cs[k] = w
        BY <3>7
      <4>3. Len(w) > 0 /\ w[1] \in Nat \ {0} /\ w[1] - 1 + Len(w) = 1
        BY <3>5
      <4> QED BY <4>1, <4>2, <4>3
    <3>a. cs \in Seq(Seq(Nat)) /\ cs # <<>> /\ cs[1][1] = 1
      BY <3>5, <3>7
    <3>9. Chunked(cs, 1)
      BY <3>8, <3>a, Zenon DEF Chunked
    <3> QED BY <3>2, <3>6, <3>9
  <2> QED BY <1>1, <2>1, <2>2, <2>3
<1> QED BY <1>2, <1>3

-----------------------------------------------------------------------------
(* The choice of a parser                                                    *)

(* What is said of a file's text layer, or why nothing is.                   *)
LEMMA VerdictsAre ==
  ASSUME job \in Jobs
  PROVE  LET a == Ingest!Assessed IN
         \/ a \in [error : Ingest!Errors] /\ Ingest!IsError(a)
         \/ /\ ~Ingest!IsError(a) /\ a \in Ingest!Verdict /\ (a.usable => Ingest!LayerUsable)
            /\ a.pages = (IF Ingest!file.media = "pdf" THEN Ingest!Pages ELSE 1)
<1>1. Ingest!LayerUsable \in BOOLEAN /\ Ingest!Pages \in Nat /\ Ingest!file.opens \in {"fine", "encrypted", "corrupt"}
  BY FilesAre DEF Ingest!LayerUsable
<1>2. \A r \in Ingest!Errors : Ingest!Error(r) \in [error : Ingest!Errors] /\ Ingest!IsError(Ingest!Error(r))
  BY DEF Ingest!Error, Ingest!IsError
<1>3. \A u \in BOOLEAN, n \in Nat :
        LET v == [usable |-> u, pages |-> n, judged |-> TRUE, overridden |-> FALSE] IN
        v \in Ingest!Verdict /\ ~Ingest!IsError(v) /\ v.usable = u /\ v.pages = n
  BY DEF Ingest!Verdict, Ingest!IsError
<1>4. {"capability", "encrypted", "corrupt"} \subseteq Ingest!Errors
  BY DEF Ingest!Errors
<1> HIDE DEF Ingest!file, Ingest!Pages, Ingest!LayerUsable
<1>5. CASE Ingest!file.media # "pdf"
  <2>1. Ingest!Assessed = [usable |-> FALSE, pages |-> 1, judged |-> TRUE, overridden |-> FALSE]
    BY <1>5 DEF Ingest!Assessed
  <2> QED BY <2>1, <1>3, <1>5
<1>6. CASE Ingest!file.media = "pdf" /\ (~Ingest!NativeReader \/ Ingest!file.opens # "fine" \/ Ingest!Pages = 0)
  <2>1. \E r \in {"capability", "encrypted", "corrupt"} : Ingest!Assessed = Ingest!Error(r)
    BY <1>6, <1>1 DEF Ingest!Assessed
  <2> QED BY <2>1, <1>2, <1>4
<1>7. CASE Ingest!file.media = "pdf" /\ Ingest!NativeReader /\ Ingest!file.opens = "fine" /\ Ingest!Pages # 0
  <2>1. Ingest!Assessed = [usable |-> Ingest!LayerUsable, pages |-> Ingest!Pages, judged |-> TRUE, overridden |-> FALSE]
    BY <1>7 DEF Ingest!Assessed
  <2> QED BY <2>1, <1>1, <1>3, <1>7
<1> QED BY <1>5, <1>6, <1>7

(* The verdict a parse is routed with.                                       *)
LEMMA RoutesAre ==
  ASSUME job \in Jobs, NEW force \in {"native", "recognition", None}
  PROVE  LET r == Ingest!Routed(force) IN
         \/ r \in [error : Ingest!Errors] /\ Ingest!IsError(r)
         \/ /\ ~Ingest!IsError(r) /\ r \in Ingest!Verdict
            /\ r.usable => Ingest!LayerUsable \/ r.overridden
            /\ force = "native" => r.overridden
            /\ force = "recognition" => ~r.usable
            /\ r.pages \in {0, IF Ingest!file.media = "pdf" THEN Ingest!Pages ELSE 1}
<1> DEFINE a == Ingest!Assessed
<1>0. None \notin {"native", "recognition"}
  OBVIOUS
<1>1. \/ a \in [error : Ingest!Errors] /\ Ingest!IsError(a)
      \/ /\ ~Ingest!IsError(a) /\ a \in Ingest!Verdict /\ (a.usable => Ingest!LayerUsable)
         /\ a.pages = (IF Ingest!file.media = "pdf" THEN Ingest!Pages ELSE 1)
  BY VerdictsAre
<1>2. Ingest!Routed(force) =
        IF force = None THEN a
        ELSE IF a = Ingest!Error("capability")
             THEN [usable |-> FALSE, pages |-> 0, judged |-> FALSE, overridden |-> TRUE]
        ELSE IF Ingest!IsError(a) THEN a
        ELSE [a EXCEPT !.usable = (force = "native"), !.overridden = TRUE]
  BY DEF Ingest!Routed
<1> HIDE DEF a
<1>3. CASE force = None
  BY <1>0, <1>1, <1>2, <1>3
<1>4. CASE force # None /\ a = Ingest!Error("capability")
  <2> DEFINE v == [usable |-> FALSE, pages |-> 0, judged |-> FALSE, overridden |-> TRUE]
  <2>1. v \in Ingest!Verdict /\ ~Ingest!IsError(v) /\ v.usable = FALSE /\ v.pages = 0 /\ v.overridden = TRUE
    BY DEF Ingest!Verdict, Ingest!IsError
  <2> HIDE DEF v
  <2>2. Ingest!Routed(force) = v
    BY <1>2, <1>4 DEF v
  <2> QED BY <2>1, <2>2
<1>5. CASE force # None /\ a # Ingest!Error("capability") /\ Ingest!IsError(a)
  BY <1>1, <1>2, <1>5
<1>6. CASE force # None /\ a # Ingest!Error("capability") /\ ~Ingest!IsError(a)
  <2> DEFINE v == [a EXCEPT !.usable = (force = "native"), !.overridden = TRUE]
  <2>1. a \in Ingest!Verdict /\ a.pages = (IF Ingest!file.media = "pdf" THEN Ingest!Pages ELSE 1)
    BY <1>1, <1>6
  <2>2. v \in Ingest!Verdict /\ v.usable = (force = "native") /\ v.overridden = TRUE /\ v.pages = a.pages
    BY <2>1 DEF Ingest!Verdict
  <2>3. ~Ingest!IsError(v)
    BY <2>2 DEF Ingest!Verdict, Ingest!IsError
  <2> HIDE DEF v
  <2>4. Ingest!Routed(force) = v
    BY <1>2, <1>6 DEF v
  <2> QED BY <1>0, <2>1, <2>2, <2>3, <2>4
<1> QED BY <1>3, <1>4, <1>5, <1>6

(* A parser that was selected is one that may serve.                         *)
LEMMA SelectionsAre ==
  ASSUME NEW native \in BOOLEAN, Ingest!Select(native) # "capability"
  PROVE  /\ Ingest!Select(native) \in Ingest!Parser \intersect job.usable /\ Ingest!Satisfies(Ingest!Select(native))
         /\ native \/ Ingest!RequiresNetwork(Ingest!Select(native))
<1> DEFINE c == Ingest!Min(Ingest!Candidates)
<1>1. Ingest!Candidates # {} /\ (native \/ Ingest!RequiresNetwork(Ingest!Priority[c])) /\ Ingest!Select(native) = Ingest!Priority[c]
  BY DEF Ingest!Select
<1>2. DOMAIN Ingest!Priority = 1 .. 4
  BY DEF Ingest!Priority
<1>3. \E x \in Ingest!Candidates : \A y \in Ingest!Candidates : x <= y
  <2> DEFINE C == Ingest!Candidates
  <2>1. C \subseteq {1, 2, 3, 4} /\ C # {}
    BY <1>1, <1>2 DEF Ingest!Candidates
  <2> HIDE DEF C
  <2>2. CASE 1 \in C
    BY <2>1, <2>2 DEF C
  <2>3. CASE 1 \notin C /\ 2 \in C
    BY <2>1, <2>3 DEF C
  <2>4. CASE 1 \notin C /\ 2 \notin C /\ 3 \in C
    BY <2>1, <2>4 DEF C
  <2>5. CASE C = {4}
    BY <2>5 DEF C
  <2> QED BY <2>1, <2>2, <2>3, <2>4, <2>5
<1>4. c \in Ingest!Candidates
  BY <1>3 DEF Ingest!Min
<1>5. c \in 1 .. 4 /\ Ingest!Satisfies(Ingest!Priority[c]) /\ Ingest!Priority[c] \in job.usable
  BY <1>2, <1>4 DEF Ingest!Candidates
<1>6. \A i \in 1 .. 4 : Ingest!Priority[i] \in Ingest!Parser
  BY DEF Ingest!Priority, Ingest!Parser
<1> QED BY <1>1, <1>5, <1>6

-----------------------------------------------------------------------------
(* The invariant, step by step                                               *)

(* What is said of a file stays while the parse is of the same one.          *)
LEMMA FilesStay ==
  ASSUME job' = job
  PROVE  /\ Ingest!file' = Ingest!file /\ Ingest!Pages' = Ingest!Pages /\ Ingest!LayerUsable' = Ingest!LayerUsable
<1>1. Ingest!file' = Ingest!file
  BY DEF Ingest!file
<1>2. Ingest!Pages' = Ingest!Pages
  BY <1>1 DEF Ingest!Pages
<1>3. Ingest!Bearing' = Ingest!Bearing
  BY <1>1 DEF Ingest!Bearing
<1> QED BY <1>1, <1>2, <1>3 DEF Ingest!LayerUsable

LEMMA ChoiceStays ==
  ASSUME job' = job, chosen' = chosen, ruling' = ruling
  PROVE  /\ Ingest!WellChosen' = Ingest!WellChosen /\ Ingest!Chunks' = Ingest!Chunks
         /\ \A p : Ingest!Satisfies(p)' = Ingest!Satisfies(p)
<1>1. \A p : Ingest!Satisfies(p)' = Ingest!Satisfies(p)
  BY FilesStay DEF Ingest!Satisfies
<1>2. Ingest!Satisfies(chosen)' = Ingest!Satisfies(chosen)
  BY FilesStay DEF Ingest!Satisfies
<1>3. Ingest!WellChosen' = Ingest!WellChosen
  BY <1>2, FilesStay DEF Ingest!WellChosen
<1>4. Ingest!Chunks' = Ingest!Chunks
  BY FilesStay DEF Ingest!Chunks
<1> QED BY <1>1, <1>3, <1>4

(* The most calls there may be.                                              *)
LEMMA CallsAreFew ==
  ASSUME job \in Jobs
  PROVE  /\ (Ingest!Pages + ChunkPages - 1) \div ChunkPages \in Nat
         /\ MaxParses * ((Ingest!Pages + ChunkPages - 1) \div ChunkPages + 1) \in Nat
<1>1. Ingest!Pages \in Nat /\ ChunkPages \in Nat \ {0} /\ MaxParses \in Nat
  BY FilesAre
<1>2. (Ingest!Pages + ChunkPages - 1) \div ChunkPages \in Nat
  BY <1>1, RoundedUp
<1> QED BY <1>1, <1>2

LEMMA DeadlineStays ==
  ASSUME Ingest!DeadlineHolds, job' = job, chosen' = chosen, used' = used, heard' = heard
  PROVE  Ingest!DeadlineHolds'
<1>1. Ingest!Beginning' = Ingest!Beginning
  BY DEF Ingest!Beginning
<1> QED BY <1>1, FilesStay DEF Ingest!DeadlineHolds

(* No time is over the deadline when none has passed.                        *)
LEMMA DeadlineBegins ==
  ASSUME Ingest!DeadlineHolds, job' = job, used' = 0, heard' = heard
  PROVE  Ingest!DeadlineHolds'
<1>1. Ingest!Beginning' \in Nat
  BY DEF Ingest!Beginning
<1>2. ASSUME NEW b \in Nat PROVE 0 <= ParseDeadline + b
  OBVIOUS
<1>3. 0 <= ParseDeadline + Ingest!Beginning'
  BY <1>1, <1>2
<1>4. used' <= ParseDeadline + Ingest!Beginning'
  BY <1>3, Zenon
<1> QED BY <1>4, FilesStay DEF Ingest!DeadlineHolds

(* What a parse took, and what is left of its time while calls are made.     *)
InTime ==
  ~Drips => used <= ParseDeadline + Ingest!Beginning /\ (left > 0 => used + left = ParseDeadline)

LEMMA IngestStarts == ASSUME Ingest!Init PROVE Ingest!IngestInv
<1>1. /\ job \in Jobs /\ step = "accept" /\ ruling = None /\ chosen = None /\ ahead = <<>> /\ got = <<>> /\ attempt = 0
      /\ left = 0 /\ used = 0 /\ heard = <<>> /\ parsed = None
  BY DEF Ingest!Init
<1>2. Ingest!TypeOK
  BY <1>1 DEF Ingest!TypeOK
<1>3. Ingest!ParseIsOnCourse
  BY <1>1 DEF Ingest!ParseIsOnCourse, Ingest!Sent
<1>4. Ingest!DocumentsAreWhole
  BY <1>1 DEF Ingest!DocumentsAreWhole, Ingest!Parsed
<1>5. Ingest!DeadlineHolds
  <2>1. Ingest!Beginning \in Nat
    BY DEF Ingest!Beginning
  <2> QED BY <1>1, <2>1, CallsAreFew DEF Ingest!DeadlineHolds
<1> QED BY <1>2, <1>3, <1>4, <1>5 DEF Ingest!IngestInv

(* A parse that is over says why, and keeps what it did.                     *)
LEMMA ErrorsKeep ==
  ASSUME Ingest!IngestInv, NEW reason \in Ingest!Errors, Ingest!Fails(reason), used' = used, heard' = heard
  PROVE  Ingest!IngestInv'
<1>1. /\ step' = "done" /\ parsed' = Ingest!Error(reason) /\ job' = job /\ ruling' = ruling /\ chosen' = chosen
      /\ ahead' = ahead /\ got' = got /\ attempt' = attempt /\ left' = left
  BY DEF Ingest!Fails, Ingest!Closes, Ingest!Ends
<1>2. Ingest!Error(reason) \in [error : Ingest!Errors] /\ Ingest!IsError(Ingest!Error(reason))
  BY DEF Ingest!Error, Ingest!IsError
<1>3. Ingest!TypeOK'
  BY <1>1, <1>2 DEF Ingest!TypeOK, Ingest!IngestInv
<1>4. Ingest!ParseIsOnCourse'
  BY <1>1 DEF Ingest!ParseIsOnCourse, Ingest!IngestInv, Ingest!Sent
<1>5. Ingest!DocumentsAreWhole'
  <2>1. ~Ingest!Parsed'
    BY <1>1, <1>2 DEF Ingest!Parsed, Ingest!IsError
  <2> QED BY <2>1 DEF Ingest!DocumentsAreWhole
<1>6. Ingest!DeadlineHolds'
  BY <1>1, DeadlineStays DEF Ingest!IngestInv
<1> QED BY <1>3, <1>4, <1>5, <1>6 DEF Ingest!IngestInv

(* A document of pages that are the file's.                                  *)
LEMMA DocumentsKeep ==
  ASSUME Ingest!IngestInv, step \in {"read", "map"}, NEW pages \in Seq(Nat), NEW words \in BOOLEAN,
         Ingest!Closes(Ingest!Validated(pages, words)), used' = used, heard' = heard,
         chosen \in {Ingest!Native, Ingest!Endpoint} => pages = Ingest!Numbered(Ingest!Pages),
         Len(pages) <= Ingest!Pages, chosen \in {Ingest!Endpoint, "gcv"} => words
  PROVE  Ingest!IngestInv'
<1>0. CASE ruling.pages = 0 /\ Len(pages) > MaxPages
  <2>1. Ingest!Fails("page_limit")
    BY <1>0 DEF Ingest!Validated, Ingest!Fails
  <2>2. "page_limit" \in Ingest!Errors
    BY DEF Ingest!Errors
  <2> QED BY <2>1, <2>2, ErrorsKeep
<1>1. CASE ~(ruling.pages = 0 /\ Len(pages) > MaxPages)
  <2> DEFINE d == Ingest!Document(chosen, pages, words)
  <2>1. /\ step' = "done" /\ parsed' = d /\ job' = job /\ ruling' = ruling /\ chosen' = chosen
        /\ ahead' = ahead /\ got' = got /\ attempt' = attempt /\ left' = left
    BY <1>1 DEF Ingest!Closes, Ingest!Ends, Ingest!Validated
  <2>2. Ingest!WellChosen /\ Ingest!TypeOK /\ job \in Jobs
    BY DEF Ingest!IngestInv, Ingest!ParseIsOnCourse
  <2>3. /\ chosen \in Ingest!Parser \intersect job.usable /\ Ingest!Satisfies(chosen) /\ job.named \in {None, chosen}
        /\ job.force = "recognition" => Ingest!RequiresNetwork(chosen)
        /\ chosen = Ingest!Native => Ingest!LayerUsable \/ ruling.overridden
        /\ ruling.pages \in {0, Ingest!Pages} /\ ruling.pages <= MaxPages
    BY <2>2 DEF Ingest!WellChosen
  <2>4. d.parser = chosen /\ d.pages = pages /\ d.words = words /\ d \in [parser : Ingest!Parser, pages : Seq(Nat), words : BOOLEAN]
    BY <2>3 DEF Ingest!Document
  <2> HIDE DEF d
  <2>5. Len(pages) <= MaxPages
    BY <1>1, <2>2, <2>3, FilesAre
  <2>6. Ingest!TypeOK'
    BY <2>1, <2>2, <2>4 DEF Ingest!TypeOK
  <2>7. Ingest!ParseIsOnCourse'
    BY <2>1, <2>2 DEF Ingest!ParseIsOnCourse, Ingest!Sent
  <2>8. Ingest!DocumentsAreWhole'
    BY <2>1, <2>3, <2>4, <2>5, FilesStay DEF Ingest!DocumentsAreWhole, Ingest!Satisfies
  <2>9. Ingest!DeadlineHolds'
    BY <2>1, DeadlineStays DEF Ingest!IngestInv
  <2> QED BY <2>6, <2>7, <2>8, <2>9 DEF Ingest!IngestInv
<1> QED BY <1>0, <1>1

LEMMA FilesAreAccepted == ASSUME Ingest!IngestInv, Ingest!Accept PROVE Ingest!IngestInv'
<1>1. Ingest!Refusal \in {"mime_type", "size_limit", None} /\ step = "accept"
  BY DEF Ingest!Refusal, Ingest!Accept
<1>2. CASE Ingest!Refusal # None
  <2>1. Ingest!Fails(Ingest!Refusal) /\ used' = used /\ heard' = heard
    BY <1>2 DEF Ingest!Accept
  <2>2. Ingest!Refusal \in Ingest!Errors
    BY <1>1, <1>2 DEF Ingest!Errors
  <2> QED BY <2>1, <2>2, ErrorsKeep
<1>3. CASE Ingest!Refusal = None
  <2>1. /\ step' = "plan" /\ parsed' = parsed /\ job' = job /\ ruling' = ruling /\ chosen' = chosen /\ ahead' = ahead
        /\ got' = got /\ attempt' = attempt /\ left' = left /\ used' = used /\ heard' = heard
    BY <1>3 DEF Ingest!Accept
  <2>2. Ingest!TypeOK'
    BY <2>1 DEF Ingest!TypeOK, Ingest!IngestInv
  <2>3. Ingest!ParseIsOnCourse'
    BY <1>1, <2>1 DEF Ingest!ParseIsOnCourse, Ingest!Sent, Ingest!IngestInv
  <2>4. Ingest!DocumentsAreWhole'
    BY <2>1 DEF Ingest!DocumentsAreWhole, Ingest!Parsed
  <2>5. Ingest!DeadlineHolds'
    BY <2>1, DeadlineStays DEF Ingest!IngestInv
  <2> QED BY <2>2, <2>3, <2>4, <2>5 DEF Ingest!IngestInv
<1> QED BY <1>2, <1>3

(* What a parse is planned with.                                             *)
LEMMA ParsesArePlanned == ASSUME Ingest!IngestInv, Ingest!Plan PROVE Ingest!IngestInv'
<1> DEFINE named == job.named # None
           path == IF named /\ Ingest!SelectNamed # "capability" THEN Ingest!Implied ELSE job.force
           routed == Ingest!Routed(path)
           parser == IF named THEN Ingest!SelectNamed
                     ELSE IF Ingest!IsError(routed) THEN None ELSE Ingest!Select(routed.usable)
           over == ~Ingest!IsError(routed) /\ routed.pages > MaxPages
           error == IF named /\ parser = "capability" THEN parser
                    ELSE IF Ingest!IsError(routed) THEN routed.error
                    ELSE IF over THEN "page_limit"
                    ELSE IF parser = "capability" THEN parser ELSE None
<1>1. /\ step = "plan" /\ used' = used /\ heard' = heard
      /\ IF error # None THEN Ingest!Fails(error)
         ELSE /\ ruling' = routed /\ chosen' = parser
              /\ step' = (IF Ingest!RequiresNetwork(parser) THEN "send" ELSE "read")
              /\ UNCHANGED <<job, ahead, got, attempt, left, parsed>>
  BY DEF Ingest!Plan
<1>2. /\ job \in Jobs /\ job \in Ingest!Job /\ Ingest!TypeOK /\ ahead = <<>> /\ got = <<>> /\ heard = <<>> /\ used = 0
      /\ attempt = 0 /\ 0 < MaxParses
  BY <1>1, FilesAre DEF Ingest!IngestInv, Ingest!ParseIsOnCourse, Ingest!Sent
<1>3. /\ job.need \subseteq Ingest!Capability /\ job.named \in Ingest!Parser \union {"unknown", None}
      /\ job.force \in {"native", "recognition", None} /\ job.usable \subseteq Ingest!Parser
  BY <1>2 DEF Ingest!Job
<1>4. path \in {"native", "recognition", None}
  BY <1>3 DEF Ingest!Implied
<1>5. \/ routed \in [error : Ingest!Errors] /\ Ingest!IsError(routed)
      \/ /\ ~Ingest!IsError(routed) /\ routed \in Ingest!Verdict
         /\ routed.usable => Ingest!LayerUsable \/ routed.overridden
         /\ path = "native" => routed.overridden
         /\ path = "recognition" => ~routed.usable
         /\ routed.pages \in {0, IF Ingest!file.media = "pdf" THEN Ingest!Pages ELSE 1}
  BY <1>2, <1>4, RoutesAre
<1>6. {"capability", "page_limit"} \subseteq Ingest!Errors
  BY DEF Ingest!Errors
<1>7. CASE error # None
  <2>1. error \in Ingest!Errors
    BY <1>5, <1>6, <1>7
  <2> HIDE DEF error
  <2>2. Ingest!Fails(error)
    BY <1>1, <1>7
  <2> QED BY <1>1, <2>1, <2>2, ErrorsKeep
<1>8. CASE error = None
  <2>1. /\ ruling' = routed /\ chosen' = parser
        /\ step' = (IF Ingest!RequiresNetwork(parser) THEN "send" ELSE "read")
        /\ job' = job /\ ahead' = ahead /\ got' = got /\ attempt' = attempt /\ left' = left /\ parsed' = parsed
    BY <1>1, <1>8
  <2>2. ~Ingest!IsError(routed) /\ parser # "capability" /\ ~(routed.pages > MaxPages)
    <3>1. \A r \in Ingest!Errors : r # None
      OBVIOUS
    <3> QED BY <1>5, <1>6, <1>8, <3>1
  <2>3. routed \in Ingest!Verdict /\ routed.usable \in BOOLEAN /\ routed.pages \in Nat
    BY <1>5, <2>2 DEF Ingest!Verdict
  <2> HIDE DEF routed
  <2>4. /\ parser \in Ingest!Parser \intersect job.usable /\ Ingest!Satisfies(parser) /\ job.named \in {None, parser}
        /\ job.force = "recognition" => Ingest!RequiresNetwork(parser)
        /\ parser = Ingest!Native => Ingest!LayerUsable \/ routed.overridden
    <3>1. CASE named
      <4>1. parser = job.named /\ job.named \in job.usable /\ Ingest!Satisfies(job.named) /\ job.force \in {None, Ingest!Implied}
            /\ path = Ingest!Implied
        BY <3>1, <2>2 DEF Ingest!SelectNamed
      <4>2. Ingest!Implied = (IF Ingest!RequiresNetwork(job.named) THEN "recognition" ELSE "native")
        BY DEF Ingest!Implied
      <4>3. job.force = "recognition" => Ingest!RequiresNetwork(parser)
        BY <4>1, <4>2
      <4>4. parser = Ingest!Native => routed.overridden
        BY <4>1, <4>2, <1>5, <2>2 DEF Ingest!RequiresNetwork
      <4> QED BY <1>3, <4>1, <4>3, <4>4
    <3>2. CASE ~named
      <4>1. parser = Ingest!Select(routed.usable) /\ path = job.force /\ job.named = None
        BY <2>2, <3>2
      <4>2. /\ parser \in Ingest!Parser \intersect job.usable /\ Ingest!Satisfies(parser)
            /\ routed.usable \/ Ingest!RequiresNetwork(parser)
        BY <2>2, <2>3, <4>1, SelectionsAre
      <4>3. job.force = "recognition" => Ingest!RequiresNetwork(parser)
        BY <1>5, <2>2, <4>1, <4>2
      <4>4. parser = Ingest!Native => routed.usable
        BY <4>2 DEF Ingest!RequiresNetwork
      <4> QED BY <1>5, <2>2, <4>1, <4>2, <4>3, <4>4
    <3> QED BY <3>1, <3>2
  <2>5. routed.pages \in {0, Ingest!Pages} /\ routed.pages <= MaxPages
    <3>1. Ingest!file.media \in {"pdf", "image"}
      BY <2>4 DEF Ingest!Satisfies, Ingest!MediaTypes
    <3> QED BY <1>2, <1>5, <2>2, <2>3, <3>1, FilesAre
  <2> HIDE DEF parser, path, error, over, named
  <2>6. Ingest!WellChosen'
    BY <2>1, <2>3, <2>4, <2>5, FilesStay DEF Ingest!WellChosen, Ingest!Satisfies
  <2>7. Ingest!TypeOK'
    BY <1>1, <1>2, <2>1, <2>3, <2>4 DEF Ingest!TypeOK
  <2>8. (step = "read")' = (chosen = Ingest!Native)' /\ step' \in {"send", "read"}
    BY <2>1 DEF Ingest!RequiresNetwork
  <2>9. Ingest!ParseIsOnCourse'
    BY <1>1, <1>2, <2>1, <2>6, <2>8 DEF Ingest!ParseIsOnCourse, Ingest!Sent
  <2>10. Ingest!DocumentsAreWhole'
    BY <2>8 DEF Ingest!DocumentsAreWhole, Ingest!Parsed
  <2>11. Ingest!DeadlineHolds'
    BY <1>1, <1>2, <2>1, DeadlineBegins DEF Ingest!IngestInv
  <2> QED BY <2>7, <2>9, <2>10, <2>11 DEF Ingest!IngestInv
<1> QED BY <1>7, <1>8

(* pdfium reads every page.                                                  *)
LEMMA TextLayersAreRead == ASSUME Ingest!IngestInv, Ingest!ReadNative PROVE Ingest!IngestInv'
<1>1. step = "read" /\ used' = used /\ heard' = heard
  BY DEF Ingest!ReadNative
<1>2. CASE Ingest!Fails("internal")
  <2>1. "internal" \in Ingest!Errors
    BY DEF Ingest!Errors
  <2> QED BY <1>1, <1>2, <2>1, ErrorsKeep
<1>3. CASE Ingest!Closes(Ingest!Validated(Ingest!Numbered(Ingest!Pages), Ingest!Bearing > 0))
  <2>1. job \in Jobs /\ chosen = Ingest!Native
    BY <1>1 DEF Ingest!IngestInv, Ingest!ParseIsOnCourse
  <2>2. /\ Ingest!Numbered(Ingest!Pages) \in Seq(Nat) /\ Len(Ingest!Numbered(Ingest!Pages)) = Ingest!Pages
        /\ (Ingest!Bearing > 0) \in BOOLEAN /\ Ingest!Pages <= Ingest!Pages
    BY <2>1, FilesAre, ChunksAreNumbered
  <2>3. ~(chosen \in {Ingest!Endpoint, "gcv"})
    BY <2>1 DEF Ingest!Native, Ingest!Endpoint
  <2> QED BY <1>1, <1>3, <2>2, <2>3, DocumentsKeep
<1> QED BY <1>2, <1>3 DEF Ingest!ReadNative

(* The first call is of the first chunk, with all of the time.               *)
LEMMA CallsBegin == ASSUME Ingest!IngestInv, Ingest!Start PROVE Ingest!IngestInv'
<1>1. /\ step = "send" /\ ahead = <<>> /\ got = <<>> /\ used' = used /\ heard' = heard
  BY DEF Ingest!Start
<1>2. /\ job \in Jobs /\ Ingest!WellChosen /\ chosen # Ingest!Native /\ Ingest!TypeOK
      /\ heard = <<>> /\ attempt = 0 /\ used = 0
  BY <1>1 DEF Ingest!IngestInv, Ingest!ParseIsOnCourse, Ingest!Sent
<1>3. CASE Ingest!Opens /\ ~Ingest!NativeReader
  <2>1. "capability" \in Ingest!Errors
    BY DEF Ingest!Errors
  <2> QED BY <1>1, <1>3, <2>1, ErrorsKeep DEF Ingest!Start
<1>4. CASE ~(Ingest!Opens /\ ~Ingest!NativeReader) /\ Ingest!Opens /\ Ingest!file.opens # "fine"
  <2>1. Ingest!file.opens \in Ingest!Errors
    BY <1>2, <1>4, FilesAre DEF Ingest!Errors
  <2> QED BY <1>1, <1>4, <2>1, ErrorsKeep DEF Ingest!Start
<1>5. CASE ~(Ingest!Opens /\ ~Ingest!NativeReader) /\ ~(Ingest!Opens /\ Ingest!file.opens # "fine")
  <2>1. /\ ahead' = Ingest!Chunks /\ left' = ParseDeadline /\ attempt' = 0
        /\ step' = (IF Ingest!Chunks = <<>> THEN "map" ELSE "send")
        /\ job' = job /\ ruling' = ruling /\ chosen' = chosen /\ got' = got /\ parsed' = parsed
    BY <1>1, <1>5 DEF Ingest!Start
  <2>2. /\ Ingest!Chunks \in Seq(Seq(Nat))
        /\ chosen = Ingest!Endpoint => Chunked(Ingest!Chunks, Ingest!Pages)
        /\ chosen # Ingest!Endpoint => Ingest!Chunks = <<Ingest!Numbered(Ingest!Pages)>>
    BY <1>2, ChunksAre DEF Ingest!WellChosen
  <2>3. Ingest!WellChosen' /\ Ingest!Chunks' = Ingest!Chunks /\ Ingest!Pages' = Ingest!Pages
    BY <1>2, <2>1, ChoiceStays, FilesStay
  <2>4. Ingest!TypeOK'
    BY <1>1, <1>2, <2>1, <2>2 DEF Ingest!TypeOK
  <2>5. (chosen = Ingest!Endpoint => got = Ingest!Numbered(IF ahead = <<>> THEN Ingest!Pages ELSE Head(ahead)[1] - 1))'
    <3> SUFFICES ASSUME chosen = Ingest!Endpoint
                 PROVE  <<>> = Ingest!Numbered(IF Ingest!Chunks = <<>> THEN Ingest!Pages ELSE Head(Ingest!Chunks)[1] - 1)
      BY <1>1, <2>1, <2>3 DEF Ingest!Numbered
    <3>1. IF Ingest!Chunks = <<>> THEN Ingest!Pages = 0 ELSE Head(Ingest!Chunks)[1] - 1 = 0
      BY <2>2 DEF Chunked
    <3>2. Ingest!Numbered(0) = <<>>
      BY DEF Ingest!Numbered
    <3> QED BY <3>1, <3>2
  <2>6. (chosen # Ingest!Endpoint => IF ahead = <<>> THEN Len(got) <= Ingest!Pages ELSE got = <<>>)'
    <3>1. chosen # Ingest!Endpoint => Ingest!Chunks # <<>>
      BY <2>2
    <3>2. got' = <<>> /\ ahead' = Ingest!Chunks /\ chosen' = chosen
      BY <1>1, <2>1
    <3> QED BY <3>1, <3>2
  <2>7. Ingest!Sending'
    <3>1. (Len(ahead) <= Len(Ingest!Chunks))' /\ (\A k \in DOMAIN ahead : ahead[k] = Ingest!Chunks[Len(Ingest!Chunks) - Len(ahead) + k])'
      BY <2>1, <2>2, <2>3
    <3>2. InTime'
      <4>1. Ingest!Beginning' \in Nat
        BY DEF Ingest!Beginning
      <4> QED BY <1>1, <1>2, <2>1, <4>1 DEF InTime
    <3>3. (\A i \in DOMAIN heard : heard[i] \in Ingest!Transient \union {"answer"})'
      BY <1>1, <1>2
    <3>4. (Len(heard) <= MaxParses * (Len(Ingest!Chunks) - Len(ahead)) + attempt)'
      <4>1. MaxParses * 0 = 0 /\ Len(Ingest!Chunks) - Len(Ingest!Chunks) = 0
        BY <2>2
      <4> QED BY <1>1, <1>2, <2>1, <2>3, <4>1
    <3> QED BY <2>5, <2>6, <3>1, <3>2, <3>3, <3>4 DEF Ingest!Sending, InTime
  <2>8. Ingest!ParseIsOnCourse'
    BY <1>1, <1>2, <2>1, <2>3, <2>7 DEF Ingest!ParseIsOnCourse, Ingest!Sent
  <2>9. Ingest!DocumentsAreWhole'
    BY <2>1 DEF Ingest!DocumentsAreWhole, Ingest!Parsed
  <2>10. Ingest!DeadlineHolds'
    BY <1>1, <2>1, DeadlineStays DEF Ingest!IngestInv
  <2> QED BY <2>4, <2>8, <2>9, <2>10 DEF Ingest!IngestInv
<1> QED BY <1>3, <1>4, <1>5

(* What time a call or a wait takes is no longer left; only the start of an  *)
(* analysis takes more than is.                                              *)
LEMMA ParseTimePasses ==
  ASSUME used \in Nat, left \in Nat, left # 0, NEW time \in Nat, Ingest!Elapses(time), chosen' = chosen, InTime,
         ~Drips => time <= left \/ time <= Ingest!Beginning
  PROVE  used' \in Nat /\ left' \in Nat /\ InTime'
<1>1. Ingest!Beginning \in Nat /\ Ingest!Beginning' = Ingest!Beginning
  BY DEF Ingest!Beginning
<1> QED BY <1>1 DEF Ingest!Elapses, InTime

(* An attempt takes no more than is left, or than the start of an analysis.  *)
LEMMA AttemptsTake ==
  ASSUME left \in Nat
  PROVE  Ingest!AttemptTime \in Nat /\ (Ingest!AttemptTime <= left \/ Ingest!AttemptTime <= Ingest!Beginning)
<1>1. Ingest!Beginning \in Nat
  BY DEF Ingest!Beginning
<1> QED BY <1>1 DEF Ingest!AttemptTime, Ingest!Shorter

(* One more call is made of the current chunk.                               *)
LEMMA CallsAreCounted ==
  ASSUME Ingest!IngestInv, step = "send", ahead # <<>>, NEW end \in Ingest!Errors \union {"answer"},
         heard' = Append(heard, end), job' = job, InTime'
  PROVE  /\ Ingest!DeadlineHolds'
         /\ heard' \in Seq(Ingest!Errors \union {"answer"})
         /\ Len(heard') = Len(heard) + 1
         /\ end \in Ingest!Transient \union {"answer"} => \A i \in DOMAIN heard' : heard'[i] \in Ingest!Transient \union {"answer"}
<1>1. /\ Ingest!Sending /\ Ingest!TypeOK /\ job \in Jobs /\ attempt < MaxParses /\ Ingest!WellChosen
  BY DEF Ingest!IngestInv, Ingest!ParseIsOnCourse, Ingest!Sent
<1>2. heard \in Seq(Ingest!Errors \union {"answer"}) /\ ahead \in Seq(Seq(Nat)) /\ attempt \in Nat
  BY <1>1 DEF Ingest!TypeOK
<1>3. /\ heard' \in Seq(Ingest!Errors \union {"answer"}) /\ Len(heard') = Len(heard) + 1
      /\ heard'[Len(heard')] = end /\ \A i \in DOMAIN heard : heard'[i] = heard[i]
      /\ \A i \in DOMAIN heard' : i \in DOMAIN heard \/ i = Len(heard')
  BY <1>2
<1>4. \A i \in DOMAIN heard : heard[i] \in Ingest!Transient \union {"answer"}
  BY <1>1 DEF Ingest!Sending
<1>5. (\A i \in DOMAIN heard : i < Len(heard) => heard[i] \in Ingest!Transient \union {"answer"})'
  BY <1>2, <1>3, <1>4
<1>6. (Len(heard) <= MaxParses * ((Ingest!Pages + ChunkPages - 1) \div ChunkPages + 1))'
  <2> DEFINE m == (Ingest!Pages + ChunkPages - 1) \div ChunkPages
             c == Len(Ingest!Chunks)
             t == Len(ahead)
  <2>1. m \in Nat /\ c \in Nat /\ c <= m + 1
    BY <1>1, ChunksAre DEF Ingest!WellChosen
  <2>2. t \in Nat \ {0} /\ t <= c /\ Len(heard) <= MaxParses * (c - t) + attempt
    BY <1>1, <1>2 DEF Ingest!Sending
  <2> HIDE DEF m, c, t
  <2>3. PICK x \in Nat, y \in Nat : x = c - t /\ m + 1 = x + 1 + y
    <3>1. c - t \in Nat /\ m - (c - t) \in Nat
      BY <2>1, <2>2
    <3> QED BY <3>1, <2>1, <2>2
  <2>4. MaxParses * (m + 1) = MaxParses * x + MaxParses + MaxParses * y /\ MaxParses * y \in Nat /\ MaxParses * x \in Nat
    BY <2>3
  <2>5. Len(heard) + 1 <= MaxParses * (m + 1)
    <3>1. Len(heard) <= MaxParses * x + attempt
      BY <2>2, <2>3
    <3>2. PICK p, q : p = MaxParses * x /\ q = MaxParses * y
      OBVIOUS
    <3>3. Len(heard) \in Nat /\ p \in Nat /\ q \in Nat /\ Len(heard) <= p + attempt
      BY <1>2, <2>4, <3>1, <3>2
    <3>4. Len(heard) + 1 <= p + MaxParses + q
      BY <1>1, <1>2, <3>3
    <3> QED BY <2>4, <3>2, <3>4
  <2> QED BY <1>3, <2>5, FilesStay DEF m
<1>7. Ingest!DeadlineHolds'
  BY <1>5, <1>6 DEF Ingest!DeadlineHolds, InTime
<1> QED BY <1>3, <1>4, <1>7

(* What a parse stands at while it sends.                                    *)
LEMMA SendingIs ==
  ASSUME Ingest!IngestInv, (step = "send" /\ ahead # <<>>) \/ step = "wait"
  PROVE  /\ Ingest!Sending /\ Ingest!TypeOK /\ job \in Jobs /\ Ingest!WellChosen /\ chosen # Ingest!Native
         /\ ahead # <<>> /\ attempt \in Nat /\ attempt < MaxParses /\ ahead \in Seq(Seq(Nat)) /\ got \in Seq(Nat)
         /\ left \in Nat /\ used \in Nat /\ InTime
         /\ chosen \in Ingest!Parser /\ Ingest!Satisfies(chosen)
<1>1. Ingest!TypeOK /\ Ingest!ParseIsOnCourse
  BY DEF Ingest!IngestInv
<1>2. Ingest!Sending /\ ahead # <<>>
  BY <1>1 DEF Ingest!ParseIsOnCourse, Ingest!Sent
<1>3. job \in Jobs /\ Ingest!WellChosen /\ chosen # Ingest!Native /\ attempt < MaxParses
  BY <1>1 DEF Ingest!ParseIsOnCourse
<1>4. InTime
  BY <1>2 DEF Ingest!Sending, InTime
<1> QED BY <1>1, <1>2, <1>3, <1>4 DEF Ingest!TypeOK, Ingest!WellChosen

(* What a service answers of a chunk: all of it, or less.                    *)
LEMMA AnswersAre ==
  ASSUME NEW pages \in Seq(Nat), Len(pages) > 0 \/ chosen # Ingest!Endpoint, NEW answer \in Ingest!Answers(pages)
  PROVE  /\ answer[1] \in {"answer", "rate_limit", "service"} /\ answer[2] \in Seq(Nat) /\ Len(answer[2]) <= Len(pages)
         /\ chosen = Ingest!Endpoint /\ Len(answer[2]) = Len(pages) => answer[2] = pages
<1>1. CASE answer = <<"answer", pages>>
  BY <1>1
<1>2. CASE answer = <<"answer", SubSeq(pages, 1, Len(pages) - 1)>> /\ chosen # "gcv"
  BY <1>2, AllButTheLast
<1>3. CASE chosen = "gcv" /\ \E status \in {"rate_limit", "service"} : answer = <<status, <<>>>>
  <2>1. chosen # Ingest!Endpoint
    BY <1>3 DEF Ingest!Endpoint
  <2> QED BY <1>3, <2>1
<1> QED BY <1>1, <1>2, <1>3 DEF Ingest!Answers

(* A parse that a call ended.                                                *)
LEMMA CallsEnd ==
  ASSUME Ingest!TypeOK, job \in Jobs, job' = job, ruling' = ruling, chosen' = chosen, ahead' = ahead, got' = got,
         attempt' \in 0 .. MaxParses, used' \in Nat, left' \in Nat, heard' \in Seq(Ingest!Errors \union {"answer"}),
         NEW r \in Ingest!Errors, step' = "done", parsed' = Ingest!Error(r), Ingest!DeadlineHolds'
  PROVE  Ingest!IngestInv'
<1>1. Ingest!Error(r) \in [error : Ingest!Errors] /\ Ingest!IsError(Ingest!Error(r))
  BY DEF Ingest!Error, Ingest!IsError
<1>2. Ingest!TypeOK'
  BY <1>1 DEF Ingest!TypeOK
<1>3. Ingest!ParseIsOnCourse'
  BY DEF Ingest!ParseIsOnCourse, Ingest!Sent
<1>4. Ingest!DocumentsAreWhole'
  <2>1. ~Ingest!Parsed'
    BY <1>1 DEF Ingest!Parsed, Ingest!IsError
  <2> QED BY <2>1 DEF Ingest!DocumentsAreWhole
<1> QED BY <1>2, <1>3, <1>4 DEF Ingest!IngestInv

(* The pages answered, and the chunks left, after one more chunk.            *)
LEMMA PagesAreInOrder ==
  ASSUME Ingest!IngestInv, step = "send", ahead # <<>>, job' = job, ruling' = ruling, chosen' = chosen,
         NEW pages \in Seq(Nat), Len(pages) <= Len(Head(ahead)), chosen = Ingest!Endpoint => pages = Head(ahead),
         ahead' = Tail(ahead), got' = got \o pages
  PROVE  /\ ahead' \in Seq(Seq(Nat)) /\ got' \in Seq(Nat) /\ Len(ahead') = Len(ahead) - 1
         /\ ahead' = <<>> <=> Len(ahead) = 1
         /\ Len(ahead') <= Len(Ingest!Chunks') /\ (\A k \in DOMAIN ahead : ahead[k] = Ingest!Chunks[Len(Ingest!Chunks) - Len(ahead) + k])'
         /\ (chosen = Ingest!Endpoint => got = Ingest!Numbered(IF ahead = <<>> THEN Ingest!Pages ELSE Head(ahead)[1] - 1))'
         /\ (chosen # Ingest!Endpoint => IF ahead = <<>> THEN Len(got) <= Ingest!Pages ELSE got = <<>>)'
<1>1. PICK cs : cs = Ingest!Chunks
  OBVIOUS
<1>2. /\ Ingest!Sending /\ job \in Jobs /\ ahead \in Seq(Seq(Nat)) /\ got \in Seq(Nat)
      /\ chosen \in Ingest!Parser /\ Ingest!Satisfies(chosen)
  BY SendingIs
<1>3. /\ cs \in Seq(Seq(Nat))
      /\ chosen = Ingest!Endpoint => Chunked(cs, Ingest!Pages)
      /\ chosen # Ingest!Endpoint => cs = <<Ingest!Numbered(Ingest!Pages)>>
  BY <1>1, <1>2, ChunksAre
<1>4. Ingest!Chunks' = cs /\ Ingest!Pages' = Ingest!Pages /\ Ingest!Pages \in Nat
  BY <1>1, <1>2, ChoiceStays, FilesStay, FilesAre
<1>5. EndOf(ahead, cs)
  BY <1>1, <1>2 DEF Ingest!Sending, EndOf
<1>6. PICK ts, hd : ts = ahead' /\ hd = Head(ahead)
  OBVIOUS
<1>7. /\ ts \in Seq(Seq(Nat)) /\ Len(ts) = Len(ahead) - 1 /\ EndOf(ts, cs)
      /\ hd = cs[Len(cs) - Len(ahead) + 1] /\ hd \in Seq(Nat)
      /\ ts = <<>> <=> Len(ahead) = 1
      /\ ts # <<>> => Head(ts) = cs[Len(cs) - Len(ahead) + 2]
  BY <1>2, <1>3, <1>5, <1>6, ChunksGoOn
<1>8. got' \in Seq(Nat) /\ Len(got') = Len(got) + Len(pages)
  BY <1>2, JoinedAre
<1>9. Len(ahead) \in Nat \ {0} /\ Len(cs) \in Nat /\ Len(ahead) <= Len(cs)
  BY <1>2, <1>3, <1>5 DEF EndOf
<1>10. CASE chosen = Ingest!Endpoint
  <2>1. PICK k : k = Len(cs) - Len(ahead) + 1
    OBVIOUS
  <2>2. k \in 1 .. Len(cs) /\ (k = Len(cs) <=> Len(ahead) = 1) /\ k + 1 = Len(cs) - Len(ahead) + 2
    <3>1. PICK c, t : c = Len(cs) /\ t = Len(ahead)
      OBVIOUS
    <3>2. c \in Nat /\ t \in Nat \ {0} /\ t <= c /\ k = c - t + 1
      BY <1>9, <2>1, <3>1
    <3>3. k \in 1 .. c /\ (k = c => t = 1) /\ (t = 1 => k = c) /\ k + 1 = c - t + 2
      BY <3>2
    <3> QED BY <3>1, <3>3
  <2>3. PICK first : first = hd[1]
    OBVIOUS
  <2>4. /\ Len(hd) > 0 /\ first \in Nat \ {0} /\ \A i \in 1 .. Len(hd) : hd[i] = first - 1 + i
        /\ first - 1 + Len(hd) = (IF k = Len(cs) THEN Ingest!Pages ELSE cs[k + 1][1] - 1)
    BY <1>3, <1>7, <1>10, <2>1, <2>2, <2>3 DEF Chunked
  <2>5. From(first, hd)
    BY <2>3, <2>4 DEF From
  <2>6. got = Ingest!Numbered(first - 1) /\ pages = hd
    BY <1>2, <1>6, <1>10, <2>3 DEF Ingest!Sending
  <2>7. first - 1 \in Nat /\ first - 1 + Len(hd) \in Nat
    BY <1>7, <2>4
  <2>8. PICK b : b = Ingest!Numbered(first - 1 + Len(hd))
    OBVIOUS
  <2>9. /\ b \in Seq(Nat) /\ Len(b) = first - 1 + Len(hd) /\ \A i \in 1 .. Len(b) : b[i] = i
        /\ Len(got) = first - 1 /\ \A i \in 1 .. Len(got) : got[i] = i
    BY <2>6, <2>7, <2>8, ChunksAreNumbered
  <2>10. got \o hd = b
    BY <1>2, <1>7, <2>4, <2>5, <2>9, PagesGoOn
  <2>11. first - 1 + Len(hd) = (IF ts = <<>> THEN Ingest!Pages ELSE Head(ts)[1] - 1)
    BY <1>7, <2>2, <2>4
  <2>12. got' = Ingest!Numbered(IF ts = <<>> THEN Ingest!Pages ELSE Head(ts)[1] - 1)
    BY <2>6, <2>8, <2>10, <2>11
  <2>13. (Ingest!Numbered(IF ahead = <<>> THEN Ingest!Pages ELSE Head(ahead)[1] - 1))'
           = Ingest!Numbered(IF ts = <<>> THEN Ingest!Pages ELSE Head(ts)[1] - 1)
    BY <1>4, <1>6 DEF Ingest!Numbered
  <2> QED BY <1>4, <1>6, <1>7, <1>8, <1>10, <2>12, <2>13 DEF EndOf
<1>11. CASE chosen # Ingest!Endpoint
  <2>1. Len(cs) = 1 /\ cs[1] = Ingest!Numbered(Ingest!Pages) /\ Len(Ingest!Numbered(Ingest!Pages)) = Ingest!Pages
    BY <1>3, <1>4, <1>11, ChunksAreNumbered
  <2>2. Len(ahead) = 1 /\ ts = <<>> /\ hd = cs[1]
    BY <1>7, <1>9, <2>1
  <2>3. got = <<>>
    BY <1>2, <1>11 DEF Ingest!Sending
  <2>4. Len(got') <= Ingest!Pages
    BY <1>6, <1>8, <2>1, <2>2, <2>3
  <2> QED BY <1>4, <1>6, <1>7, <1>8, <1>11, <2>2, <2>4 DEF EndOf
<1> QED BY <1>10, <1>11

LEMMA ChunksAreAnswered ==
  ASSUME Ingest!IngestInv, step = "send", ahead # <<>>, left # 0, Ingest!Answered PROVE Ingest!IngestInv'
<1>1. PICK answer \in Ingest!Answers(Head(ahead)),
           time \in 0 .. (IF Drips THEN Ingest!AttemptTime + 1 ELSE Ingest!AttemptTime) :
        /\ Ingest!Elapses(time)
        /\ heard' = Append(heard, answer[1])
        /\ IF answer[1] # "answer" \/ Ingest!Incomplete(answer[2])
           THEN /\ Ingest!Ends(Ingest!Error(IF answer[1] = "answer" THEN "incomplete" ELSE answer[1]))
                /\ UNCHANGED <<ahead, got, attempt>>
           ELSE /\ ahead' = Tail(ahead) /\ got' = got \o answer[2] /\ attempt' = 0
                /\ step' = (IF Len(ahead) = 1 THEN "map" ELSE "send")
                /\ UNCHANGED parsed
  BY DEF Ingest!Answered
<1>2. job' = job /\ ruling' = ruling /\ chosen' = chosen
  BY DEF Ingest!Answered
<1>3. /\ Ingest!Sending /\ Ingest!TypeOK /\ job \in Jobs /\ Ingest!WellChosen /\ chosen # Ingest!Native
      /\ attempt \in Nat /\ attempt < MaxParses /\ ahead \in Seq(Seq(Nat)) /\ got \in Seq(Nat)
      /\ left \in Nat /\ used \in Nat /\ InTime
      /\ chosen \in Ingest!Parser /\ Ingest!Satisfies(chosen)
  BY SendingIs
<1>4. Ingest!AttemptTime \in Nat /\ (Ingest!AttemptTime <= left \/ Ingest!AttemptTime <= Ingest!Beginning)
  BY <1>3, AttemptsTake
<1>5. used' \in Nat /\ left' \in Nat /\ InTime'
  <2>1. CASE Drips
    <3>1. time \in 0 .. Ingest!AttemptTime + 1
      BY <2>1
    <3>2. time \in Nat
      BY <1>4, <3>1
    <3> QED BY <1>1, <1>2, <1>3, <2>1, <3>2, ParseTimePasses
  <2>2. CASE ~Drips
    <3>1. time \in 0 .. Ingest!AttemptTime
      BY <2>2
    <3>2. time \in Nat /\ (time <= left \/ time <= Ingest!Beginning)
      <4>1. Ingest!Beginning \in Nat
        BY DEF Ingest!Beginning
      <4> QED BY <1>3, <1>4, <3>1, <4>1
    <3> QED BY <1>1, <1>2, <1>3, <3>2, ParseTimePasses
  <2> QED BY <2>1, <2>2
<1>6. Head(ahead) \in Seq(Nat) /\ (Len(Head(ahead)) > 0 \/ chosen # Ingest!Endpoint)
  <2>1. EndOf(ahead, Ingest!Chunks) /\ Ingest!Chunks \in Seq(Seq(Nat))
    BY <1>3, ChunksAre DEF Ingest!Sending, EndOf
  <2>2. Head(ahead) = Ingest!Chunks[Len(Ingest!Chunks) - Len(ahead) + 1] /\ Head(ahead) \in Seq(Nat)
    BY <1>3, <2>1, ChunksGoOn
  <2>3. Len(Ingest!Chunks) - Len(ahead) + 1 \in 1 .. Len(Ingest!Chunks)
    BY <1>3, <2>1 DEF EndOf
  <2>4. chosen = Ingest!Endpoint => Chunked(Ingest!Chunks, Ingest!Pages)
    BY <1>3, ChunksAre
  <2> QED BY <2>2, <2>3, <2>4 DEF Chunked
<1>7. PICK kind, pages : kind = answer[1] /\ pages = answer[2]
  OBVIOUS
<1>8. /\ kind \in {"answer", "rate_limit", "service"} /\ pages \in Seq(Nat) /\ Len(pages) <= Len(Head(ahead))
      /\ chosen = Ingest!Endpoint /\ Len(pages) = Len(Head(ahead)) => pages = Head(ahead)
  BY <1>6, <1>7, AnswersAre
<1>9. /\ Ingest!DeadlineHolds' /\ heard' \in Seq(Ingest!Errors \union {"answer"}) /\ Len(heard') = Len(heard) + 1
      /\ kind \in Ingest!Transient \union {"answer"} => \A i \in DOMAIN heard' : heard'[i] \in Ingest!Transient \union {"answer"}
  <2>1. kind \in Ingest!Errors \union {"answer"}
    BY <1>8 DEF Ingest!Errors, Ingest!Transient
  <2> QED BY <1>1, <1>2, <1>5, <1>7, <2>1, CallsAreCounted
<1>10. CASE kind # "answer" \/ Ingest!Incomplete(pages)
  <2>1. PICK r : r = IF kind = "answer" THEN "incomplete" ELSE kind
    OBVIOUS
  <2>2. r \in Ingest!Errors
    BY <1>8, <2>1 DEF Ingest!Errors, Ingest!Transient
  <2>3. step' = "done" /\ parsed' = Ingest!Error(r) /\ ahead' = ahead /\ got' = got /\ attempt' = attempt
    BY <1>1, <1>7, <1>10, <2>1 DEF Ingest!Ends
  <2> QED BY <1>2, <1>3, <1>5, <1>9, <2>2, <2>3, CallsEnd
<1>11. CASE ~(kind # "answer" \/ Ingest!Incomplete(pages))
  <2>1. /\ ahead' = Tail(ahead) /\ got' = got \o pages /\ attempt' = 0
        /\ step' = (IF Len(ahead) = 1 THEN "map" ELSE "send") /\ parsed' = parsed
    BY <1>1, <1>7, <1>11
  <2>2. chosen = Ingest!Endpoint => pages = Head(ahead)
    BY <1>8, <1>11 DEF Ingest!Incomplete
  <2>3. /\ ahead' \in Seq(Seq(Nat)) /\ got' \in Seq(Nat) /\ Len(ahead') = Len(ahead) - 1
        /\ ahead' = <<>> <=> Len(ahead) = 1
        /\ Len(ahead') <= Len(Ingest!Chunks') /\ (\A k \in DOMAIN ahead : ahead[k] = Ingest!Chunks[Len(Ingest!Chunks) - Len(ahead) + k])'
        /\ (chosen = Ingest!Endpoint => got = Ingest!Numbered(IF ahead = <<>> THEN Ingest!Pages ELSE Head(ahead)[1] - 1))'
        /\ (chosen # Ingest!Endpoint => IF ahead = <<>> THEN Len(got) <= Ingest!Pages ELSE got = <<>>)'
    BY <1>2, <1>8, <2>1, <2>2, PagesAreInOrder
  <2>4. Ingest!WellChosen' /\ Ingest!Chunks' = Ingest!Chunks
    BY <1>2, <1>3, ChoiceStays
  <2>5. Ingest!TypeOK'
    BY <1>2, <1>3, <1>5, <1>9, <2>1, <2>3 DEF Ingest!TypeOK
  <2>6. (Len(heard) <= MaxParses * (Len(Ingest!Chunks) - Len(ahead)) + attempt)'
    <3>1. PICK x \in Nat : x = Len(Ingest!Chunks) - Len(ahead)
      <4>1. Ingest!Chunks \in Seq(Seq(Nat)) /\ Len(ahead) <= Len(Ingest!Chunks)
        BY <1>3, ChunksAre DEF Ingest!Sending
      <4>2. Len(Ingest!Chunks) \in Nat /\ Len(ahead) \in Nat
        BY <1>3, <4>1
      <4>3. Len(Ingest!Chunks) - Len(ahead) \in Nat
        BY <4>1, <4>2
      <4> QED BY <4>3
    <3>2. Len(heard) <= MaxParses * x + attempt /\ Len(heard) \in Nat
      BY <1>3, <3>1 DEF Ingest!Sending, Ingest!TypeOK
    <3>3. Len(Ingest!Chunks') - Len(ahead') = x + 1
      <4>1. Ingest!Chunks \in Seq(Seq(Nat))
        BY <1>3, ChunksAre
      <4> QED BY <1>3, <2>3, <2>4, <3>1, <4>1
    <3>4. MaxParses * (x + 1) = MaxParses * x + MaxParses /\ MaxParses * x \in Nat
      OBVIOUS
    <3>5. Len(heard') <= MaxParses * (x + 1) + 0
      BY <1>3, <1>9, <3>2, <3>4
    <3> QED BY <2>1, <3>3, <3>5
  <2>7. Ingest!Sending'
    BY <1>5, <1>8, <1>9, <1>11, <2>3, <2>6 DEF Ingest!Sending, InTime
  <2>8. Ingest!ParseIsOnCourse'
    <3>1. step' \in {"send", "map"} /\ (step' = "map" <=> ahead' = <<>>)
      <4>1. PICK one \in BOOLEAN : one = (Len(ahead) = 1)
        OBVIOUS
      <4>2. (ahead' = <<>>) = one
        BY <2>3, <4>1
      <4>3. step' = (IF one THEN "map" ELSE "send")
        BY <2>1, <4>1
      <4> QED BY <4>2, <4>3
    <3>3. attempt' = 0 /\ 0 < MaxParses
      BY <2>1
    <3>2. job' \in Jobs /\ chosen' # Ingest!Native
      BY <1>2, <1>3
    <3> QED BY <2>4, <2>7, <3>1, <3>2, <3>3 DEF Ingest!ParseIsOnCourse, Ingest!Sent
  <2>9. Ingest!DocumentsAreWhole'
    BY <2>1 DEF Ingest!DocumentsAreWhole, Ingest!Parsed
  <2> QED BY <1>9, <2>5, <2>8, <2>9 DEF Ingest!IngestInv
<1> QED BY <1>10, <1>11

(* How a call may fail is an error of a parse.                               *)
LEMMA FailuresAre == Ingest!Failures \subseteq Ingest!Errors
<1>1. CASE chosen = Ingest!Endpoint
  <2>1. Ingest!Failures = {Ingest!EndpointReason(s) : s \in Ingest!Status} \union {"transport", "timeout", "service", "internal"}
    BY <1>1 DEF Ingest!Failures, Ingest!Endpoint
  <2> QED BY <2>1 DEF Ingest!EndpointReason, Ingest!Errors, Ingest!Transient
<1>2. CASE chosen = "azure-di"
  <2>1. Ingest!Failures = {Ingest!AzureReason(s) : s \in Ingest!Status}
    BY <1>2 DEF Ingest!Failures, Ingest!Endpoint
  <2> QED BY <2>1 DEF Ingest!AzureReason, Ingest!Errors, Ingest!Transient
<1>3. CASE chosen # Ingest!Endpoint /\ chosen # "azure-di"
  <2>1. Ingest!Failures = {Ingest!VisionReason(s) : s \in Ingest!Status}
    BY <1>3 DEF Ingest!Failures
  <2> QED BY <2>1 DEF Ingest!VisionReason, Ingest!Errors, Ingest!Transient
<1> QED BY <1>1, <1>2, <1>3

(* A call that failed is repeated if that may help, and as often as it may.  *)
LEMMA CallsAreRefused ==
  ASSUME Ingest!IngestInv, step = "send", ahead # <<>>, left # 0, Ingest!Refused PROVE Ingest!IngestInv'
<1>1. PICK error \in Ingest!Failures, time \in {0, Ingest!AttemptTime} :
        /\ Ingest!Elapses(time)
        /\ heard' = Append(heard, error)
        /\ attempt' = attempt + 1
        /\ IF Ingest!RetryTransient(error) THEN step' = "wait" /\ parsed' = parsed ELSE Ingest!Ends(Ingest!Error(error))
  BY DEF Ingest!Refused
<1>2. job' = job /\ ruling' = ruling /\ chosen' = chosen /\ ahead' = ahead /\ got' = got
  BY DEF Ingest!Refused
<1>3. /\ Ingest!Sending /\ Ingest!TypeOK /\ job \in Jobs /\ Ingest!WellChosen /\ chosen # Ingest!Native
      /\ attempt \in Nat /\ attempt < MaxParses /\ ahead \in Seq(Seq(Nat)) /\ got \in Seq(Nat)
      /\ left \in Nat /\ used \in Nat /\ InTime
  BY SendingIs
<1>4. time \in Nat /\ (time <= left \/ time <= Ingest!Beginning)
  BY <1>1, <1>3, AttemptsTake
<1>5. used' \in Nat /\ left' \in Nat /\ InTime'
  BY <1>1, <1>2, <1>3, <1>4, ParseTimePasses
<1>6. error \in Ingest!Errors
  BY <1>1, FailuresAre
<1>7. /\ Ingest!DeadlineHolds' /\ heard' \in Seq(Ingest!Errors \union {"answer"}) /\ Len(heard') = Len(heard) + 1
      /\ error \in Ingest!Transient \union {"answer"} => \A i \in DOMAIN heard' : heard'[i] \in Ingest!Transient \union {"answer"}
  BY <1>1, <1>2, <1>5, <1>6, CallsAreCounted
<1>8. attempt' \in 0 .. MaxParses
  BY <1>1, <1>3
<1>9. CASE ~Ingest!RetryTransient(error)
  <2>1. step' = "done" /\ parsed' = Ingest!Error(error)
    BY <1>1, <1>9 DEF Ingest!Ends
  <2> QED BY <1>2, <1>3, <1>5, <1>6, <1>7, <1>8, <2>1, CallsEnd
<1>10. CASE Ingest!RetryTransient(error)
  <2>1. step' = "wait" /\ parsed' = parsed
    BY <1>1, <1>10
  <2>2. error \in Ingest!Transient /\ attempt' < MaxParses
    BY <1>1, <1>10 DEF Ingest!RetryTransient
  <2>3. Ingest!WellChosen' /\ Ingest!Chunks' = Ingest!Chunks /\ Ingest!Pages' = Ingest!Pages
    BY <1>2, <1>3, ChoiceStays, FilesStay
  <2>4. Ingest!TypeOK'
    BY <1>2, <1>3, <1>5, <1>7, <1>8, <2>1 DEF Ingest!TypeOK
  <2>5. (Len(heard) <= MaxParses * (Len(Ingest!Chunks) - Len(ahead)) + attempt)'
    <3>1. PICK x : x = MaxParses * (Len(Ingest!Chunks) - Len(ahead))
      OBVIOUS
    <3>2. Len(heard) <= x + attempt /\ Len(heard) \in Nat
      BY <1>3, <3>1 DEF Ingest!Sending, Ingest!TypeOK
    <3>3. x \in Int
      <4>1. Ingest!Chunks \in Seq(Seq(Nat))
        BY <1>3, ChunksAre DEF Ingest!WellChosen
      <4>2. Len(Ingest!Chunks) - Len(ahead) \in Int
        BY <1>3, <4>1
      <4> QED BY <3>1, <4>2
    <3>4. MaxParses * (Len(Ingest!Chunks') - Len(ahead')) = x
      BY <1>2, <2>3, <3>1
    <3>5. Len(heard') <= x + attempt'
      BY <1>1, <1>3, <1>7, <3>2, <3>3
    <3> QED BY <3>4, <3>5
  <2>6. Ingest!Sending'
    BY <1>2, <1>3, <1>5, <1>7, <2>2, <2>3, <2>5 DEF Ingest!Sending, InTime
  <2>7. Ingest!ParseIsOnCourse'
    BY <1>2, <1>3, <2>1, <2>2, <2>3, <2>6 DEF Ingest!ParseIsOnCourse, Ingest!Sent
  <2>8. Ingest!DocumentsAreWhole'
    BY <2>1 DEF Ingest!DocumentsAreWhole, Ingest!Parsed
  <2> QED BY <1>7, <2>4, <2>7, <2>8 DEF Ingest!IngestInv
<1> QED BY <1>9, <1>10

(* The deadline ends a parse instead of a call, or lets one be made.         *)
LEMMA ServicesAreCalled == ASSUME Ingest!IngestInv, Ingest!Attempt PROVE Ingest!IngestInv'
<1>1. step = "send" /\ ahead # <<>>
  BY DEF Ingest!Attempt
<1>2. CASE left = 0
  <2>1. "deadline" \in Ingest!Errors
    BY DEF Ingest!Errors
  <2> QED BY <1>2, <2>1, ErrorsKeep DEF Ingest!Attempt, Ingest!Expired
<1>3. CASE left # 0
  <2>1. Ingest!Answered \/ Ingest!Refused
    BY <1>3 DEF Ingest!Attempt, Ingest!Expired
  <2> QED BY <1>1, <1>3, <2>1, ChunksAreAnswered, CallsAreRefused
<1> QED BY <1>2, <1>3

(* A wait leaves time for the call it is for, or is not begun.               *)
LEMMA WaitsKeep == ASSUME Ingest!IngestInv, Ingest!Wait PROVE Ingest!IngestInv'
<1>1. step = "wait"
  BY DEF Ingest!Wait
<1>2. PICK wait \in Ingest!Waits :
        IF Ingest!Allows(wait)
        THEN /\ Ingest!Elapses(wait) /\ step' = "send"
             /\ UNCHANGED <<job, ruling, chosen, ahead, got, attempt, heard, parsed>>
        ELSE Ingest!Fails("deadline") /\ UNCHANGED <<used, heard>>
  BY DEF Ingest!Wait
<1>3. CASE ~Ingest!Allows(wait)
  <2>1. "deadline" \in Ingest!Errors
    BY DEF Ingest!Errors
  <2>2. Ingest!Fails("deadline") /\ used' = used /\ heard' = heard
    BY <1>2, <1>3
  <2> QED BY <2>1, <2>2, ErrorsKeep
<1>4. CASE Ingest!Allows(wait)
  <2>1. /\ Ingest!Elapses(wait) /\ step' = "send" /\ job' = job /\ ruling' = ruling /\ chosen' = chosen
        /\ ahead' = ahead /\ got' = got /\ attempt' = attempt /\ heard' = heard /\ parsed' = parsed
    BY <1>2, <1>4
  <2>2. /\ Ingest!Sending /\ Ingest!TypeOK /\ job \in Jobs /\ Ingest!WellChosen /\ chosen # Ingest!Native /\ ahead # <<>>
        /\ attempt \in Nat /\ attempt < MaxParses /\ left \in Nat /\ used \in Nat /\ InTime
    BY <1>1, SendingIs
  <2>3. wait \in Nat
    BY <1>2 DEF Ingest!Waits, Ingest!Backoff
  <2>4. wait <= left /\ left # 0
    BY <1>4, <2>2, <2>3 DEF Ingest!Allows
  <2>5. used' \in Nat /\ left' \in Nat /\ InTime'
    BY <2>1, <2>2, <2>3, <2>4, ParseTimePasses
  <2>6. Ingest!WellChosen' /\ Ingest!Chunks' = Ingest!Chunks /\ Ingest!Pages' = Ingest!Pages
    BY <2>1, <2>2, ChoiceStays, FilesStay
  <2>7. Ingest!TypeOK'
    BY <2>1, <2>2, <2>5 DEF Ingest!TypeOK
  <2>8. Ingest!Sending'
    BY <2>1, <2>2, <2>5, <2>6 DEF Ingest!Sending, InTime
  <2>9. Ingest!ParseIsOnCourse'
    BY <2>1, <2>2, <2>6, <2>8 DEF Ingest!ParseIsOnCourse, Ingest!Sent
  <2>10. Ingest!DocumentsAreWhole'
    BY <2>1 DEF Ingest!DocumentsAreWhole, Ingest!Parsed
  <2>11. Ingest!DeadlineHolds'
    BY <2>1, <2>5, <2>6 DEF Ingest!IngestInv, Ingest!DeadlineHolds, InTime
  <2> QED BY <2>7, <2>9, <2>10, <2>11 DEF Ingest!IngestInv
<1> QED BY <1>3, <1>4

(* The answers become a document of all the pages, or an error.              *)
LEMMA AnswersAreMapped == ASSUME Ingest!IngestInv, Ingest!Map PROVE Ingest!IngestInv'
<1>1. step = "map" /\ used' = used /\ heard' = heard
  BY DEF Ingest!Map
<1>2. /\ ahead = <<>> /\ Ingest!Sending /\ Ingest!WellChosen /\ Ingest!TypeOK /\ job \in Jobs /\ chosen # Ingest!Native
  BY <1>1 DEF Ingest!IngestInv, Ingest!ParseIsOnCourse, Ingest!Sent
<1>3. PICK words \in BOOLEAN :
        \/ \E error \in Ingest!Unmappable(words) : Ingest!Fails(error)
        \/ "empty_result" \notin Ingest!Unmappable(words) /\ Ingest!Closes(Ingest!Validated(got, words))
  BY DEF Ingest!Map
<1>4. CASE \E error \in Ingest!Unmappable(words) : Ingest!Fails(error)
  <2>1. PICK error \in Ingest!Unmappable(words) : Ingest!Fails(error)
    BY <1>4
  <2>2. Ingest!Unmappable(words) \subseteq {"empty_result", "internal", "invalid_order"}
    BY DEF Ingest!Unmappable, Ingest!EndpointMaps, Ingest!AzureMaps, Ingest!AzureTables, Ingest!VisionMaps
  <2>3. error \in Ingest!Errors
    BY <2>1, <2>2 DEF Ingest!Errors
  <2> QED BY <1>1, <2>1, <2>3, ErrorsKeep
<1>5. CASE "empty_result" \notin Ingest!Unmappable(words) /\ Ingest!Closes(Ingest!Validated(got, words))
  <2>1. got \in Seq(Nat)
    BY <1>2 DEF Ingest!TypeOK
  <2>2. chosen = Ingest!Endpoint => got = Ingest!Numbered(Ingest!Pages)
    BY <1>2 DEF Ingest!Sending
  <2>3. Len(got) <= Ingest!Pages
    <3>1. chosen = Ingest!Endpoint => Len(got) = Ingest!Pages
      <4>1. Ingest!Pages \in Nat
        BY <1>2, FilesAre
      <4> QED BY <2>2, <4>1, ChunksAreNumbered
    <3>2. Ingest!Pages \in Nat
      BY <1>2, FilesAre
    <3> QED BY <1>2, <3>1, <3>2 DEF Ingest!Sending
  <2>4. chosen \in {Ingest!Endpoint, "gcv"} => words
    BY <1>5 DEF Ingest!Unmappable, Ingest!EndpointMaps, Ingest!VisionMaps, Ingest!Endpoint
  <2> QED BY <1>1, <1>2, <1>5, <2>1, <2>2, <2>3, <2>4, DocumentsKeep
<1> QED BY <1>3, <1>4, <1>5

LEMMA IngestStep == ASSUME Ingest!IngestInv, [Ingest!Next]_(Ingest!ingestVars) PROVE Ingest!IngestInv'
<1>1. CASE UNCHANGED Ingest!ingestVars
  <2>1. /\ job' = job /\ step' = step /\ ruling' = ruling /\ chosen' = chosen /\ ahead' = ahead /\ got' = got
        /\ attempt' = attempt /\ left' = left /\ used' = used /\ heard' = heard /\ parsed' = parsed
    BY <1>1 DEF Ingest!ingestVars
  <2>2. Ingest!TypeOK'
    BY <2>1 DEF Ingest!IngestInv, Ingest!TypeOK
  <2>3. /\ Ingest!WellChosen' = Ingest!WellChosen /\ Ingest!Chunks' = Ingest!Chunks /\ Ingest!Pages' = Ingest!Pages
        /\ Ingest!LayerUsable' = Ingest!LayerUsable /\ \A p : Ingest!Satisfies(p)' = Ingest!Satisfies(p)
    BY <2>1, ChoiceStays, FilesStay
  <2>4. Ingest!Sending' = Ingest!Sending
    <3>1. Ingest!Beginning' = Ingest!Beginning
      BY <2>1 DEF Ingest!Beginning
    <3> QED BY <2>1, <2>3, <3>1 DEF Ingest!Sending
  <2>5. Ingest!ParseIsOnCourse'
    BY <2>1, <2>3, <2>4 DEF Ingest!IngestInv, Ingest!ParseIsOnCourse, Ingest!Sent
  <2>6. Ingest!DocumentsAreWhole'
    BY <2>1, <2>3 DEF Ingest!IngestInv, Ingest!DocumentsAreWhole, Ingest!Parsed
  <2>7. Ingest!DeadlineHolds'
    BY <2>1, DeadlineStays DEF Ingest!IngestInv
  <2> QED BY <2>2, <2>5, <2>6, <2>7 DEF Ingest!IngestInv
<1>2. CASE Ingest!Accept
  BY <1>2, FilesAreAccepted
<1>3. CASE Ingest!Plan
  BY <1>3, ParsesArePlanned
<1>4. CASE Ingest!ReadNative
  BY <1>4, TextLayersAreRead
<1>5. CASE Ingest!Start
  BY <1>5, CallsBegin
<1>6. CASE Ingest!Attempt
  BY <1>6, ServicesAreCalled
<1>7. CASE Ingest!Wait
  BY <1>7, WaitsKeep
<1>8. CASE Ingest!Map
  BY <1>8, AnswersAreMapped
<1> QED BY <1>1, <1>2, <1>3, <1>4, <1>5, <1>6, <1>7, <1>8 DEF Ingest!Next

HIDE IngestAssumption DEF job, step, ruling, chosen, ahead, got, attempt, left, used, heard, parsed
===============================================================================
