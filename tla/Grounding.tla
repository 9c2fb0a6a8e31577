----------------------------- MODULE Grounding ------------------------------
(* ground() looks for the evidence of each extracted value in the document    *)
(* (grounding/): document and claim are folded alike (view.py), the claim is  *)
(* sought verbatim, then approximately in the windows a filter proposes       *)
(* (candidates.py, match.py), and the window found is mapped back to a range  *)
(* of the source (offsets.py). A text is a sequence of the characters below.  *)
(* Left out: what NFKC does beyond a ligature and a combining mark; the cache *)
(* of folded views; pages and geometry of a range; runners-up.                *)
EXTENDS Integers, Sequences, FiniteSets, SequencesExt, FiniteSetsExt

CONSTANTS
  Documents, Claims, \* texts, and sequences of claims [present, text, slot]
  Num, Den,          \* the threshold is Num / Den
  Short,             \* lengths whose quotient the floats leave just below a whole number
  Budget,            \* GroundingOptions.candidate_budget
  None

VARIABLES
  document, claims,
  foreign,   \* the extraction names another document
  at,        \* claims looked at
  taken,     \* ranges won by entries of the repeating group
  outcomes   \* of each claim present

groundingVars == <<document, claims, foreign, at, taken, outcomes>>

Letter == {"a", "b", "e", "fi"}   \* the lower-case ones; "A" is upper, "fi" a ligature,
Space == {" ", "nl"}              \* "sh" a soft hyphen, "^" a combining mark
Character == Letter \union Space \union {"A", "-", "sh", "^"}

\* a value of the extraction: what it claims to be, and for which slot of a
\* repeating group, if any
Claim == [present: BOOLEAN, text: Seq(Character), slot: {"g", None}]

-----------------------------------------------------------------------------
(* Folding                                                                   *)

\* where the blanks, or the marks, that start at i end
RunEnd(s, i, class) == Min({j \in i .. Len(s) + 1 : j > Len(s) \/ s[j] \notin class})
Is(s, i, class) == i \in DOMAIN s /\ s[i] \in class

\* A segment maps the characters it emits to those of the source it stands for.
Segment(text, from, to) == [text |-> text, from |-> from, to |-> to]

\* the segment that begins at i
SegmentAt(s, i) ==
  LET broken == RunEnd(s, i + 1, Space)
      blank == RunEnd(s, i, Space)
      marked == RunEnd(s, i + 1, {"^"})
  IN IF s[i] = "sh" THEN Segment(<<>>, i, i + 1)
     ELSE IF s[i] = "-" /\ Is(s, i + 1, {"nl"})
       THEN Segment(IF Is(s, i - 1, Letter) /\ Is(s, broken, Letter) THEN <<>> ELSE <<"-">>, i, broken)
     ELSE IF s[i] \in Space THEN Segment(<<" ">>, i, blank)
     ELSE IF marked > i + 1 THEN Segment(<<s[i] \o "^">>, i, marked)
     ELSE IF s[i] = "fi" THEN Segment(<<"f", "i">>, i, i + 1)
     ELSE Segment(<<s[i]>>, i, i + 1)

\* _fold
Segments(s) ==
  LET from[i \in Nat] == IF i > Len(s) THEN <<>> ELSE LET g == SegmentAt(s, i) IN <<g>> \o from[g.to]
  IN from[1]
Texts(segments) == [k \in DOMAIN segments |-> segments[k].text]
Fold(s) == FlattenSeq(Texts(Segments(s)))

-----------------------------------------------------------------------------
(* Mapping back: positions of the view are 0 .. its length                   *)

ViewStart(segments, k) == Len(FlattenSeq(Texts(SubSeq(segments, 1, k - 1))))
Holding(segments, pos) == {k \in DOMAIN segments : ViewStart(segments, k) <= pos}

\* _map: the start takes what was deleted before it, the end what was deleted after
SourceStart(segments, pos, size) ==
  LET last == Max(Holding(segments, pos))
      deleted(k) == \A j \in k .. last - 1 : segments[j].text = <<>> /\ ViewStart(segments, j) = pos
      atEnd(k) == \A j \in k .. Len(segments) : segments[j].text = <<>>
  IN IF pos < Len(FlattenSeq(Texts(segments))) THEN segments[Min({k \in 1 .. last : deleted(k)})].from
     ELSE Min({size + 1} \union {segments[k].from : k \in {j \in DOMAIN segments : atEnd(j)}})
SourceEnd(segments, pos, size) ==
  LET last == Max(Holding(segments, pos)) IN
  IF pos = Len(FlattenSeq(Texts(segments))) THEN size + 1
  ELSE IF pos > ViewStart(segments, last) THEN segments[last].to ELSE segments[last].from

\* source_span_for: positions from..to-1 of the source
Span(s, window) ==
  <<SourceStart(Segments(s), window.start, Len(s)), SourceEnd(Segments(s), window.end, Len(s))>>

-----------------------------------------------------------------------------
(* Finding                                                                   *)

\* text[start:end] of a view
Slice(text, start, end) == SubSeq(text, start + 1, end)
Occurrences(text, part) == {p \in 0 .. Len(text) - Len(part) : Slice(text, p, p + Len(part)) = part}

\* find_exact: from left to right, each after the end of the one before
Successive(positions, width) ==
  LET from[cursor \in Nat] ==
        LET next == {p \in positions : p >= cursor} IN
        IF next = {} THEN {} ELSE {Min(next)} \union from[Min(next) + width]
  IN from[0]
Window(start, end, edits) == [start |-> start, end |-> end, edits |-> edits]
FindExact(text, claim) ==
  {Window(p, p + Len(claim), 0) : p \in Successive(Occurrences(text, claim), Len(claim))}

\* what is left of s from i and of t from j on
Edits(s, t) ==
  LET from[p \in Nat \X Nat] ==
        LET i == p[1]
            j == p[2]
        IN IF i > Len(s) \/ j > Len(t) THEN (Len(s) + 1 - i) + (Len(t) + 1 - j)
           ELSE IF s[i] = t[j] THEN from[<<i + 1, j + 1>>]
           ELSE 1 + Min({from[<<i + 1, j>>], from[<<i, j + 1>>], from[<<i + 1, j + 1>>]})
  IN from[<<1, 1>>]
Longer(m, n) == IF m > n THEN m ELSE n
Clears(edits, length) == (length - edits) * Den >= Num * length /\ edits < length

\* max_edits, as its floats have it
MaxEdits(m) == (((Den - Num) * m) \div Num) - (IF m \in Short THEN 1 ELSE 0)

\* blocks
BlockSize(m, k) == m \div (k + 1)
Blocks(claim, k) ==
  {<<i * BlockSize(Len(claim), k),
     Slice(claim, i * BlockSize(Len(claim), k), IF i = k THEN Len(claim) ELSE (i + 1) * BlockSize(Len(claim), k))>> :
     i \in 0 .. k}

\* candidate_starts: every start if the claim has no k + 1 blocks
Unshifted(text, claim, k) ==
  IF k + 1 > Len(claim) THEN 0 .. Len(text) - 1
  ELSE {n \in UNION {{p - b[1] : p \in Occurrences(text, b[2])} : b \in Blocks(claim, k)} : n >= 0}
Proposed(text, claim, k) ==
  IF k + 1 > Len(claim) THEN 0 .. Len(text) - 1
  ELSE {n \in UNION {{p - b[1] + d : p \in Occurrences(text, b[2]), d \in -k .. k} : b \in Blocks(claim, k)} : n >= 0}
First(positions, n) == {p \in positions : Cardinality({q \in positions : q < p}) < n}

\* find_fuzzy over the windows of window_lengths
FindFuzzy(text, claim) ==
  LET k == MaxEdits(Len(claim))
      windows == {w \in First(Proposed(text, claim, k), Budget) \X (Longer(1, Len(claim) - k) .. Len(claim) + k) :
                    w[1] + w[2] <= Len(text)}
      edits(w) == Edits(claim, Slice(text, w[1], w[1] + w[2]))
  IN {Window(w[1], w[1] + w[2], edits(w)) : w \in {x \in windows : Clears(edits(x), Longer(Len(claim), x[2]))}}

\* _order: the higher score, the earlier start, the shorter range
Before(v, w, m) ==
  LET lv == Longer(m, v.end - v.start)
      lw == Longer(m, w.end - w.start)
  IN \/ v.edits * lw < w.edits * lv
     \/ v.edits * lw = w.edits * lv /\ (v.start < w.start \/ (v.start = w.start /\ v.end < w.end))

-----------------------------------------------------------------------------
(* The claims of an extraction, in order                                     *)

Range2 == (Nat \ {0}) \X (Nat \ {0})
Outcome == [window : [start : Nat, end : Nat, edits : Nat] \union {None}, span : Range2 \union {None}, truncated : BOOLEAN]
Ungrounded(truncated) == [window |-> None, span |-> None, truncated |-> truncated]

\* Ranges and windows have the shape the code gives them.
TypeOK ==
  /\ document \in Seq(Character) /\ claims \in Seq(Claim) /\ foreign \in BOOLEAN
  /\ at \in 0 .. Len(claims) /\ taken \subseteq Range2
  /\ DOMAIN outcomes \subseteq 1 .. at /\ \A i \in DOMAIN outcomes : outcomes[i] \in Outcome

Init ==
  /\ document \in Documents /\ claims \in Claims /\ foreign \in BOOLEAN
  /\ at = 0 /\ taken = {} /\ outcomes = <<>>

Blank(text) == \A i \in DOMAIN text : text[i] = " "

\* resolve: what entries before it won is for none of the group
Excluded(claim) == IF claim.slot = None THEN {} ELSE taken
Resolve(claim) ==
  LET folded == Fold(claim.text)
      view == Fold(document)
      exact == FindExact(view, folded)
      found == IF exact # {} THEN exact ELSE FindFuzzy(view, folded)
      free == {w \in found : Span(document, w) \notin Excluded(claim)}
      truncated == exact = {} /\ Cardinality(Proposed(view, folded, MaxEdits(Len(folded)))) > Budget
  IN IF Blank(folded) THEN Ungrounded(FALSE)
     ELSE IF free = {} THEN Ungrounded(truncated)
     ELSE LET w == CHOOSE v \in free : \A u \in free : u = v \/ Before(v, u, Len(folded))
          IN [window |-> w, span |-> Span(document, w), truncated |-> truncated]

\* an extraction of another document is refused; an absent value has no outcome
Ground ==
  /\ ~foreign /\ at < Len(claims)
  /\ at' = at + 1
  /\ LET claim == claims[at + 1]
         outcome == Resolve(claim)
     IN IF ~claim.present THEN UNCHANGED <<taken, outcomes>>
        ELSE /\ outcomes' = [i \in DOMAIN outcomes \union {at + 1} |-> IF i = at + 1 THEN outcome ELSE outcomes[i]]
             /\ taken' = IF claim.slot # None /\ outcome.span # None THEN taken \union {outcome.span} ELSE taken
  /\ UNCHANGED <<document, claims, foreign>>

Rest == (foreign \/ at = Len(claims)) /\ UNCHANGED groundingVars
Next == Ground \/ Rest
Spec == Init /\ [][Next]_groundingVars

-----------------------------------------------------------------------------
(* Properties                                                                *)

Grounded == {i \in DOMAIN outcomes : outcomes[i].span # None}
Source(span) == SubSeq(document, span[1], span[2] - 1)
ClaimAt(i) == Fold(claims[i].text)
IsWithin(text, part) == Occurrences(text, part) # {}
\* every window of the text, tried one by one
Matches(text, claim) ==
  \E start \in 0 .. Len(text), end \in 0 .. Len(text) :
    start < end /\ Clears(Edits(claim, Slice(text, start, end)), Longer(Len(claim), end - start))
\* each that is similar enough has the one edit the floats leave out of max_edits
RoundedOut(text, claim) ==
  \A start \in 0 .. Len(text), end \in 0 .. Len(text) :
    LET edits == Edits(claim, Slice(text, start, end)) IN
    start < end /\ Clears(edits, Longer(Len(claim), end - start))
      => Len(claim) \in Short /\ edits = MaxEdits(Len(claim)) + 1
\* the filter looked for all of the claim, and found nothing
Lost(i) == outcomes[i].span = None /\ ~outcomes[i].truncated /\ claims[i].slot = None /\ ~Blank(ClaimAt(i))

\* The range given as evidence lies in the document and shows, read for itself,
\* the window that was found, whatever folding deleted or joined around it; an
\* exact one shows the claim.
EvidenceShowsTheClaim ==
  \A i \in Grounded :
    LET o == outcomes[i] IN
    /\ 1 <= o.span[1] /\ o.span[1] < o.span[2] /\ o.span[2] <= Len(document) + 1
    /\ IsWithin(Fold(Source(o.span)), Slice(Fold(document), o.window.start, o.window.end))
    /\ o.window.edits = 0 => IsWithin(Fold(Source(o.span)), ClaimAt(i))
\* A value is ungrounded only if no window of the document is similar enough, the
\* filter of candidates notwithstanding, but for one a single edit too far: where
\* max_edits comes out a whole number, its floats may leave it one short.
EvidenceIsOnlyLostToRounding == \A i \in DOMAIN outcomes : Lost(i) => RoundedOut(Fold(document), ClaimAt(i))
\* Two entries of a repeating group never have one range.
EntriesHaveTheirOwnEvidence ==
  \A i, j \in Grounded : i # j /\ claims[i].slot # None /\ claims[j].slot # None => outcomes[i].span # outcomes[j].span

\* What grounding reports is so: a range shows its claim, a claim without one has
\* no evidence in the document but what rounding loses, and no evidence serves two
\* entries of a group.
EvidenceIsGenuine == EvidenceShowsTheClaim /\ EvidenceIsOnlyLostToRounding /\ EntriesHaveTheirOwnEvidence

\* candidates.py: the filter "finds every window that could possibly clear the
\* threshold". Ungrounded means it is not there.
NoEvidenceIsOverlooked == \A i \in DOMAIN outcomes : Lost(i) => ~Matches(Fold(document), ClaimAt(i))

\* specs/004-deterministic-grounding: where a claim occurs fewer times than the
\* entries claiming it, the surplus entries are ungrounded. No two entries of a
\* group are shown the same characters.
OccurrencesAreTakenOnce ==
  \A i, j \in Grounded :
    i < j /\ claims[i].slot # None /\ claims[j].slot # None =>
      outcomes[i].window.end <= outcomes[j].window.start \/ outcomes[j].window.end <= outcomes[i].window.start
=============================================================================
