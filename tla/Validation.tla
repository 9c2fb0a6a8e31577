----------------------------- MODULE Validation -----------------------------
(* A schema is accepted or refused (extraction/schema.py), a model's answer   *)
(* conformed to it (extraction/conform.py), stored and read back, and judged  *)
(* (validation/). The schema has the fields below; what they declare, what    *)
(* the model answered and which values were located is chosen. A number, a    *)
(* date and a text are their rank; a text's length is its rank too.           *)
(* Left out: the grammar of patterns, one of which matches one rank, and      *)
(* the shape of fields (names, nesting).                                      *)
EXTENDS Naturals, Sequences, FiniteSets, FiniteSetsExt

CONSTANTS
  Drafts,     \* schemas an author may write
  Answers,    \* answers a model may give
  Ungrounded, \* severities GroundingPolicy.ungrounded may have
  None

VARIABLES
  schema,     \* the draft
  answer,     \* what the model said: for each slot, and how many entries
  located,    \* slots whose value was found in the document
  policy,     \* severity of a value that was not
  step,
  values,     \* the conformed answer: of each slot a value, or None
  verdict,    \* what validate answered, or how it ended
  again       \* what it answered of the values read back from the store

validationVars == <<schema, answer, located, policy, step, values, verdict, again>>

Scalar == {"a", "b", "o.c", "o.d", "g.x", "g.y"}
Group == {"o", "g"}        \* o is a group, g a repeating group
Repeats(p) == p \in {"g.x", "g.y"}
Within(p) == CASE p \in {"o.c", "o.d"} -> "o" [] Repeats(p) -> "g" [] OTHER -> None

FieldType == {"string", "integer", "number", "boolean", "date", "datetime", "decimal"}
Numeric == {"integer", "number", "decimal"}
Temporal == {"date", "datetime"}
\* what JSON may say, or what Python's reader takes for it: 1e999 is infinite.
\* A fraction is the float of a number that is not whole, digits the text of one that is.
Text == {"words", "amount", "digits", "NaN", "Infinity", "day", "naive", "zoned"}
Literal == {"null", "true", "int", "float", "fraction", "inf", "nan", "list"}
Form == Literal \union Text
Saying == [form: Form, n: Nat]
Slots(entries) == {<<p, 0>> : p \in {q \in Scalar : ~Repeats(q)}}
                    \union {<<p, i>> : p \in {q \in Scalar : Repeats(q)}, i \in 1 .. entries}
\* what a field may declare, and what may be asked of several; a fraction is
\* told from other numbers only where it counts entries, n being its whole part
Keyword == {"enum", "const", "minimum", "maximum", "multiple_of", "pattern", "min_length", "max_length"}
Constraint == {c \in [at: Scalar \union Group, key: Keyword, form: Form, n: Nat] : c.form = "fraction" => c.at = "g"}
Severity == {"error", "warning", "info"}
Rule == [id: STRING, kind: {"sum_equals", "product_equals", "comparison", "conditional_presence"},
         operands: Seq(Scalar), operator: {"==", "!=", "<", "<=", None}, tolerance: Nat, severity: Severity]
Schema == [type: [Scalar -> FieldType], required: SUBSET (Scalar \union Group),
           constraints: SUBSET Constraint, rules: SUBSET Rule]
Policy == Severity \union {None}   \* None asks for no check
\* inf and nan are numbers that are not finite; a null is reported present all the same
Value == [is: {"text", "bool", "number", "inf", "nan", "date", "naive", "zoned", "null"}, n: Nat]
Outcome == {"valid", "invalid", "incomplete", "raised"}

\* Values and verdicts have the shape the code gives them.
TypeOK ==
  /\ schema \in Schema /\ answer \in Answers
  /\ located \subseteq Slots(answer.entries) /\ policy \in Policy
  /\ step \in {"draft", "refused", "accepted", "failed", "conformed", "judged"}
  /\ DOMAIN values \in {{}, Slots(answer.entries)}
  /\ \A s \in DOMAIN values : values[s] \in Value \union {None}
  /\ verdict \in Outcome \union {None} /\ again \in Outcome \union {None}

Init ==
  /\ schema \in Drafts /\ answer \in Answers /\ policy \in Ungrounded
  /\ located \in {Slots(answer.entries), Slots(answer.entries) \ {<<"a", 0>>}}
  /\ step = "draft" /\ values = <<>> /\ verdict = None /\ again = None

-----------------------------------------------------------------------------
(* Which schemas are accepted                                                *)

\* CONSTRAINT_TYPE_DOMAINS
Domain(key) == CASE key \in {"enum", "const"} -> FieldType
                 [] key \in {"minimum", "maximum"} -> Numeric \union Temporal
                 [] key = "multiple_of" -> Numeric
                 [] key \in {"pattern", "min_length", "max_length"} -> {"string"}

NotFinite == {"inf", "nan", "NaN", "Infinity"}
ReadsAsNumber(form) == form \in {"int", "float", "amount", "digits"} \union NotFinite
ReadsAsTime(form, type) == form \in (IF type = "date" THEN {"day"} ELSE {"day", "naive", "zoned"})

\* _check_constraint_value
ValueFits(c, type) ==
  CASE c.key = "enum" -> c.form = "list"
    [] c.key = "const" -> c.form \notin {"list", "null"}
    [] c.key = "pattern" -> c.form \in Text
    [] c.key \in {"min_length", "max_length"} -> c.form = "int"
    [] OTHER -> IF type \in Temporal THEN ReadsAsTime(c.form, type)
                ELSE ReadsAsNumber(c.form) /\ (c.key = "multiple_of" => c.form \in NotFinite \/ c.n # 0)

\* _check_constraint_domain: a length of a repeating group is taken as it is
ConstraintFits(c) ==
  CASE c.at = "g" -> c.key \in {"min_length", "max_length"}
    [] c.at = "o" -> FALSE
    [] OTHER -> schema.type[c.at] \in Domain(c.key) /\ ValueFits(c, schema.type[c.at])

\* _check_rule_scoping
Scope(p) == IF Repeats(p) THEN "g" ELSE None
RuleScopes(r) == {Scope(r.operands[i]) : i \in DOMAIN r.operands}
ScopesFit(r) ==
  CASE r.kind = "sum_equals" -> Scope(r.operands[1]) = "g" /\ Scope(r.operands[2]) = None
    [] r.kind = "product_equals" -> RuleScopes(r) = {"g"}
    [] OTHER -> Cardinality(RuleScopes(r)) = 1

\* _check_rule_types
TypesFit(r) ==
  CASE r.kind = "conditional_presence" -> TRUE
    [] r.kind = "comparison" ->
         LET type == schema.type[r.operands[1]] IN
         type = schema.type[r.operands[2]] /\ (r.operator \in {"==", "!="} \/ type # "boolean")
    [] OTHER -> \A i \in DOMAIN r.operands : schema.type[r.operands[i]] \in Numeric

\* RuleSpec._check_shape
Arity(kind) == IF kind = "product_equals" THEN 3 ELSE 2
ShapeFits(r) ==
  /\ Len(r.operands) = Arity(r.kind)
  /\ (r.kind = "comparison") = (r.operator # None)
  /\ r.tolerance # 0 => r.kind \in {"sum_equals", "product_equals"}

RuleFits(r) ==
  /\ ShapeFits(r)
  /\ \A i \in DOMAIN r.operands : r.operands[i] \in Scalar
  /\ ScopesFit(r) /\ TypesFit(r)

\* schema_hash_for: a schema with a float that is not finite is not registered
Hashes(c) == c.form \notin {"inf", "nan"}

SchemaFits ==
  /\ \A c \in schema.constraints : ConstraintFits(c) /\ Hashes(c)
  /\ \A r \in schema.rules : RuleFits(r)

Load ==
  /\ step = "draft"
  /\ step' = IF SchemaFits THEN "accepted" ELSE "refused"
  /\ UNCHANGED <<schema, answer, located, policy, values, verdict, again>>

-----------------------------------------------------------------------------
(* What an answer says                                                       *)

\* _coerce: which forms a type can carry, and as what
Carries(type) ==
  CASE type = "string" -> Text [] type = "boolean" -> {"true"} [] type = "integer" -> {"int"}
    [] type = "number" -> {"int", "float", "inf", "nan"} [] type = "decimal" -> {"amount", "digits", "NaN", "Infinity"}
    [] type = "date" -> {"day"} [] type = "datetime" -> {"day", "naive", "zoned"}
Kind(type, form) ==
  CASE type = "string" -> "text" [] type = "boolean" -> "bool" [] type = "date" -> "date"
    [] type = "datetime" -> IF form = "zoned" THEN "zoned" ELSE "naive"
    [] OTHER -> IF form \in {"nan", "NaN"} THEN "nan" ELSE IF form \in {"inf", "Infinity"} THEN "inf" ELSE "number"
Rank(kind, n) == IF kind \in {"inf", "nan"} THEN 0 ELSE n
Coerce(raw, type) == [is |-> Kind(type, raw.form), n |-> Rank(Kind(type, raw.form), raw.n)]

\* a declared field left out of the answer, or not of its type, fails all of it
Said(s) == answer.said[s]
Conforms == \A s \in Slots(answer.entries) :
  Said(s) # None /\ Said(s).form \in Carries(schema.type[s[1]]) \union {"null"}

Conform ==
  /\ step = "accepted"
  /\ IF ~Conforms THEN step' = "failed" /\ UNCHANGED values
     ELSE /\ step' = "conformed"
          /\ values' = [s \in Slots(answer.entries) |->
                          IF Said(s).form = "null" THEN None ELSE Coerce(Said(s), schema.type[s[1]])]
  /\ UNCHANGED <<schema, answer, located, policy, verdict, again>>

\* The store writes what JSON has no type for as text, which retype reads again,
\* and a float that is not finite as null, which it leaves a value that is present.
TypedInStore == {"string", "integer", "number", "boolean"}
Written(v) == CASE v.is = "number" -> "amount" [] v.is = "nan" -> "NaN" [] v.is = "inf" -> "Infinity"
                [] v.is = "date" -> "day" [] OTHER -> v.is
LeftAsText(v, type) == IF type \in TypedInStore THEN v ELSE [v EXCEPT !.is = "text"]
StoredAsNull(v) == v.is \in {"inf", "nan"}
Retyped(v, type) ==
  IF type \notin TypedInStore THEN Coerce([form |-> Written(v), n |-> v.n], type)
  ELSE IF StoredAsNull(v) THEN [is |-> "null", n |-> 0] ELSE v

-----------------------------------------------------------------------------
(* The checks                                                                *)

\* A check passes, fails, is not evaluated, or raises.
Check(of, outcome, severity) == [of |-> of, outcome |-> outcome, severity |-> severity]
Judged(of, holds, severity) == Check(of, IF holds THEN "passed" ELSE "failed", severity)
Raised(of) == Check(of, "raised", "error")
NotEvaluated(of) == Check(of, "not evaluated", "warning")

AbsentGroup(vals, group) == \A s \in DOMAIN vals : Within(s[1]) = group => vals[s] = None

\* check_required: not asked of the fields of a group that is absent
RequiredChecks(vals) ==
  {Judged(<<"required", s>>, vals[s] # None, "error") :
     s \in {t \in DOMAIN vals : t[1] \in schema.required /\ ~(Within(t[1]) = "o" /\ AbsentGroup(vals, "o"))}}
  \union {Judged(<<"required", <<p, 0>>>>, ~AbsentGroup(vals, p), "error") : p \in schema.required \intersect Group}

\* as_decimal; ordering a NaN, or a time with a zone and one without, raises
IsNumber(v) == v.is \in {"number", "inf", "nan"}
Incomparable(c, v) ==
  IF v.is = "nan" \/ (IsNumber(v) /\ c.form = "NaN") THEN TRUE
  ELSE v.is \in {"naive", "zoned"} /\ (v.is = "zoned") # (c.form = "zoned")

\* _equal: a decimal's constant may be text, a float's may not; NaN equals nothing
Equals(c, v, type) ==
  CASE v.is = "inf" -> type = "decimal" /\ c.form = "Infinity"
    [] v.is = "nan" -> FALSE
    [] OTHER ->
       /\ c.n = v.n
       /\ CASE v.is = "number" -> c.form \in {"int", "float"} \union (IF type = "decimal" THEN {"amount", "digits"} ELSE {"true"})
            [] v.is = "text" -> c.form \in Text
            [] v.is = "bool" -> c.form \in {"true", "int", "float"}
            [] v.is = "date" -> c.form = "day"
            [] OTHER -> c.form = v.is

\* _bound
NotBelow(v, c) == v.is = "inf" \/ (c.form # "Infinity" /\ v.n >= c.n)
NotAbove(v, c) == (IsNumber(v) /\ c.form = "Infinity") \/ (v.is # "inf" /\ v.n <= c.n)

\* _check_one; an enum's one member has the form its type would carry
Evaluated(c, s, v) ==
  LET of == <<c.key, s>> IN
  IF v.is = "null" THEN Judged(of, c.key \notin {"enum", "const"}, "error") ELSE
  CASE c.key = "enum" -> Judged(of, c.n = v.n /\ v.is \notin {"inf", "nan"}, "error")
    [] c.key = "const" -> Judged(of, Equals(c, v, schema.type[s[1]]), "error")
    [] c.key = "pattern" -> Judged(of, c.n = v.n, "error")
    [] c.key = "min_length" -> Judged(of, v.n >= c.n, "error")
    [] c.key = "max_length" -> Judged(of, v.n <= c.n, "error")
    [] c.key = "multiple_of" ->
         IF v.is \in {"inf", "nan"} \/ c.form = "NaN" THEN Raised(of)
         ELSE Judged(of, IF c.form = "Infinity" THEN v.n = 0 ELSE v.n % c.n = 0, "error")
    [] OTHER ->
         IF IsNumber(v) /\ ~ReadsAsNumber(c.form) THEN Raised(of)
         ELSE IF v.is = "text" THEN Judged(of, TRUE, "error")
         ELSE IF Incomparable(c, v) THEN Raised(of)
         ELSE Judged(of, IF c.key = "minimum" THEN NotBelow(v, c) ELSE NotAbove(v, c), "error")

\* _entry_count_checks: int() cuts a fraction off and reads digits, and raises
\* for what else a schema may give as the bound
CountCheck(c) ==
  IF c.form \notin {"true", "int", "float", "fraction", "digits"} THEN Raised(<<c.key, <<"g", 0>>>>)
  ELSE Judged(<<c.key, <<"g", 0>>>>, IF c.key = "min_length" THEN answer.entries >= c.n ELSE answer.entries <= c.n, "error")

ConstraintChecks(vals) ==
  {CountCheck(c) : c \in {d \in schema.constraints : d.at = "g"}}
  \union UNION {{Evaluated(c, s, vals[s]) : s \in {t \in DOMAIN vals : t[1] = c.at /\ vals[t] # None}} :
                  c \in schema.constraints}

\* check_grounding under the default policy for what is located approximately
GroundingChecks(vals) ==
  IF policy = None THEN {}
  ELSE {Check(<<"grounding", s>>, "failed", policy) : s \in {t \in DOMAIN vals : vals[t] # None /\ t \notin located}}

Abs(a, b) == IF a < b THEN b - a ELSE a - b
Number(n) == [is |-> "number", n |-> n]
NaN == [is |-> "nan", n |-> 0]
Infinity == [is |-> "inf", n |-> 0]
\* a rule of numbers: what is absent, or null, is not zero. A NaN cannot be compared,
\* and what is left of an infinite sum less an infinite total is one
Arithmetic(r, of, terms, computed, stated) ==
  IF \E v \in terms \union {stated} : v = None \/ ~IsNumber(v) THEN NotEvaluated(of)
  ELSE IF (\E v \in terms \union {stated, computed} : v.is = "nan") \/ (computed.is = "inf" /\ stated.is = "inf") THEN Raised(of)
  ELSE Judged(of, computed.is = stated.is /\ Abs(computed.n, stated.n) <= r.tolerance, r.severity)

Total(vals, slots) == MapThenSumSet(LAMBDA s : vals[s].n, slots)
Members(p) == {<<p, i>> : i \in 1 .. answer.entries}
Sum(vals, slots) == IF \E s \in slots : vals[s].is = "inf" THEN Infinity ELSE Number(Total(vals, slots))

SumEquals(r, vals) ==
  LET slots == Members(r.operands[1]) IN
  Arithmetic(r, <<r.id, <<r.operands[2], 0>>>>, {vals[s] : s \in slots}, Sum(vals, slots), vals[<<r.operands[2], 0>>])

Product(v, w) == IF v.is = "number" /\ w.is = "number" THEN Number(v.n * w.n)
                 ELSE IF Number(0) \in {v, w} THEN NaN ELSE Infinity

Below(v, w) == v.is # "inf" /\ (w.is = "inf" \/ v.n < w.n)
Compare(operator, v, w) == CASE operator = "==" -> v = w [] operator = "!=" -> v # w
                             [] operator = "<" -> Below(v, w) [] operator = "<=" -> ~Below(w, v)
\* _comparison: what has no order is equal to nothing but itself, a NaN not even to that
Comparison(r, of, v, w) ==
  IF None \in {v, w} THEN NotEvaluated(of)
  ELSE IF IsNumber(v) /\ IsNumber(w) /\ "nan" \in {v.is, w.is}
       THEN IF r.operator \in {"==", "!="} THEN Judged(of, r.operator = "!=", r.severity) ELSE Raised(of)
  ELSE IF r.operator \notin {"==", "!="} /\ ~(IsNumber(v) /\ IsNumber(w)) /\ (v.is # w.is \/ v.is = "null") THEN NotEvaluated(of)
  ELSE Judged(of, Compare(r.operator, v, w), r.severity)

\* _rule: once, or once for each entry
Places(r) == IF Repeats(r.operands[1]) THEN 1 .. answer.entries ELSE {0}
CheckAt(r, vals, i) ==
  LET of == <<r.id, <<r.operands[1], i>>>>
      V(k) == vals[<<r.operands[k], i>>]
  IN CASE r.kind = "product_equals" -> Arithmetic(r, of, {V(1), V(2)}, Product(V(1), V(2)), V(3))
       [] r.kind = "comparison" -> Comparison(r, of, V(1), V(2))
       [] OTHER -> Judged(of, V(1) = None \/ V(2) # None, r.severity)
RuleChecks(r, vals) ==
  IF r.kind = "sum_equals" THEN {SumEquals(r, vals)} ELSE {CheckAt(r, vals, i) : i \in Places(r)}

Checks(vals) == RequiredChecks(vals) \union ConstraintChecks(vals) \union GroundingChecks(vals)
                  \union UNION {RuleChecks(r, vals) : r \in schema.rules}

\* derive_verdict
Verdict(vals) ==
  LET Some(outcome, severities) == \E c \in Checks(vals) : c.outcome = outcome /\ c.severity \in severities
  IN IF Some("raised", {"error"}) THEN "raised"
     ELSE IF Some("failed", {"error"}) THEN "invalid"
     ELSE IF Some("not evaluated", {"warning"}) THEN "incomplete" ELSE "valid"

Validate ==
  /\ step = "conformed"
  /\ step' = "judged"
  /\ verdict' = Verdict(values)
  /\ again' = Verdict([s \in DOMAIN values |-> IF values[s] = None THEN None
                                                ELSE Retyped(values[s], schema.type[s[1]])])
  /\ UNCHANGED <<schema, answer, located, policy, values>>

Rest == step \in {"refused", "failed", "judged"} /\ UNCHANGED validationVars
Next == Load \/ Conform \/ Validate \/ Rest
Spec == Init /\ [][Next]_validationVars

-----------------------------------------------------------------------------
(* Properties                                                                *)

\* What a reader takes "valid" for: every required value is there, unless its
\* whole group is not,
Present(s) == values[s] # None
Given(p) ==
  IF p \in Group THEN ~AbsentGroup(values, p)
  ELSE \A s \in DOMAIN values : s[1] = p => Present(s) \/ (Within(p) = "o" /\ AbsentGroup(values, "o"))

\* there are as many entries as was asked, no value crosses its bound, and each
\* is the one, or the length or the multiple, that was declared,
Keeps(v, c) ==
  CASE c.key \in {"minimum", "min_length"} -> v.is = "inf" \/ (v.is # "nan" /\ c.form # "Infinity" /\ v.n >= c.n)
    [] c.key \in {"maximum", "max_length"} -> c.form = "Infinity" \/ (v.is \notin {"inf", "nan"} /\ v.n <= c.n)
    [] c.key = "multiple_of" -> v.is = "number" /\ (IF c.form = "Infinity" THEN v.n = 0 ELSE v.n % c.n = 0)
    [] c.key = "const" /\ v.is = "inf" -> c.form = "Infinity"
    [] OTHER -> v.is \notin {"inf", "nan"} /\ v.n = c.n
Obeyed(c) ==
  IF c.at = "g" THEN IF c.key = "min_length" THEN answer.entries >= c.n ELSE answer.entries <= c.n
  ELSE \A s \in DOMAIN values : s[1] = c.at /\ Present(s) => Keeps(values[s], c)

\* and what must agree does, of values that are all there and are numbers where
\* the rule computes; a rule that is no error for its author need not.
Operands(r, i) == {values[<<r.operands[k], i>>] : k \in DOMAIN r.operands}
AgreesAt(r, i) ==
  LET V(k) == values[<<r.operands[k], i>>] IN
  CASE r.kind = "conditional_presence" -> r.severity = "error" => (V(1) # None => V(2) # None)
    [] r.kind = "product_equals" ->
         /\ None \notin Operands(r, i)
         /\ r.severity = "error" =>
              (\A v \in Operands(r, i) : v.is = "number") /\ Abs(V(1).n * V(2).n, V(3).n) <= r.tolerance
    [] OTHER ->
         /\ None \notin Operands(r, i)
         /\ r.severity = "error" => Compare(r.operator, V(1), V(2)) \/ (r.operator = "!=" /\ V(1).is = "nan")
AddsUp(r) ==
  IF r.kind # "sum_equals" THEN \A i \in Places(r) : AgreesAt(r, i)
  ELSE LET stated == values[<<r.operands[2], 0>>] IN
       /\ stated # None /\ \A s \in Members(r.operands[1]) : Present(s)
       /\ r.severity = "error" =>
            /\ stated.is = "number" /\ \A s \in Members(r.operands[1]) : values[s].is = "number"
            /\ Abs(Total(values, Members(r.operands[1])), stated.n) <= r.tolerance

\* A result judged valid obeys its schema as an author reads it, and one whose
\* floats are finite is judged the same when it is read back from the artifact
\* store (validate, retype).
FloatsAreFinite == \A s \in DOMAIN values : schema.type[s[1]] = "number" /\ Present(s) => ~StoredAsNull(values[s])
VerdictsAreSound ==
  /\ verdict = "valid" =>
       /\ \A p \in schema.required : Given(p)
       /\ \A c \in schema.constraints : Obeyed(c)
       /\ \A r \in schema.rules : AddsUp(r)
  /\ FloatsAreFinite => again = verdict

\* pipeline/runner.py: a reused extraction is "indistinguishable from the executed
\* one, which is exactly what FR-012 requires it to be", whatever its floats are.
ReuseIsJudgedAlike == again = verdict

\* extraction/schema.py: "A length bound is a whole, non-negative count"; what is
\* none is rejected rather than truncated.
LengthsAreWholeCounts ==
  step \notin {"draft", "refused"} =>
    \A c \in schema.constraints : c.key \in {"min_length", "max_length"} => c.form = "int"

\* "A failing check MUST NOT raise" (specs/005-deterministic-validation, FR-044):
\* whatever a model answers under a schema that was accepted gets a verdict.
ChecksNeverRaise == verdict # "raised"

-----------------------------------------------------------------------------
(* What makes the properties inductive                                       *)

\* Only a schema that fits has answers conformed to it, a conformed value is
\* of its field's type, and there is no verdict before one is given.
OfItsType(v, type) == \E raw \in Saying : raw.form \in Carries(type) /\ v = Coerce(raw, type)
Conformed ==
  /\ values = [s \in Slots(answer.entries) |-> values[s]]
  /\ \A s \in Slots(answer.entries) : values[s] = None \/ OfItsType(values[s], schema.type[s[1]])
ValidationIsOnCourse ==
  /\ step \notin {"draft", "refused"} => SchemaFits
  /\ step \in {"conformed", "judged"} => Conformed
  /\ step # "judged" => verdict = None /\ again = None

ValidationInv == TypeOK /\ ValidationIsOnCourse /\ VerdictsAreSound
=============================================================================
