----------------------------- MODULE MCComponents -----------------------------
(* Components on small instances: the configurations' model values, and what *)
(* the components start from: which limits and which requests of the API go  *)
(* together, files and what is asked of their parse, drafts of schemas and   *)
(* answers of a model, documents and claims.                                 *)
EXTENDS Components, SequencesExt

CONSTANTS h1, h2, t1, t2, k1, c1, d1, d2, op, r1, r2, y1, y2

MCFilesShipped == {<<"n1", 1>>}
MCPriorities == {<<"echo", "gemini">>}

-----------------------------------------------------------------------------
(* Limits *)
MCScenarios ==
  {[policy |-> {"submissions", "runs_per_period"}, asked |-> {"run", "retry"}, minutes |-> 0, runs |-> 2],
   [policy |-> {"submissions", "runs_per_period"}, asked |-> {"run"}, minutes |-> 2, runs |-> 2],
   [policy |-> {"submissions", "concurrent"}, asked |-> {"run", "evaluation"}, minutes |-> 0, runs |-> 4],
   [policy |-> {"concurrent"}, asked |-> {"run", "retry", "ocr"}, minutes |-> 0, runs |-> 4],
   [policy |-> {"tokens"}, asked |-> {"run"}, minutes |-> 3, runs |-> 1]}

-----------------------------------------------------------------------------
(* Api *)
MCScene(ops, run, handler, key, callback, owner, until, work) ==
  [op |-> ops, run |-> run, handler |-> handler, key |-> key, callback |-> callback,
   owner |-> owner, until |-> until, work |-> work]

MCScenes ==
  {MCScene({"state", "check"}, {1}, {h1}, {}, {}, {t1, t2}, 0, TRUE),
   MCScene({"result", "cancel"}, {1}, {h1, h2}, {}, {}, {t1}, 0, TRUE),
   MCScene({"submit", "register", "revoke"}, {1}, {h1, h2}, {}, {c1}, {None}, 0, FALSE),
   MCScene({"submit"}, {1, 2}, {h1, h2}, {k1}, {}, {None}, 0, FALSE),
   MCScene({"submit", "erase"}, {1, 2}, {h1}, {k1}, {}, {None}, 0, FALSE),
   MCScene({"submit", "erase"}, {1}, {h1, h2}, {k1}, {}, {None}, 0, FALSE),
   MCScene({"upload", "submit", "erase"}, {1}, {h1, h2}, {}, {}, {None}, 0, FALSE),
   MCScene({"register", "submit", "erase"}, {1}, {h1}, {}, {c1}, {None}, 0, FALSE),
   MCScene({"walk", "submit", "erase"}, {1, 2, 3}, {h1}, {}, {}, {t1}, 1, FALSE)}

-----------------------------------------------------------------------------
(* Ingest *)
MCFile(media, opens, text) == [media |-> media, large |-> FALSE, opens |-> opens, text |-> text]
MCFiles ==
  {MCFile("pdf", "fine", t) : t \in {<<TRUE, FALSE, FALSE>>, <<TRUE, FALSE>>, <<FALSE, FALSE, FALSE, FALSE>>, <<>>}}
    \union {MCFile("pdf", "encrypted", <<TRUE>>), MCFile("image", "fine", <<FALSE>>),
            MCFile("unknown", "fine", <<FALSE>>),
            [MCFile("image", "fine", <<FALSE>>) EXCEPT !.large = TRUE]}
MCJobs ==
  [file: MCFiles, need: {{"text", "geometry"}, {"text", "tables"}},
   named: {None, "paddle", "unknown", "pdf-text"}, force: {None, "native", "recognition"},
   usable: {{"pdf-text"}, {"paddle"}, {"pdf-text", "paddle"}, {"pdf-text", "gcv"}, {"pdf-text", "azure-di"}}]

-----------------------------------------------------------------------------
(* Validation *)
MCTypes(t) ==
  [p \in {"a", "b", "o.c", "o.d", "g.x", "g.y"} |->
     CASE p = "a" -> t [] p = "o.c" -> "datetime" [] p = "o.d" -> "string"
       [] p = "g.y" -> "integer" [] OTHER -> "decimal"]
MCBound(at, key, form, n) == [at |-> at, key |-> key, form |-> form, n |-> n]
MCRule(kind, operands, operator, tolerance, severity) ==
  [id |-> "r", kind |-> kind, operands |-> operands, operator |-> operator,
   tolerance |-> tolerance, severity |-> severity]
MCConstraints ==
  {{}, {MCBound("a", "minimum", "amount", 2), MCBound("g", "min_length", "int", 1)},
   {MCBound("a", "maximum", "naive", 2), MCBound("o.d", "max_length", "int", 1)},
   {MCBound("a", "maximum", "digits", 2), MCBound("g", "min_length", "fraction", 1)},
   {MCBound("a", "maximum", "inf", 0), MCBound("g", "max_length", "digits", 1)},
   {MCBound("a", "const", "Infinity", 0), MCBound("g", "max_length", "amount", 1)},
   {MCBound("a", "multiple_of", "int", 2), MCBound("o.d", "const", "words", 1)}}
MCSum(tolerance, severity) == MCRule("sum_equals", <<"g.x", "b">>, None, tolerance, severity)
MCRules ==
  {{}, {MCSum(0, "error")}, {MCSum(1, "warning")},
   {MCRule("product_equals", <<"g.x", "g.y", "g.x">>, None, 0, "error")},
   {MCRule("comparison", <<"a", "o.c">>, "<=", 0, "error")},
   {MCRule("comparison", <<"a", "b">>, "!=", 0, "error"),
    [MCRule("conditional_presence", <<"o.c", "o.d">>, None, 0, "error") EXCEPT !.id = "s"]}}
MCDraft(t, q, c, r) == [type |-> MCTypes(t), required |-> q, constraints |-> c, rules |-> r]
MCDrafts ==
  {MCDraft(t, {}, c, {}) : t \in {"decimal", "datetime", "number"}, c \in MCConstraints}
    \union {MCDraft(t, {"a", "o.d", "g"}, {}, {}) : t \in {"decimal", "datetime", "number"}}
    \union {MCDraft(t, {}, c, r) :
              t \in {"decimal", "datetime", "number"}, r \in MCRules,
              c \in {{}, {MCBound("a", "minimum", "amount", 2), MCBound("g", "min_length", "int", 1)}}}
MCSays(form, n) == [form |-> form, n |-> n]
MCAnswers ==
  {[entries |-> e, said |->
      [s \in ({"a", "b", "o.c", "o.d"} \X {0}) \union ({"g.x", "g.y"} \X (1 .. e)) |->
         CASE s[1] = "a" -> a [] s[1] = "b" -> MCSays("amount", 3)
           [] s[1] = "o.c" -> c [] s[1] = "o.d" -> MCSays("words", 1)
           [] s[1] = "g.y" -> MCSays("int", 1) [] s[2] = 1 -> x [] OTHER -> MCSays("amount", 2)]] :
     e \in {0, 2},
     a \in {MCSays("null", 0), MCSays("amount", 3), MCSays("NaN", 0), MCSays("Infinity", 0), MCSays("naive", 2),
            MCSays("zoned", 2), MCSays("float", 2), MCSays("inf", 0)},
     c \in {MCSays("null", 0), MCSays("zoned", 1)},
     x \in {MCSays("amount", 1), MCSays("null", 0)}}

-----------------------------------------------------------------------------
(* Grounding *)
\* The threshold is the one shipped, nine tenths: a claim of nine characters has one
\* edit too many for the floats, one of ten or eleven may have it. MCLine is sought
\* where it is whole, where one character was added, lost or replaced, and twice.
MCLine == <<"a", "a", "a", "a", "a", "b", "b", "b", "b", "b", "a">>
MCCut(n) == SubSeq(MCLine, 1, n)
MCEdited(s) ==
  {InsertAt(s, p, "e") : p \in 1 .. Len(s) + 1} \union {RemoveAt(s, p) : p \in DOMAIN s} \union
  {ReplaceAt(s, p, "A") : p \in DOMAIN s}
MCDocuments ==
  MCEdited(MCCut(9)) \union MCEdited(MCCut(10)) \union
  {MCCut(11), InsertAt(MCCut(10), 4, "sh"), InsertAt(MCCut(10), 3, "^"), ReplaceAt(MCCut(10), 4, "fi"),
   MCCut(10) \o MCCut(10), MCCut(5) \o <<" ", "nl">> \o MCCut(9),
   [k \in 1 .. 14 |-> IF k = 7 THEN "b" ELSE "a"], [k \in 1 .. 11 |-> IF k > 7 THEN "b" ELSE "a"],
   <<"a", "-", "nl", "b", "a", "b">>, <<"A", "-", "nl", "b", "-", " ", "a">>, <<" ", "nl", "a", "fi", "b", " ", "a">>,
   <<"e", "^", "a", " ", "e", "a", "sh">>, <<"sh", "a", "b", "b", "a", "b", "sh">>, <<"a", "a", "b", "sh">>, <<>>}
MCTexts ==
  {<<"a", "b">>, <<"a">>, <<>>, <<" ">>, <<"fi">>, <<"e", "^", "a">>, <<"A", "-", "b">>, <<"a", "-", "nl", "b">>, <<"b", "e", "a">>}
MCClaim(text, slot) == [present |-> TRUE, text |-> text, slot |-> slot]
MCClaims ==
  {<<MCClaim(t, None)>> : t \in MCTexts \union {MCCut(9), MCCut(10), MCCut(11)}}
    \union {<<MCClaim(t, "g"), MCClaim(<<"a">>, "g")>> : t \in MCTexts}
    \union {<<MCClaim(MCCut(10), "g"), MCClaim(MCCut(10), "g")>>}
    \union {<<[MCClaim(<<"a">>, None) EXCEPT !.present = FALSE], MCClaim(<<"a">>, "g")>>}
=============================================================================
