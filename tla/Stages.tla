-------------------------------- MODULE Stages --------------------------------
(* The stages a document goes through, but for grounding, with the schemas it  *)
(* is extracted by, and what the theorems about them need of their parameters. *)
EXTENDS Slots

Extraction == INSTANCE Extraction WITH
  asked <- v1, step <- v2, attempts <- v3, spent <- v4, seen <- v5, outcome <- v6,
  events <- v7, MaxAttempts <- MaxCalls, Deadline <- CallDeadline

ASSUME ExtractionAssumption ==
  MaxCalls \in Nat \ {0} /\ CallDeadline \in Nat /\ MaxCall \in Nat /\ None \notin Extraction!Outcome

Schemas == INSTANCE Schemas WITH
  rows <- v1, desk <- v2, known <- v3, queued <- v4, executed <- v5, saved <- v6,
  outages <- v7, Files <- SchemaFiles, File <- FileDraft, MaxOutages <- MaxFaults

ASSUME SchemaAssumption ==
  SchemaFiles \subseteq Schemas!Identity /\ None \notin Draft \union {FileDraft} /\ MaxVersion \in Nat \ {0} /\ MaxFaults \in Nat

Pipeline == INSTANCE Pipeline WITH
  store <- v1, attempts <- v2, removed <- v3, faults <- v4, Attempt <- Handler,
  Reading <- ParserReading, Reply <- ModelReply, Nothing <- None

ASSUME PipelineAssumption ==
  Asked \in Model /\ MaxFaults \in Nat /\ None \notin Pipeline!Result

Validation == INSTANCE Validation WITH
  schema <- v1, answer <- v2, located <- v3, policy <- v4, step <- v5, values <- v6,
  verdict <- v7, again <- v8, Answers <- ModelAnswers, Ungrounded <- UngroundedSeverity

ASSUME ValidationAssumption ==
  /\ Drafts \subseteq Validation!Schema /\ UngroundedSeverity \subseteq Validation!Policy
  /\ \A a \in ModelAnswers : a.entries \in Nat /\ \A s \in Validation!Slots(a.entries) : a.said[s] \in (Validation!Saying \union {None})
  /\ None \notin Validation!Value \union Validation!Outcome \union Validation!Group

Ingest == INSTANCE Ingest WITH
  job <- v1, step <- v2, verdict <- v3, chosen <- v4, todo <- v5, got <- v6, attempt <- v7,
  left <- v8, spent <- v9, seen <- v10, result <- v11, MaxAttempts <- MaxParses,
  Deadline <- ParseDeadline

ASSUME IngestAssumption ==
  /\ Jobs \subseteq Ingest!Job /\ \A j \in Jobs : j.file.media = "image" => Len(j.file.text) = 1
  /\ MaxPages \in Nat /\ ChunkPages \in Nat \ {0} /\ MaxParses \in Nat \ {0}
  /\ AttemptTimeout \in Nat /\ StartTimeout \in Nat /\ ParseDeadline \in Nat /\ RetryAfters \subseteq Nat /\ Drips \in BOOLEAN
  /\ None \notin Ingest!Parser \union {"unknown", "native", "recognition"} \union Ingest!Verdict \union Ingest!Errors
===============================================================================
