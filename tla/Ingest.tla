------------------------------- MODULE Ingest -------------------------------
(* One parse (ingest/parse.py and what it calls): the file is accepted, its   *)
(* text layer judged, a parser chosen by capability or by name, and the file  *)
(* read natively or sent to a service, in chunks and under one deadline, with *)
(* retries. Time is counted in units of a wait; a page is its number.         *)
(* Left out: coordinates, the text of tokens and the options of a parse, each *)
(* of which may only fail it, which Maps stands for.                          *)
EXTENDS Naturals, Sequences, FiniteSets, SequencesExt

CONSTANTS
  Jobs,          \* what a caller may ask, of which file, in which deployment
  MaxPages,      \* Limits.max_pages
  ChunkPages,    \* OcrEndpoint.max_pages
  MaxAttempts, AttemptTimeout, Deadline,   \* TransportSettings
  StartTimeout,  \* what Azure's SDK gives the request that starts an analysis
  RetryAfters,   \* what a service may ask a client to wait
  Drips,         \* whether a service may answer in pieces, each within the timeout
  None

VARIABLES
  job,       \* the parse asked for
  step,      \* where it stands
  verdict,   \* the TextLayerRecord it was routed with
  chosen,    \* the parser
  todo,      \* the chunks of pages not yet answered
  got,       \* the pages answered
  attempt,   \* attempts made of the current chunk
  left,      \* what remains of the deadline
  spent,     \* history: time since the file was first sent
  seen,      \* history: how each call to the service ended
  result     \* the document, or the error

ingestVars == <<job, step, verdict, chosen, todo, got, attempt, left, spent, seen, result>>

Native == "pdf-text"
Endpoint == "paddle"
Parser == {Native, "azure-di", "gcv", Endpoint}
\* DEFAULT_PRIORITY, the configured endpoints after it
Priority == <<Native, "azure-di", "gcv", Endpoint>>

Capability == {"text", "geometry", "tables", "handwriting"}
Capabilities(p) == CASE p = "azure-di" -> Capability
                     [] p = "gcv" -> Capability \ {"tables"}
                     [] OTHER -> {"text", "geometry"}
MediaTypes(p) == CASE p = Native -> {"pdf"} [] p = "gcv" -> {"image"} [] OTHER -> {"pdf", "image"}
RequiresNetwork(p) == p # Native

\* ProviderError.TRANSIENT_REASONS
Transient == {"timeout", "rate_limit", "transport", "service"}
\* a file: what its first bytes say, whether it is too large, whether pdfium
\* opens it, and of each page whether it has text
File == [media: {"pdf", "image", "tiff", "unknown"}, large: BOOLEAN,
         opens: {"fine", "encrypted", "corrupt"}, text: Seq(BOOLEAN)]
Job == [file: File, need: SUBSET Capability, named: Parser \union {"unknown", None},
        force: {"native", "recognition", None}, usable: SUBSET Parser]
Verdict == [usable: BOOLEAN, pages: Nat, judged: BOOLEAN, overridden: BOOLEAN]
Errors == Transient \union {"mime_type", "size_limit", "page_limit", "encrypted", "corrupt",
  "capability", "internal", "empty_result", "invalid_order", "incomplete", "auth", "deadline"}
Document(p, pages, words) == [parser |-> p, pages |-> pages, words |-> words]
Error(reason) == [error |-> reason]
IsError(answer) == "error" \in DOMAIN answer

\* The parse, its verdict and its answer have the shape the code gives them.
TypeOK ==
  /\ job \in Job
  /\ step \in {"accept", "plan", "read", "send", "wait", "map", "done"}
  /\ verdict \in Verdict \union {None}
  /\ chosen \in Parser \union {None}
  /\ todo \in Seq(Seq(Nat)) /\ got \in Seq(Nat)
  /\ attempt \in 0 .. MaxAttempts /\ left \in Nat /\ spent \in Nat
  /\ seen \in Seq(Errors \union {"answer"})
  /\ result \in {None} \union [error: Errors] \union [parser: Parser, pages: Seq(Nat), words: BOOLEAN]

Init ==
  /\ job \in Jobs
  /\ step = "accept"
  /\ verdict = None /\ chosen = None
  /\ todo = <<>> /\ got = <<>> /\ attempt = 0 /\ left = 0 /\ spent = 0
  /\ seen = <<>> /\ result = None

file == job.file
Pages == Len(file.text)

Ends(answer) == step' = "done" /\ result' = answer
Closes(answer) == Ends(answer) /\ UNCHANGED <<job, verdict, chosen, todo, got, attempt, left>>
Fails(reason) == Closes(Error(reason))

-----------------------------------------------------------------------------
(* What is accepted, and which path it takes                                 *)

\* SourceFile.from_bytes: the type is decided by the bytes
Refusal ==
  IF file.media \in {"unknown", "tiff"} THEN "mime_type"
  ELSE IF file.large THEN "size_limit" ELSE None

Accept ==
  /\ step = "accept"
  /\ IF Refusal # None THEN Fails(Refusal) /\ UNCHANGED <<spent, seen>>
     ELSE /\ step' = "plan"
          /\ UNCHANGED <<job, verdict, chosen, todo, got, attempt, left, spent, seen, result>>

NativeReader == Native \in job.usable

\* TextLayerRule.verdict_for, min_text_bearing_fraction at its default
Bearing == Cardinality({i \in DOMAIN file.text : file.text[i]})
LayerUsable == Bearing > 0 /\ 2 * Bearing >= Pages

\* assess_text_layer: a verdict, or why there is none
Assessed ==
  IF file.media # "pdf" THEN [usable |-> FALSE, pages |-> 1, judged |-> TRUE, overridden |-> FALSE]
  ELSE IF ~NativeReader THEN Error("capability")
  ELSE IF file.opens # "fine" THEN Error(file.opens)
  ELSE IF Pages = 0 THEN Error("corrupt")
  ELSE [usable |-> LayerUsable, pages |-> Pages, judged |-> TRUE, overridden |-> FALSE]

\* _route: forced, a verdict is overridden, and none is needed
Routed(force) ==
  IF force = None THEN Assessed
  ELSE IF Assessed = Error("capability")
       THEN [usable |-> FALSE, pages |-> 0, judged |-> FALSE, overridden |-> TRUE]
  ELSE IF IsError(Assessed) THEN Assessed
  ELSE [Assessed EXCEPT !.usable = (force = "native"), !.overridden = TRUE]

Satisfies(p) == file.media \in MediaTypes(p) /\ job.need \subseteq Capabilities(p)

\* ParserRegistry.select: the first by priority that is available
Candidates == {i \in DOMAIN Priority : Satisfies(Priority[i]) /\ Priority[i] \in job.usable}

\* _select: a parser that reads the text layer only serves a usable one
Select(native) ==
  LET first == Priority[Min(Candidates)] IN
  IF Candidates # {} /\ (native \/ RequiresNetwork(first)) THEN first ELSE "capability"

\* _select_named; a parser implies its path, and force may not contradict it
Implied == IF RequiresNetwork(job.named) THEN "recognition" ELSE "native"
SelectNamed ==
  IF job.named \in job.usable /\ Satisfies(job.named) /\ job.force \in {None, Implied}
  THEN job.named ELSE "capability"

\* plan_parse: an error of the verdict comes before one of the choice, unless
\* the parser is named
Plan ==
  /\ step = "plan"
  /\ LET named == job.named # None
         path == IF named /\ SelectNamed # "capability" THEN Implied ELSE job.force
         routed == Routed(path)
         parser == IF named THEN SelectNamed
                   ELSE IF IsError(routed) THEN None ELSE Select(routed.usable)
         over == ~IsError(routed) /\ routed.pages > MaxPages
         error == IF named /\ parser = "capability" THEN parser
                  ELSE IF IsError(routed) THEN routed.error
                  ELSE IF over THEN "page_limit"
                  ELSE IF parser = "capability" THEN parser ELSE None
     IN IF error # None THEN Fails(error)
        ELSE /\ verdict' = routed /\ chosen' = parser
             /\ step' = IF RequiresNetwork(parser) THEN "send" ELSE "read"
             /\ UNCHANGED <<job, todo, got, attempt, left, result>>
  /\ UNCHANGED <<spent, seen>>

-----------------------------------------------------------------------------
(* The native path                                                           *)

Numbered(n) == [i \in 1 .. n |-> i]

\* validate_output and the page limit where no verdict counted the pages
Validated(pages, words) ==
  IF verdict.pages = 0 /\ Len(pages) > MaxPages THEN Error("page_limit") ELSE Document(chosen, pages, words)

\* PdfTextParser.parse: a page that cannot be read fails all of it
ReadNative ==
  /\ step = "read"
  /\ Fails("internal") \/ Closes(Validated(Numbered(Pages), Bearing > 0))
  /\ UNCHANGED <<spent, seen>>

-----------------------------------------------------------------------------
(* The services                                                              *)

\* _pdf_chunks
ChunksOf(n, size) ==
  [k \in 1 .. (n + size - 1) \div size |->
     [i \in 1 .. (IF k * size <= n THEN size ELSE n - ((k - 1) * size)) |-> (k - 1) * size + i]]
Chunks ==
  IF chosen = Endpoint /\ file.media = "pdf" THEN ChunksOf(Pages, ChunkPages) ELSE <<Numbered(Pages)>>

\* the deadline starts once, before the first chunk is sent; an endpoint opens
\* the PDF to split it
Opens == chosen = Endpoint /\ file.media = "pdf"
Start ==
  /\ step = "send" /\ todo = <<>> /\ got = <<>>
  /\ IF Opens /\ ~NativeReader THEN Fails("capability")
     ELSE IF Opens /\ file.opens # "fine" THEN Fails(file.opens)
     ELSE /\ todo' = Chunks /\ left' = Deadline /\ attempt' = 0
          /\ step' = IF Chunks = <<>> THEN "map" ELSE step
          /\ UNCHANGED <<job, verdict, chosen, got, result>>
  /\ UNCHANGED <<spent, seen>>

Shorter(a, b) == IF a < b THEN a ELSE b

\* What a service may answer: the pages sent, or fewer. gcv says of an image
\* that it could not be served in an answer that is a success to the transport.
Answers(pages) ==
  {<<"answer", pages>>} \union
  IF chosen = "gcv" THEN {<<status, <<>>>> : status \in {"rate_limit", "service"}}
  ELSE {<<"answer", SubSeq(pages, 1, Len(pages) - 1)>>}

\* how the HTTP statuses a service may answer with are understood
Status == {"redirect", "auth", "unsupported", "unprocessable", "too_large", "missing", "rate_limit", "late", "down"}
EndpointReason(status) ==
  CASE status = "redirect" -> "transport" [] status = "auth" -> "auth" [] status = "too_large" -> "page_limit"
    [] status \in {"unsupported", "unprocessable"} -> "corrupt" [] status = "rate_limit" -> "rate_limit"
    [] status = "late" -> "timeout" [] OTHER -> "service"
AzureReason(status) ==
  CASE status = "auth" -> "auth" [] status = "unsupported" -> "corrupt" [] status = "rate_limit" -> "rate_limit"
    [] status \in {"late", "down"} -> "service" [] OTHER -> "transport"
VisionReason(status) ==
  CASE status = "auth" -> "auth" [] status = "unsupported" -> "corrupt" [] status = "rate_limit" -> "rate_limit"
    [] status = "late" -> "timeout" [] status = "down" -> "service" [] OTHER -> "transport"

\* a status, no answer, or one that is not what was asked for
Failures ==
  CASE chosen = Endpoint -> {EndpointReason(s) : s \in Status} \union {"transport", "timeout", "service", "internal"}
    [] chosen = "azure-di" -> {AzureReason(s) : s \in Status}
    [] OTHER -> {VisionReason(s) : s \in Status}

\* what else keeps a response from becoming a document: words outside a page,
\* out of order, a table or a cell without a place; no words at all is an
\* error to two services and a document to the third
EndpointMaps(words) == IF words THEN {} ELSE {"empty_result"}
VisionMaps(words) == IF words THEN {"internal"} ELSE {"empty_result"}
AzureTables == {"internal"}
AzureMaps(words) == AzureTables \union (IF words THEN {"invalid_order"} ELSE {})
                      \union (IF words /\ got = <<>> THEN {"empty_result"} ELSE {})
Unmappable(words) == CASE chosen = Endpoint -> EndpointMaps(words) \union {"internal"}
                       [] chosen = "azure-di" -> AzureMaps(words)
                       [] OTHER -> VisionMaps(words)

\* an attempt takes what the timeout and the deadline leave it; Azure's first
\* starts the analysis, without a timeout of its own, and then waits for its result
Beginning == IF chosen = "azure-di" THEN StartTimeout ELSE 0
AttemptTime == Beginning + Shorter(AttemptTimeout, IF Beginning < left THEN left - Beginning ELSE 0)
Elapses(time) ==
  /\ spent' = spent + time
  /\ left' = IF time > left THEN 0 ELSE left - time

\* PaddleXParser._send: a short answer is not asked for again
NeverIncomplete(pages) == FALSE
Incomplete(pages) == chosen = Endpoint /\ Len(pages) # Len(Head(todo))

\* a call that was answered
Answered ==
  /\ \E answer \in Answers(Head(todo)), time \in 0 .. (IF Drips THEN AttemptTime + 1 ELSE AttemptTime) :
       /\ Elapses(time)
       /\ seen' = Append(seen, answer[1])
       /\ IF answer[1] # "answer" \/ Incomplete(answer[2])
          THEN /\ Ends(Error(IF answer[1] = "answer" THEN "incomplete" ELSE answer[1]))
               /\ UNCHANGED <<todo, got, attempt>>
          ELSE /\ todo' = Tail(todo) /\ got' = got \o answer[2] /\ attempt' = 0
               /\ step' = IF Len(todo) = 1 THEN "map" ELSE "send"
               /\ UNCHANGED result
  /\ UNCHANGED <<job, verdict, chosen>>

\* a call that failed: it is tried again only if that may help
RetryTransient(error) == error \in Transient /\ attempt + 1 < MaxAttempts
Refused ==
  /\ \E error \in Failures, time \in {0, AttemptTime} :
       /\ Elapses(time)
       /\ seen' = Append(seen, error)
       /\ attempt' = attempt + 1
       /\ IF RetryTransient(error) THEN step' = "wait" /\ UNCHANGED result ELSE Ends(Error(error))
  /\ UNCHANGED <<job, verdict, chosen, todo, got>>

\* analyze_with_retries: no attempt starts once the deadline has passed
Expired == left = 0
Attempt ==
  /\ step = "send" /\ todo # <<>>
  /\ IF Expired THEN Fails("deadline") /\ UNCHANGED <<spent, seen>> ELSE Answered \/ Refused

\* backoff_for doubles a wait up to a limit, and the jitter halves it or adds a half
Backoff == IF attempt = 1 THEN 1 .. 3 ELSE 2 .. 6
Waits == Backoff \union {r + extra : r \in RetryAfters, extra \in {0, 1}}

\* _sleep_before_retry: a wait the deadline does not allow is not begun
AllowsAny(wait) == TRUE
Allows(wait) == wait < left
Wait ==
  /\ step = "wait"
  /\ \E wait \in Waits :
       IF Allows(wait)
       THEN /\ Elapses(wait) /\ step' = "send"
            /\ UNCHANGED <<job, verdict, chosen, todo, got, attempt, seen, result>>
       ELSE Fails("deadline") /\ UNCHANGED <<spent, seen>>

\* the answers are put together as a document, or cannot be
Map ==
  /\ step = "map"
  /\ \E words \in BOOLEAN :
       \/ \E error \in Unmappable(words) : Fails(error)
       \/ "empty_result" \notin Unmappable(words) /\ Closes(Validated(got, words))
  /\ UNCHANGED <<spent, seen>>

Next == Accept \/ Plan \/ ReadNative \/ Start \/ Attempt \/ Wait \/ Map \/ (step = "done" /\ UNCHANGED ingestVars)
Spec == Init /\ [][Next]_ingestVars

-----------------------------------------------------------------------------
(* Properties                                                                *)

Ended(reasons) == step = "done" /\ result \in [error: reasons]
Parsed == step = "done" /\ ~IsError(result)

\* A document stands for all of its file: an endpoint's chunks and pdfium's
\* pages are put together whole and in order, with the words they have, within the
\* page limit whether the verdict counted the pages or not, by an available parser that has what was
\* asked for, is the one named, if any was, and reads no text layer that is not
\* usable unless it was forced to.
DocumentsAreWhole ==
  Parsed =>
    /\ result.parser \in {Native, Endpoint} => result.pages = Numbered(Pages)
    /\ Len(result.pages) <= MaxPages
    /\ result.parser \in {Endpoint, "gcv"} => result.words
    /\ result.parser \in job.usable /\ Satisfies(result.parser)
    /\ job.named \in {None, result.parser}
    /\ job.force = "recognition" => RequiresNetwork(result.parser)
    /\ result.parser = Native => (LayerUsable \/ verdict.overridden)

\* The service gets no more of the caller's time than the deadline, however
\* many chunks are sent and however long it asks to wait, but for the one request
\* of Azure's the deadline does not reach; a call that may help is repeated while
\* attempts and time are left, and no other call is.
DeadlineHolds ==
  /\ ~Drips => spent <= Deadline + Beginning
  /\ \A i \in DOMAIN seen : i < Len(seen) => seen[i] \in Transient \union {"answer"}
  /\ Len(seen) <= MaxAttempts * ((Pages + ChunkPages - 1) \div ChunkPages + 1)

\* specs/002-ingest-parser-layer/spec.md: a file with no usable text layer is
\* routed to a parser that recognises text, if the deployment has one.
ScansReachRecognition ==
  Ended({"capability"}) /\ job.named = None /\ file.media = "pdf" /\ NativeReader
    => \A p \in job.usable : RequiresNetwork(p) => ~Satisfies(p)

\* specs/002-ingest-parser-layer/spec.md, SC-017: "Zero remote parses exceed the
\* configured overall deadline", whatever the parser.
NothingOutlastsTheDeadline == ~Drips => spent <= Deadline

\* The same spec: a transient failure is retried up to the attempt limit.
TransientFailuresAreRetried ==
  Ended(Transient) /\ left > 0 => attempt = MaxAttempts

-----------------------------------------------------------------------------
(* What makes the properties inductive                                       *)

\* The parser is one that was asked for, and the verdict one of this file.
WellChosen ==
  /\ chosen \in Parser \intersect job.usable /\ Satisfies(chosen) /\ job.named \in {None, chosen}
  /\ job.force = "recognition" => RequiresNetwork(chosen)
  /\ chosen = Native => LayerUsable \/ verdict.overridden
  /\ verdict \in Verdict /\ verdict.pages \in {0, Pages} /\ verdict.pages <= MaxPages

\* What was answered is the pages before those that were not, each chunk asked
\* for as often as it may be, in the time there was.
Sent == step \in {"wait", "map"} \/ (step = "send" /\ todo # <<>>)
Sending ==
  /\ Len(todo) <= Len(Chunks)
  /\ \A k \in DOMAIN todo : todo[k] = Chunks[Len(Chunks) - Len(todo) + k]
  /\ chosen = Endpoint => got = Numbered(IF todo = <<>> THEN Pages ELSE Head(todo)[1] - 1)
  /\ chosen # Endpoint => IF todo = <<>> THEN Len(got) <= Pages ELSE got = <<>>
  /\ ~Drips => spent <= Deadline + Beginning /\ (left > 0 => spent + left = Deadline)
  /\ \A i \in DOMAIN seen : seen[i] \in Transient \union {"answer"}
  /\ Len(seen) <= MaxAttempts * (Len(Chunks) - Len(todo)) + attempt

ParseIsOnCourse ==
  /\ job \in Jobs
  /\ step \in {"accept", "plan", "read"} \/ (step = "send" /\ ~Sent)
       => todo = <<>> /\ got = <<>> /\ seen = <<>> /\ attempt = 0 /\ spent = 0
  /\ step \in {"read", "send", "wait", "map"} => WellChosen /\ (step = "read") = (chosen = Native)
  /\ step = "wait" => todo # <<>>
  /\ step = "map" => todo = <<>>
  /\ step \in {"send", "wait"} => attempt < MaxAttempts
  /\ Sent => Sending

IngestInv == TypeOK /\ ParseIsOnCourse /\ DocumentsAreWhole /\ DeadlineHolds
=============================================================================
