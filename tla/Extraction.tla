----------------------------- MODULE Extraction -----------------------------
(* extract() (extraction/extract.py) asks a model for the values of a schema: *)
(* what can be refused without the document leaving the process is refused    *)
(* first, a call that fails for a while is repeated within a deadline         *)
(* (retry.py), the answer is conformed to the schema, and one event says how  *)
(* it went. The provider is adapters/gemini.py; adapters/echo.py answers what *)
(* a test gives it. Time is counted; a call takes any of it, for nothing      *)
(* bounds one. Left out: what the request and the values are.                 *)
EXTENDS Naturals, Sequences, FiniteSets

CONSTANTS
  MaxAttempts,  \* TransportSettings.max_attempts
  Deadline,     \* TransportSettings.deadline_s
  MaxCall,      \* bound: the longest a call takes
  None

VARIABLES
  asked,     \* the request: an adapter, and which of its checks it passes
  step,
  attempts,  \* calls begun, as call_with_retries counts them
  spent,     \* time since the first
  seen,      \* how each call ended
  outcome,   \* the result or the error the caller got
  events     \* events emitted

extractionVars == <<asked, step, attempts, spent, seen, outcome, events>>

ExtractionReason == {"shape", "type", "missing_field", "input_budget", "truncated"}
ProviderReason == {"timeout", "deadline", "rate_limit", "auth", "transport", "service", "refusal", "unavailable", "request"}
Transient == {"timeout", "rate_limit", "transport", "service"}
Reason == ExtractionReason \union ProviderReason \union {"schema", "untranslated"}
Event == [outcome : {"success", "failure"}, reason : Reason \union {None}, attempts : 0 .. MaxAttempts]
Checks == {"resolves", "usable", "in budget"}
Request == [adapter : {"gemini", "echo"}, passes : SUBSET Checks]
Outcome == Reason \union {"result"}   \* what the caller gets: an error, or values and where they are from

\* Requests, outcomes and events have the shape the code gives them.
TypeOK ==
  /\ asked \in Request
  /\ step \in {"check", "call", "wait", "conform", "done"}
  /\ attempts \in 0 .. MaxAttempts /\ spent \in 0 .. Deadline + MaxCall
  /\ seen \in Seq(Reason \union {"answer"})
  /\ outcome \in Outcome \union {None}
  /\ events \in Seq(Event)

Init ==
  /\ asked \in Request
  /\ step = "check" /\ attempts = 0 /\ spent = 0 /\ seen = <<>>
  /\ outcome = None /\ events = <<>>

\* _fail: the event of a failure, whose attempts the caller must give
Fails(reason, counted) ==
  /\ step' = "done" /\ outcome' = reason
  /\ events' = Append(events, [outcome |-> "failure", reason |-> reason, attempts |-> counted])

-----------------------------------------------------------------------------
(* What is refused before anything is sent                                   *)

\* the first check that fails: SchemaRegistry.resolve, available,
\* guard_input_budget, whose estimate is never less than the tokens
Refusal == IF "resolves" \notin asked.passes THEN "schema"
           ELSE IF "usable" \notin asked.passes /\ asked.adapter = "gemini" THEN "unavailable"
           ELSE IF "in budget" \notin asked.passes THEN "input_budget" ELSE None
Check ==
  /\ step = "check"
  /\ IF Refusal # None THEN Fails(Refusal, 0) ELSE step' = "call" /\ UNCHANGED <<outcome, events>>
  /\ UNCHANGED <<asked, attempts, spent, seen>>

-----------------------------------------------------------------------------
(* The provider                                                              *)

\* _TRANSIENT_CODES, _PERMANENT_CODES, _translate
Status == {"late", "throttled", "down", "malformed", "forbidden", "odd"}
Translated(status) ==
  CASE status = "late" -> "timeout" [] status = "throttled" -> "rate_limit" [] status = "malformed" -> "request"
    [] status = "forbidden" -> "auth" [] OTHER -> "service"

\* _read, _payload: what keeps an answer from being one
Finish == {"blocked", "no candidate", "refused", "max tokens", "odd", "empty", "no json", "no object", "stop"}
Read(finish) ==
  CASE finish \in {"blocked", "refused"} -> "refusal" [] finish \in {"no candidate", "odd"} -> "service"
    [] finish = "max tokens" -> "truncated" [] finish = "stop" -> "answer" [] OTHER -> "shape"

\* EchoAdapter: canned, or the failure a test asked for
Echoes == {"answer", "refusal", "request", "service"}

\* The client raises what is no APIError too, and that is not translated.
Ends == IF asked.adapter = "echo" THEN Echoes
        ELSE {Translated(s) : s \in Status} \union {Read(f) : f \in Finish} \union {"untranslated"}

-----------------------------------------------------------------------------
(* The calls                                                                 *)

\* A provider's failure is tried again if it may pass and attempts are left; the
\* adapter's own is not, and the event is told that one call was made.
AnyFailure(end) == end \in ProviderReason /\ attempts + 1 < MaxAttempts
TriesAgain(end) == end \in Transient /\ attempts + 1 < MaxAttempts
Counted(end) == IF end \in ExtractionReason THEN 1 ELSE attempts + 1

Expired == spent >= Deadline
Call ==
  /\ step = "call"
  /\ IF Expired THEN Fails("deadline", attempts) /\ UNCHANGED <<attempts, spent, seen>>
     ELSE \E end \in Ends, time \in 0 .. MaxCall :
            /\ attempts' = attempts + 1 /\ spent' = spent + time /\ seen' = Append(seen, end)
            /\ CASE end = "answer" -> step' = "conform" /\ UNCHANGED <<outcome, events>>
                 [] end = "untranslated" -> step' = "done" /\ outcome' = end /\ UNCHANGED events
                 [] TriesAgain(end) -> step' = "wait" /\ UNCHANGED <<outcome, events>>
                 [] OTHER -> Fails(end, Counted(end))
  /\ UNCHANGED asked

\* _wait_for: what the provider asks for is waited for in full, its own
\* backoff is halved at most by the jitter
Backoff == IF attempts = 1 THEN {1} ELSE {1, 2}
AllowsAll(wait) == spent + wait <= Deadline
Allows(wait) == spent + wait < Deadline
Wait ==
  /\ step = "wait"
  /\ \E requested \in {None, 3}, wait \in Backoff \union {3} :
       /\ requested # None => wait = requested
       /\ IF ~Allows(wait) THEN Fails("deadline", attempts) /\ UNCHANGED spent
          ELSE /\ spent' = spent + wait /\ step' = "call"
               /\ UNCHANGED <<outcome, events>>
  /\ UNCHANGED <<asked, attempts, seen>>

\* the answer conforms, and the result is given an identity, or it does not
Conform ==
  /\ step = "conform"
  /\ \/ /\ step' = "done" /\ outcome' = "result"
        /\ events' = Append(events, [outcome |-> "success", reason |-> None, attempts |-> attempts])
     \/ \E reason \in {"shape", "type", "missing_field"} : Fails(reason, attempts)
  /\ UNCHANGED <<asked, attempts, spent, seen>>

Rest == step = "done" /\ UNCHANGED extractionVars
Next == Check \/ Call \/ Wait \/ Conform \/ Rest
Spec == Init /\ [][Next]_extractionVars

-----------------------------------------------------------------------------
(* Properties                                                                *)

Last == seen[Len(seen)]

\* A result stands for one answer, the last; a call is repeated only after one
\* that may have failed for a while, within attempts and before the deadline;
\* and what was refused beforehand has sent the document nowhere.
CallsAreBounded ==
  /\ outcome = "result" => Last = "answer"
  /\ Len(seen) = attempts /\ \A i \in DOMAIN seen : i < Len(seen) => seen[i] \in Transient
  /\ step = "call" /\ attempts > 0 => spent < Deadline
  /\ outcome \in {"schema", "unavailable", "input_budget"} => seen = <<>>
  /\ outcome \in Transient => attempts = MaxAttempts

\* specs/003-schema-driven-extraction, FR-040: "Every extraction, successful or
\* failed, MUST emit one structured log event carrying ... the attempt count".
EveryExtractionIsReported ==
  step = "done" => /\ Len(events) = 1
                   /\ events[1].attempts = Len(seen)

-----------------------------------------------------------------------------
(* What makes the properties inductive                                       *)

\* Until it is done a request has no outcome, every call of it so far may have
\* failed for a while, and another one is left when it is about to make one;
\* an answer ends the calls.
CallsSoFar ==
  /\ step # "done" => outcome = None
  /\ step = "check" => attempts = 0
  /\ step \in {"call", "wait"} => attempts < MaxAttempts /\ \A i \in DOMAIN seen : seen[i] \in Transient
  /\ step = "conform" => attempts > 0 /\ Last = "answer"

ExtractionInv == TypeOK /\ CallsSoFar /\ CallsAreBounded
=============================================================================
