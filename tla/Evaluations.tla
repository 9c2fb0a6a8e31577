---------------------------- MODULE Evaluations ----------------------------
(***************************************************************************)
(* The evaluations of one tenant and one schema (src/docdoc/runs           *)
(* /evaluations.py): starting one submits a run per checked document,      *)
(* whoever looks at it scores it once its runs have ended, and erasing a   *)
(* document takes it out of every answer set and report.  Each statement   *)
(* commits on its own.                                                     *)
(***************************************************************************)
EXTENDS Naturals, FiniteSets

CONSTANTS
  Doc,          \* documents
  Evaluation,   \* evaluation identities
  Handler,      \* requests and commands under way at once
  MaxOutages,   \* bound: statements that fail
  NoRow

VARIABLES
  answered,   \* documents with checks, by the rows of `corrections`
  rows,       \* the table `evaluations`
  runs,       \* <<evaluation, document>>: submitted runs that nothing has ended yet
  fresh,      \* evaluation identities not allocated yet
  handlers,   \* what each request has read and where it is
  schema,     \* whether the registry still has the schema
  outages,
  erased,     \* history: documents whose erasure has returned
  behind,     \* history: evaluations whose answers were read before an erasure
  lost        \* history: evaluations whose start or withdrawal failed half-way

evaluationVars == <<answered, rows, runs, fresh, handlers, schema, outages, erased, behind, lost>>

\* docs stands for document_ids, run_ids and the golden set, stripped together;
\* report for the documents a report carries.
Row == [docs: SUBSET Doc, state: {"unfinished", "scored", "failed"},
        report: SUBSET Doc, forgotten: Nat]
Idle == [step |-> "idle"]
Starting == {"begin", "check", "submit", "create", "withdraw"}
Scoring  == {"settle", "write", "fail"}
Erasing  == {"rows", "forget", "strip"}

\* What a request carries from one statement to the next.
Begun   == [step: Starting, id: Evaluation, docs: SUBSET Doc, todo: SUBSET Doc]
Judging == [step: {"settle", "fail"}, id: Evaluation, then: {Idle} \union Begun]
Writing == [step: {"write"}, id: Evaluation, then: {Idle} \union Begun, report: SUBSET Doc]
Leaving == [step: {"rows", "forget"}, doc: Doc]
Taking  == [step: {"strip"}, doc: Doc, id: Evaluation, read: Row]
State   == {Idle} \union Begun \union Judging \union Writing \union Leaving \union Taking

\* Rows and what requests carry have the shape the code gives them.
TypeOK ==
  /\ answered \subseteq Doc
  /\ rows \in [Evaluation -> Row \union {NoRow}]
  /\ runs \subseteq Evaluation \X Doc
  /\ fresh \subseteq Evaluation /\ outages \in 0 .. MaxOutages /\ schema \in BOOLEAN
  /\ handlers \in [Handler -> State]
  /\ erased \subseteq Doc /\ behind \subseteq Evaluation /\ lost \subseteq Evaluation

Init ==
  /\ answered = {}
  /\ rows = [e \in Evaluation |-> NoRow]
  /\ runs = {}
  /\ fresh = Evaluation
  /\ handlers = [h \in Handler |-> Idle]
  /\ schema = TRUE /\ outages = 0
  /\ erased = {} /\ behind = {} /\ lost = {}

Rows == {e \in Evaluation : rows[e] # NoRow}
Unfinished == {e \in Rows : rows[e].state = "unfinished"}

Go(h, state) == handlers' = [handlers EXCEPT ![h] = state]
Return(h) == Go(h, Idle)

\* A check on a run of the document, which the erasure removes with its runs.
Check(d) ==
  /\ d \notin erased /\ \A h \in Handler : handlers[h].step \in Erasing => handlers[h].doc # d
  /\ answered' = answered \union {d}
  /\ UNCHANGED <<rows, runs, fresh, handlers, schema, outages, erased, behind, lost>>

-----------------------------------------------------------------------------
(* start                                                                   *)

\* The answers are read: the golden set this evaluation will hold.
Begin(h, e) ==
  /\ handlers[h] = Idle /\ schema /\ answered # {} /\ e \in fresh
  /\ fresh' = fresh \ {e}
  /\ Go(h, [step |-> "begin", id |-> e, docs |-> answered, todo |-> answered])
  /\ UNCHANGED <<answered, rows, runs, schema, outages, erased, behind, lost>>

\* An unfinished evaluation is scored first, as by whoever looks at it; then
\* the limits are asked once, whatever the number of documents.
Pending(h) ==
  LET me == handlers[h] IN
  /\ me.step = "begin"
  /\ \/ Unfinished = {} /\ Go(h, [me EXCEPT !.step = "submit"])
     \/ \E e \in Unfinished :
          Go(h, [step |-> "settle", id |-> e, then |-> [me EXCEPT !.step = "check"]])
     \/ Unfinished = {} /\ Return(h)                           \* rate_limited
  /\ UNCHANGED <<answered, rows, runs, fresh, schema, outages, erased, behind, lost>>

\* What is still unfinished after that refuses the start.
Checked(h, e) ==
  LET me == handlers[h] IN
  /\ me.step = "check"
  /\ e \in Rows
  /\ \/ Return(h)                                              \* or rate_limited
     \/ rows[e].state # "unfinished" /\ Go(h, [me EXCEPT !.step = "submit"])
  /\ UNCHANGED <<answered, rows, runs, fresh, schema, outages, erased, behind, lost>>

Submit(h, d) ==
  LET me == handlers[h] IN
  /\ me.step = "submit" /\ d \in me.todo
  /\ runs' = runs \union {<<me.id, d>>}
  /\ Go(h, [me EXCEPT !.todo = @ \ {d}, !.step = IF me.todo = {d} THEN "create" ELSE @])
  /\ UNCHANGED <<answered, rows, fresh, schema, outages, erased, behind, lost>>

\* INSERT ... ON CONFLICT DO NOTHING, over the index of unfinished rows.
Vacant == Unfinished = {}

Create(h) ==
  LET me == handlers[h] IN
  /\ me.step = "create"
  /\ IF Vacant
     THEN /\ rows' = [rows EXCEPT ![me.id] =
               [docs |-> me.docs, state |-> "unfinished", report |-> {}, forgotten |-> 0]]
          /\ Return(h)
     ELSE Go(h, [me EXCEPT !.step = "withdraw", !.todo = me.docs]) /\ UNCHANGED rows
  /\ UNCHANGED <<answered, runs, fresh, schema, outages, erased, behind, lost>>

OwnButOne(me) == IF Cardinality(me.todo) = 1 THEN {} ELSE me.todo

OwnRuns(me) == me.todo

\* A concurrent start won: this one's runs are cancelled one by one.
Withdraw(h) ==
  LET me == handlers[h] IN
  /\ me.step = "withdraw"
  /\ \/ \E d \in OwnRuns(me) :
          /\ runs' = runs \ {<<me.id, d>>}
          /\ Go(h, [me EXCEPT !.todo = @ \ {d}])
     \/ OwnRuns(me) = {} /\ Return(h) /\ UNCHANGED runs
  /\ UNCHANGED <<answered, rows, fresh, schema, outages, erased, behind, lost>>

-----------------------------------------------------------------------------
(* settled: whoever reads an unfinished evaluation scores it               *)

Look(h, e) ==
  /\ handlers[h] = Idle /\ e \in Unfinished
  /\ Go(h, [step |-> "settle", id |-> e, then |-> Idle])
  /\ UNCHANGED <<answered, rows, runs, fresh, schema, outages, erased, behind, lost>>

Ended(e) == \A d \in rows[e].docs : <<e, d>> \notin runs

\* The row is read again, then its runs; a run that is gone counts as ended.
Score(h) ==
  LET me == handlers[h] IN
  /\ me.step = "settle"
  /\ \/ me.id \notin Unfinished /\ Go(h, me.then)
     \/ me.id \in Unfinished /\ ~Ended(me.id) /\ Go(h, me.then)
     \/ /\ me.id \in Unfinished /\ Ended(me.id)
        /\ \/ schema /\ Go(h, [step |-> "write", id |-> me.id, then |-> me.then,
                               report |-> rows[me.id].docs])
           \/ Go(h, [step |-> "fail", id |-> me.id, then |-> me.then])
  /\ UNCHANGED <<answered, rows, runs, fresh, schema, outages, erased, behind, lost>>

AnyLength(e, report) == TRUE
NeverAfterErasure(e, report) == rows[e].forgotten = 0

\* jsonb_array_length(golden->'documents') = len(report.document_scores)
SameLength(e, report) == Cardinality(rows[e].docs) = Cardinality(report)

SettleAgain(e) == e \in Rows

\* WHERE report IS NULL AND failure IS NULL
Settleable(e) == e \in Unfinished

Settle(h) ==
  LET me == handlers[h] IN
  /\ me.step = "write"
  /\ rows' = IF Settleable(me.id) /\ SameLength(me.id, me.report)
             THEN [rows EXCEPT ![me.id].state = "scored", ![me.id].report = me.report]
             ELSE rows
  /\ Go(h, me.then)
  /\ UNCHANGED <<answered, runs, fresh, schema, outages, erased, behind, lost>>

\* The schema is gone or was edited, or the library refused the pair.
Fail(h) ==
  LET me == handlers[h] IN
  /\ me.step = "fail"
  /\ rows' = IF Settleable(me.id) THEN [rows EXCEPT ![me.id].state = "failed"] ELSE rows
  /\ Go(h, me.then)
  /\ UNCHANGED <<answered, runs, fresh, schema, outages, erased, behind, lost>>

-----------------------------------------------------------------------------
(* Erasing a document                                                      *)

\* Its runs are removed first.  History: a start that read its answers and has
\* yet to write its row is behind.
Erase(h, d) ==
  /\ handlers[h] = Idle
  /\ runs' = {x \in runs : x[2] # d}
  /\ Go(h, [step |-> "rows", doc |-> d])
  /\ UNCHANGED <<answered, rows, fresh, schema, outages, erased, behind, lost>>

DeleteChecks(h) ==
  LET me == handlers[h] IN
  /\ me.step = "rows"
  /\ answered' = answered \ {me.doc}
  /\ Go(h, [me EXCEPT !.step = "forget"])
  /\ UNCHANGED <<rows, runs, fresh, schema, outages, erased, behind, lost>>

\* The starts under way, scoring an earlier evaluation included.
Starters == {g \in Handler :
  handlers[g].step \in Starting \/ (handlers[g].step \in Scoring /\ handlers[g].then # Idle)}
start(g) == IF handlers[g].step \in Starting THEN handlers[g] ELSE handlers[g].then

Holders(d) == {e \in Rows : d \in rows[e].docs}

\* Rows that hold the document are read until none does.
Forget(h) ==
  LET me == handlers[h]
      InFlight == {g \in Starters : me.doc \in start(g).docs} IN
  /\ me.step = "forget"
  /\ \/ /\ \E e \in Holders(me.doc) :
             Go(h, [step |-> "strip", doc |-> me.doc, id |-> e, read |-> rows[e]])
        /\ UNCHANGED <<erased, behind>>
     \/ /\ Holders(me.doc) = {} /\ Return(h)
        /\ erased' = erased \union {me.doc}
        /\ behind' = behind \union {start(g).id : g \in InFlight}
  /\ UNCHANGED <<answered, rows, runs, fresh, schema, outages, lost>>

StripUnguarded(e, read) == TRUE

\* settled_at and erased_documents are as read.
Unchanged(e, read) ==
  /\ (rows[e].state = "unfinished") = (read.state = "unfinished")
  /\ rows[e].forgotten = read.forgotten

Strip(h) ==
  LET me == handlers[h] IN
  /\ me.step = "strip"
  /\ rows' = IF Unchanged(me.id, me.read)
             THEN [rows EXCEPT ![me.id] =
                    [docs |-> me.read.docs \ {me.doc}, state |-> @.state,
                     report |-> me.read.report \ {me.doc}, forgotten |-> me.read.forgotten + 1]]
             ELSE rows
  /\ Go(h, [step |-> "forget", doc |-> me.doc])
  /\ UNCHANGED <<answered, runs, fresh, schema, outages, erased, behind, lost>>

-----------------------------------------------------------------------------
(* The environment                                                         *)

\* A worker ends a run, one way or another.
EndRun(x) ==
  /\ x \in runs /\ runs' = runs \ {x}
  /\ UNCHANGED <<answered, rows, fresh, handlers, schema, outages, erased, behind, lost>>

\* A statement fails: the request ends where it is, an erasure is repeated.
Outage(h) ==
  LET me == handlers[h] IN
  /\ outages < MaxOutages /\ outages' = outages + 1
  /\ me # Idle /\ me.step \notin Erasing
  /\ IF me.step \in Scoring THEN Go(h, me.then) /\ UNCHANGED lost
     ELSE Return(h) /\ lost' = lost \union {me.id}
  /\ UNCHANGED <<answered, rows, runs, fresh, schema, erased, behind>>

RemoveSchema ==
  /\ schema /\ schema' = FALSE
  /\ UNCHANGED <<answered, rows, runs, fresh, handlers, outages, erased, behind, lost>>

\* What a request does once it has begun.
Start(h) == \/ Pending(h) \/ (\E e \in Evaluation : Checked(h, e))
            \/ (\E d \in Doc : Submit(h, d)) \/ Create(h) \/ Withdraw(h)
Evaluate(h) == Score(h) \/ Settle(h) \/ Fail(h)
Forgetting(h) == DeleteChecks(h) \/ Forget(h) \/ Strip(h)

Next ==
  \/ \E h \in Handler : Start(h) \/ Evaluate(h) \/ Forgetting(h) \/ Outage(h)
  \/ \E h \in Handler, e \in Evaluation : Begin(h, e) \/ Look(h, e)
  \/ \E h \in Handler, d \in Doc : Erase(h, d)
  \/ \E d \in Doc : Check(d)
  \/ \E x \in runs : EndRun(x)
  \/ RemoveSchema

Spec == Init /\ [][Next]_evaluationVars

\* Workers end every run, a request that has begun goes on, and somebody looks
\* at an unfinished evaluation again and again.
Fairness ==
  /\ \A x \in Evaluation \X Doc : WF_evaluationVars(EndRun(x))
  /\ \A h \in Handler : WF_evaluationVars(Start(h) \/ Evaluate(h) \/ Forgetting(h))
  /\ \A e \in Evaluation : SF_evaluationVars(\E h \in Handler : Look(h, e))

LiveSpec == Spec /\ Fairness

-----------------------------------------------------------------------------
(* Properties                                                              *)

\* Once the erasure of a document has returned, no evaluation names it and no
\* report carries it, whatever scores or erasures it raced: except an
\* evaluation whose start had read the answers before.
ErasedDocumentsAreForgotten == \A e \in Rows \ behind :
  erased \intersect (rows[e].docs \union rows[e].report) = {}

\* As ErasedDocumentsAreForgotten, of every evaluation.
ErasureIsComplete == \A e \in Rows :
  erased \intersect (rows[e].docs \union rows[e].report) = {}

\* What a report says of a document it keeps for good: it is never rescored,
\* and a failure never becomes a report.
KeepsVerdicts == \A e \in Rows : rows[e].state # "unfinished" =>
  rows'[e].state = rows[e].state /\ rows'[e].report \subseteq rows[e].report
VerdictsAreWrittenOnce == [][KeepsVerdicts]_evaluationVars

\* A run submitted for an evaluation is waited for by its row or by the start
\* that is under way, or that start was cut short: a start that lost to a
\* concurrent one leaves nothing queued.
RunsAreAccountedFor == \A x \in runs :
  \/ x[1] \in Rows \/ x[1] \in lost
  \/ \E h \in Handler : handlers[h].step \in Starting /\ handlers[h].id = x[1]

\* A row never holds its schema for ever: if somebody goes on looking it is
\* scored or fails, though its documents are erased one after the other.
EvaluationsFinish == \A e \in Evaluation :
  (e \in Unfinished) ~> (e \notin Unfinished)

-----------------------------------------------------------------------------
(* What makes the properties inductive                                       *)

\* A start has an identity of its own, runs only of its documents, none before
\* it submits, and read no answer of an erased document unless it is behind.
OwnStart(s) ==
  /\ s.id \notin Rows \union fresh
  /\ s.id \in behind \/ erased \intersect s.docs = {}
  /\ s.todo \subseteq s.docs
  /\ \A x \in runs : x[1] = s.id =>
       s.step \notin {"begin", "check"} /\ x[2] \in IF s.step = "withdraw" THEN s.todo ELSE s.docs

\* Unless the row was stripped or settled since, it is as it was read.
AsRead(s) ==
  LET row == rows[s.id] IN
  /\ row.forgotten >= s.read.forgotten
  /\ row.forgotten = s.read.forgotten =>
       /\ row.docs = s.read.docs
       /\ row.state = "unfinished" \/ s.read.state # "unfinished" =>
            row.report = s.read.report /\ (row.state = "unfinished") = (s.read.state = "unfinished")

OwnState(s) ==
  /\ s \in Begun => OwnStart(s)
  /\ s \in Judging \union Writing => s.id \in Rows /\ (s.then # Idle => s.then.step = "check" /\ OwnStart(s.then))
  /\ s \in Writing /\ s.id \in Unfinished => rows[s.id].docs \subseteq s.report
  /\ s \in Leaving /\ s.step = "forget" => s.doc \notin answered
  /\ s \in Taking => s.doc \notin answered /\ s.id \in Rows /\ AsRead(s)

RequestsAreOwn ==
  /\ \A h \in Handler : OwnState(handlers[h])
  /\ \A g, h \in Starters : start(g).id = start(h).id => g = h

\* Nothing fresh has rows or runs, an erased document no answers, and a report
\* carries documents of its row only.
RowsAreSound ==
  /\ fresh \intersect Rows = {} /\ \A x \in runs : x[1] \notin fresh
  /\ answered \intersect erased = {}
  /\ \A e \in Rows : rows[e].report \subseteq rows[e].docs

EvaluationInv ==
  TypeOK /\ RequestsAreOwn /\ RowsAreSound /\ ErasedDocumentsAreForgotten /\ RunsAreAccountedFor
=============================================================================
