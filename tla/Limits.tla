------------------------------- MODULE Limits -------------------------------
(***************************************************************************)
(* Admission of runs (src/docdoc/runs/limits.py and the routes that ask    *)
(* it): fixed windows counted in a table, a concurrency cap read from the  *)
(* runs themselves, and the two caps of the OCR queue.  A request checks,  *)
(* submits and counts in separate statements, beside others that do.       *)
(***************************************************************************)
EXTENDS Naturals, FiniteSets, FiniteSetsExt

CONSTANTS
  Tenant, Handler,
  RequestKey,       \* idempotency keys, and NoKey
  NoKey,
  SubmissionLimit,  \* submissions_per_minute
  RunLimit,         \* runs_per_period
  TokenLimit,       \* tokens_per_period
  ConcurrencyLimit, \* concurrent_runs
  OcrTotal,         \* ocr_queue_total, of the deployment
  OcrLimit,         \* ocr_queue, of each tenant
  Checked,          \* the documents an evaluation runs again
  Period,           \* minutes in a period
  WorkerCounts,     \* whether the worker was given a limiter
  Scenarios,        \* bound: what one behaviour has, a set of records: policy, the
                    \* limits configured; asked, what clients ask for; and the
                    \* last minute and the number of runs
  MaxMinutes,       \* the longest of them
  MaxFailures       \* bound: statements that fail

VARIABLES
  scenario,  \* the scenario of this behaviour
  active,    \* runs queued or running, by tenant and kind
  usedKeys,  \* idempotency keys that name a run
  counters,  \* limit_counters
  requests,  \* each request under way
  submitted, \* how many runs were ever submitted
  unspent,   \* tokens of runs that ended, not counted yet
  minute,
  failures,
  accepted,  \* history: what the counters would be, had every count been written at once
  unwritten  \* history: counts that were lost

limitVars == <<scenario, active, usedKeys, counters, requests, submitted, unspent, minute, failures, accepted, unwritten>>

Kind == {"extraction", "ocr"}
Window == {"submissions", "runs_per_period", "tokens"}
Start(k, now) == IF k = "submissions" THEN now ELSE now - (now % Period)
Limit(k) == CASE k = "submissions" -> SubmissionLimit
              [] k = "runs_per_period" -> RunLimit
              [] k = "tokens" -> TokenLimit
Resting == [step |-> "idle"]
\* n: runs still to submit.  owed: counts still to write.
Admission == [step: Window \union {"concurrent", "body", "submit", "count", "total", "mine"},
              tenant: Tenant, kind: Kind, key: RequestKey \union {NoKey},
              at: Nat, n: Nat, submissions: Nat, runs_per_period: Nat]
Table == [Tenant -> [Window -> [0 .. MaxMinutes -> Nat]]]

TypeOK ==
  /\ active \in [Tenant -> [Kind -> Nat]]
  /\ usedKeys \subseteq Tenant \X RequestKey
  /\ counters \in Table /\ accepted \in Table /\ unwritten \in Table
  /\ requests \in [Handler -> Admission \union {Resting}]
  /\ unspent \in [Tenant -> [0 .. MaxMinutes -> Nat]]
  /\ minute \in 0 .. MaxMinutes /\ failures \in 0 .. MaxFailures
  /\ submitted \in 0 .. scenario.runs

Nothing == [t \in Tenant |-> [k \in Window |-> [m \in 0 .. MaxMinutes |-> 0]]]

Init ==
  /\ scenario \in Scenarios
  /\ active = [t \in Tenant |-> [k \in Kind |-> 0]]
  /\ usedKeys = {} /\ submitted = 0
  /\ counters = Nothing /\ accepted = Nothing /\ unwritten = Nothing
  /\ requests = [h \in Handler |-> Resting]
  /\ unspent = [t \in Tenant |-> [m \in 0 .. MaxMinutes |-> 0]]
  /\ minute = 0 /\ failures = 0

\* The sum of a function's values, as the size of the set of its units.
Total(f) == Cardinality(UNION {{x} \X (1 .. f[x]) : x \in DOMAIN f})

Become(h, r) == requests' = [requests EXCEPT ![h] = r]
Answer(h) == Become(h, Resting)
Request(t, kind, key, n, step) ==
  [step |-> step, tenant |-> t, kind |-> kind, key |-> key, at |-> minute, n |-> n,
   submissions |-> 0, runs_per_period |-> 0]
\* A limit that is not configured counts nothing.
Added(table, t, k, now, by) ==
  IF k \in scenario.policy THEN [table EXCEPT ![t][k][Start(k, now)] = @ + by] ELSE table

-----------------------------------------------------------------------------
(* check: four questions, each a statement, of the minute read first       *)

\* A limit that is not configured is not asked about.
Order == <<"submissions", "runs_per_period", "tokens", "concurrent", "body">>
From(i) == Order[Min({j \in i .. 5 : Order[j] \in scenario.policy \union {"body"}})]
After(k) == From(1 + CHOOSE i \in 1 .. 5 : Order[i] = k)

\* A run of one document, or an evaluation, which asks once for all of its runs.
Ask(h, t, key) ==
  /\ requests[h] = Resting /\ (key # NoKey => "retry" \in scenario.asked)
  /\ \/ /\ "run" \in scenario.asked
        /\ Become(h, Request(t, "extraction", key, 1, From(1)))
     \/ /\ "evaluation" \in scenario.asked /\ key = NoKey
        /\ Become(h, Request(t, "extraction", NoKey, Checked, From(1)))
  /\ UNCHANGED <<scenario, active, usedKeys, counters, submitted, unspent, minute, failures, accepted, unwritten>>

UnderOrAt(observed, permitted) == observed <= permitted
Under(observed, permitted) == observed < permitted

WindowCheck(h, k) ==
  LET r == requests[h] IN
  /\ r.step = k
  /\ IF Under(counters[r.tenant][k][Start(k, r.at)], Limit(k))
     THEN Become(h, [r EXCEPT !.step = After(k)]) ELSE Answer(h)
  /\ UNCHANGED <<scenario, active, usedKeys, counters, submitted, unspent, minute, failures, accepted, unwritten>>

\* Extraction runs only: an OCR backlog refuses no extraction.
Concurrent(t) == active[t]["extraction"]

ConcurrencyCheck(h) ==
  LET r == requests[h] IN
  /\ r.step = "concurrent"
  /\ IF Under(Concurrent(r.tenant), ConcurrencyLimit)
     THEN Become(h, [r EXCEPT !.step = "body"]) ELSE Answer(h)
  /\ UNCHANGED <<scenario, active, usedKeys, counters, submitted, unspent, minute, failures, accepted, unwritten>>

\* The blob, the schema and the body, which is awaited: anything may refuse.  A
\* run's row carries the minute it is submitted, an evaluation's that of its start.
Prepare(h) ==
  LET r == requests[h] IN
  /\ r.step = "body"
  /\ \/ Answer(h)
     \/ r.n = 1 /\ Become(h, [r EXCEPT !.step = "submit", !.at = minute])
     \/ r.n > 1 /\ Become(h, [r EXCEPT !.step = "submit"])
  /\ UNCHANGED <<scenario, active, usedKeys, counters, submitted, unspent, minute, failures, accepted, unwritten>>

-----------------------------------------------------------------------------
(* OCR: two counts, then the run                                           *)

AskOcr(h, t, key) ==
  /\ requests[h] = Resting /\ "ocr" \in scenario.asked
  /\ Become(h, Request(t, "ocr", key, 1, "total"))
  /\ UNCHANGED <<scenario, active, usedKeys, counters, submitted, unspent, minute, failures, accepted, unwritten>>

Backlog == Total([t \in Tenant |-> active[t]["ocr"]])

TotalCheck(h) ==
  LET r == requests[h] IN
  /\ r.step = "total"
  /\ IF Under(Backlog, OcrTotal) THEN Become(h, [r EXCEPT !.step = "mine"]) ELSE Answer(h)
  /\ UNCHANGED <<scenario, active, usedKeys, counters, submitted, unspent, minute, failures, accepted, unwritten>>

MineCheck(h) ==
  LET r == requests[h] IN
  /\ r.step = "mine"
  /\ IF Under(active[r.tenant]["ocr"], OcrLimit)
     THEN Become(h, [r EXCEPT !.step = "submit"]) ELSE Answer(h)
  /\ UNCHANGED <<scenario, active, usedKeys, counters, submitted, unspent, minute, failures, accepted, unwritten>>

-----------------------------------------------------------------------------
(* submit, then count                                                      *)

\* Every row of an evaluation is submitted before any of them is counted.
Onward(r) == IF r.n > 1 THEN [r EXCEPT !.n = @ - 1]
             ELSE IF r.submissions = 0 THEN Resting ELSE [r EXCEPT !.n = 0, !.step = "count"]

Replayed(r) == r.key # NoKey /\ <<r.tenant, r.key>> \in usedKeys

AlwaysCounted(r) == r.kind = "extraction"

\* Only a run that is new is counted, and only an extraction.
Counted(r) == r.kind = "extraction" /\ ~Replayed(r)

Owing(r) == IF Counted(r) THEN [r EXCEPT !.submissions = @ + 1, !.runs_per_period = @ + 1] ELSE r

\* A key that names a run answers that run; otherwise a row is inserted.
Submit(h) ==
  LET r == requests[h] IN
  /\ r.step = "submit"
  /\ Become(h, Onward(Owing(r)))
  /\ IF Replayed(r) THEN UNCHANGED <<active, usedKeys, submitted, accepted>>
     ELSE /\ submitted < scenario.runs /\ submitted' = submitted + 1
          /\ active' = [active EXCEPT ![r.tenant][r.kind] = @ + 1]
          /\ usedKeys' = usedKeys \union ({<<r.tenant, r.key>>} \intersect (Tenant \X RequestKey))
          /\ accepted' = IF r.kind = "ocr" THEN accepted
                         ELSE Added(Added(accepted, r.tenant, "submissions", r.at, 1),
                                    r.tenant, "runs_per_period", r.at, 1)
  /\ UNCHANGED <<scenario, counters, unspent, minute, failures, unwritten>>

\* record_submission: one window, then the other, run by run.
Record(h) ==
  LET r == requests[h]
      k == IF r.submissions = r.runs_per_period THEN "submissions" ELSE "runs_per_period"
      left == [r EXCEPT ![k] = @ - 1] IN
  /\ r.step = "count"
  /\ counters' = Added(counters, r.tenant, k, r.at, 1)
  /\ Become(h, IF left.runs_per_period = 0 THEN Resting ELSE left)
  /\ UNCHANGED <<scenario, active, usedKeys, submitted, unspent, minute, failures, accepted, unwritten>>

\* The process ends or the database refuses: what is owed is never counted.
Fail(h) ==
  LET r == requests[h] IN
  /\ r.step \in {"submit", "count"} /\ failures < MaxFailures
  /\ failures' = failures + 1
  /\ Answer(h)
  /\ unwritten' = Added(Added(unwritten, r.tenant, "submissions", r.at, r.submissions),
                        r.tenant, "runs_per_period", r.at, r.runs_per_period)
  /\ UNCHANGED <<scenario, active, usedKeys, counters, submitted, unspent, minute, accepted>>

-----------------------------------------------------------------------------
(* The worker                                                              *)

\* A run ends; an extraction whose claim was at began may have spent a token.
EndRun(t, kind, began) ==
  /\ active[t][kind] > 0 /\ began \in {minute, minute - 1}
  /\ active' = [active EXCEPT ![t][kind] = @ - 1]
  /\ \/ UNCHANGED <<unspent, accepted>>
     \/ /\ kind = "extraction" /\ "tokens" \in scenario.policy
        /\ accepted' = Added(accepted, t, "tokens", began, 1)
        /\ unspent' = IF WorkerCounts /\ "tokens" \in scenario.policy THEN [unspent EXCEPT ![t][began] = @ + 1] ELSE unspent
  /\ UNCHANGED <<scenario, usedKeys, counters, requests, submitted, minute, failures, unwritten>>

\* After the verdict, best effort.
RecordTokens(t, began) ==
  /\ unspent[t][began] > 0
  /\ unspent' = [unspent EXCEPT ![t][began] = @ - 1]
  /\ \/ /\ counters' = Added(counters, t, "tokens", began, 1)
        /\ UNCHANGED <<failures, unwritten>>
     \/ /\ failures < MaxFailures /\ failures' = failures + 1
        /\ unwritten' = Added(unwritten, t, "tokens", began, 1)
        /\ UNCHANGED counters
  /\ UNCHANGED <<scenario, active, usedKeys, requests, submitted, minute, accepted>>

KeepNothing == 0
Keep == 2 * Period

\* expire_windows, of the maintenance tick.
Expire ==
  /\ WorkerCounts
  /\ counters' = [t \in Tenant |-> [k \in Window |-> [s \in 0 .. MaxMinutes |->
                   IF s + Keep < minute THEN 0 ELSE counters[t][k][s]]]]
  /\ counters' # counters
  /\ UNCHANGED <<scenario, active, usedKeys, requests, submitted, unspent, minute, failures, accepted, unwritten>>

Tick ==
  /\ minute < scenario.minutes
  /\ minute' = minute + 1
  /\ UNCHANGED <<scenario, active, usedKeys, counters, requests, submitted, unspent, failures, accepted, unwritten>>

Next ==
  \/ \E h \in Handler, t \in Tenant, key \in RequestKey \union {NoKey} :
       Ask(h, t, key) \/ AskOcr(h, t, key)
  \/ \E h \in Handler : \/ \E k \in Window : WindowCheck(h, k)
                        \/ ConcurrencyCheck(h) \/ Prepare(h) \/ TotalCheck(h) \/ MineCheck(h)
                        \/ Submit(h) \/ Record(h) \/ Fail(h)
  \/ \E t \in Tenant, m \in 0 .. MaxMinutes :
       RecordTokens(t, m) \/ \E kind \in Kind : EndRun(t, kind, m)
  \/ Expire \/ Tick

Spec == Init /\ [][Next]_limitVars

-----------------------------------------------------------------------------
(* Properties                                                              *)

\* The windows of this minute, and of a request that began within the last period.
Live == {s \in 0 .. MaxMinutes : s + Period >= minute}
Owes(r, t, k, s) == IF r # Resting /\ r.tenant = t /\ Start(k, r.at) = s THEN r[k] ELSE 0
UnderWay(t, k, s) == Total([h \in Handler |-> Owes(requests[h], t, k, s)])

\* What the tenant's runs spent is in the budget of the period they began in,
\* save for what is about to be written or could not be.
TokensAreCounted == \A t \in Tenant, s \in Live : LET k == "tokens" IN
  counters[t][k][s] + unwritten[t][k][s]
    + Total([m \in 0 .. MaxMinutes |-> IF Start(k, m) = s THEN unspent[t][m] ELSE 0])
    = accepted[t][k][s]

\* A counter that a check can still read holds one for every run that was
\* created, however requests interleave and however often a key is repeated,
\* save for counts still under way and counts whose process died.
RunsAreCounted ==
  \A t \in Tenant, k \in scenario.policy \intersect {"submissions", "runs_per_period"}, s \in Live :
    counters[t][k][s] + UnderWay(t, k, s) + unwritten[t][k][s] = accepted[t][k][s]
CountsAreHonest == RunsAreCounted /\ TokensAreCounted

AtOnce == Cardinality(Handler) * Checked

\* Checking and counting apart lets every request under way overshoot a limit,
\* by as many runs as it submits, and never more than that.
OvershootIsBounded == \A t \in Tenant :
  /\ \A k \in scenario.policy \intersect {"submissions", "runs_per_period"}, s \in Live :
       accepted[t][k][s] < Limit(k) + AtOnce + unwritten[t][k][s]
  /\ "concurrent" \in scenario.policy => active[t]["extraction"] < ConcurrencyLimit + AtOnce
  /\ active[t]["ocr"] < OcrLimit + Cardinality(Handler)
  /\ Backlog < OcrTotal + Cardinality(Handler)

-----------------------------------------------------------------------------
(* What makes the properties inductive                                     *)

Counters == {"submissions", "runs_per_period"}
InForce == scenario.policy \intersect Counters

\* Where a request is that has been admitted by the check of a window.
Past(k) == (IF k = "submissions" THEN {"runs_per_period"} ELSE {}) \union {"tokens", "concurrent", "body", "submit", "count"}

\* A request reads no minute to come, submits before it counts, and counts a
\* run in both windows; one that was admitted found room.
OnCourse(r) ==
  /\ r.at <= minute /\ r.n + r.runs_per_period <= Checked
  /\ r.kind = "ocr" => r.step \in {"total", "mine", "submit"} /\ r.n = 1
  /\ r.kind = "extraction" => r.step \notin {"total", "mine"}
  /\ r.kind = "ocr" \/ r.step \notin {"submit", "count"} => r.submissions = 0 /\ r.runs_per_period = 0
  /\ r.step # "count" => r.n > 0 /\ r.submissions = r.runs_per_period
  /\ r.step = "count" => /\ r.n = 0 /\ r.runs_per_period > 0
                         /\ r.submissions \in {r.runs_per_period, r.runs_per_period - 1}
  /\ r.kind = "extraction" => \A k \in InForce : r.step \in Past(k) => Limit(k) > 0
RequestsAreOnCourse == \A h \in Handler : requests[h] # Resting => OnCourse(requests[h])

\* Nothing is counted in a window to come, and no tokens that are not limited.
NothingIsEarly ==
  /\ \A t \in Tenant, k \in Counters, s \in 0 .. MaxMinutes : s > Start(k, minute) => counters[t][k][s] = 0
  /\ \A t \in Tenant, m \in 0 .. MaxMinutes : unspent[t][m] > 0 => "tokens" \in scenario.policy

\* What a request may yet count in a window: what it was admitted for, or a run
\* whose minute it has not read again, which an earlier window may have admitted.
Comes(r, t, k, s) ==
  IF r = Resting \/ r.tenant # t \/ r.kind = "ocr" THEN 0
  ELSE IF r.step \in Past(k) /\ Start(k, r.at) = s THEN r.n + r[k]
  ELSE IF r.step \notin {"submit", "count"} /\ r.n = 1 /\ Start(k, r.at) < s /\ Limit(k) > 0 THEN 1 ELSE 0
Coming(t, k, s) == Total([h \in Handler |-> Comes(requests[h], t, k, s)])
WindowsAreBounded == \A t \in Tenant, k \in InForce, s \in 0 .. MaxMinutes :
  counters[t][k][s] + Coming(t, k, s) < Limit(k) + AtOnce

\* So with what requests past the check of a queue may yet submit.
Enters(r, t) == IF r # Resting /\ r.tenant = t /\ r.kind = "extraction" /\ r.step \in {"body", "submit"} THEN r.n ELSE 0
Entering(t) == Total([h \in Handler |-> Enters(requests[h], t)])
Queues(r, T, steps) == IF r # Resting /\ r.tenant \in T /\ r.kind = "ocr" /\ r.step \in steps THEN 1 ELSE 0
Queueing(T, steps) == Total([h \in Handler |-> Queues(requests[h], T, steps)])
QueuesAreBounded ==
  /\ \A t \in Tenant :
       /\ "concurrent" \in scenario.policy => active[t]["extraction"] + Entering(t) < ConcurrencyLimit + AtOnce
       /\ active[t]["ocr"] + Queueing({t}, {"submit"}) < OcrLimit + Cardinality(Handler)
  /\ Backlog + Queueing(Tenant, {"mine", "submit"}) < OcrTotal + Cardinality(Handler)

\* A worker without a limiter counts runs, but no tokens.
CountsAreKept == RunsAreCounted /\ (WorkerCounts => TokensAreCounted)

LimitInv ==
  /\ scenario \in Scenarios /\ TypeOK /\ RequestsAreOnCourse /\ NothingIsEarly
  /\ CountsAreKept /\ WindowsAreBounded /\ QueuesAreBounded
=============================================================================
