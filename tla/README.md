# A TLA+ model of docdoc

docdoc turns documents into validated, grounded extractions. Its synchronous
core is a pipeline of pure stages; what makes it a distributed system is the
*run*: API processes record runs in one Postgres table, any number of worker
processes claim and execute them under a lease, results go to a
content-addressed artifact store, receivers are told by webhook, and a sweep
deletes what has expired. Around it stand the API with its keys, accounts, limits
and evaluations, and under it the parsing, extraction, grounding and validation of
one document. This directory models these parts, checks them with TLC on small
instances and proves the main safety properties with TLAPS.

## The system's parts

| Part (under `src/docdoc/`) | State it keeps | Operations | What is hard about it |
|---|---|---|---|
| run queue: `runs/postgres.py`, `queue.py`, `model.py`, `migrations/` | table `runs` (status, attempts, worker_id, lease_until, cancel_requested, ...), `deliveries` rows | submit, claim (two statements), heartbeat, release, finish, cancel (three statements), retention queries | every statement is its own transaction; any two may be separated by statements of other processes; times are the senders' clocks |
| worker: `runs/worker.py`, `cli/commands/worker.py` | the claimed run, a stop flag, a heartbeat thread | claim loop, execute_one, _execute_ocr, signals, maintenance between claims | lease lapses while alive, crash at any point, SIGTERM mid-run, database or store outage mid-run |
| pipeline: `pipeline/` | none (artifacts are its memory) | parse, extract, ground, validate; consults should_continue at four boundaries | reuse of artifacts written by other runs |
| delivery: `runs/delivery.py` | `deliveries`, `callbacks` | enqueue, due, attempt, record; register, revoke | two workers attempting one delivery, stale attempt counts, lost answers |
| retention: `runs/retention.py`, `maintenance.py`, `corrections.py` | `tombstones`, what is kept | sweep, erase, tick | decides on a read, deletes later; runs start in between |
| artifact store: `artifacts/` | files or S3 objects named by content | get, envelope, put, delete, clear | concurrent puts of one identity, a crash between a temporary file and its link, bytes that rot |
| limits: `runs/limits.py` | window counters, by tenant | check, record_submission, record_tokens, prune | check and record are separate statements, beside other requests |
| console evaluations: `runs/evaluations.py`, `answers.py` | `evaluations` | create, start, settle, fail, forget_document | one run per document, partial start, concurrent settle and forget |
| console accounts: `runs/console_accounts.py` | accounts, sessions, lock counters | login, logout, resolve, the commands of `docdoc console-user` | counters read before they are written, a slow hash between two statements |
| keys: `runs/keys.py`, `api/auth.py`, `api/admin.py` | `credentials`, the key file, a cache per process | resolve, issue, revoke | a cache that outlives what it says, a thread beside the event loop |
| providers: `runs/providers.py`, `provider_settings.py`, `secrets.py` | `provider_settings`, `provider_priorities` | resolve, set, reset, seal, open | four statements read while others are written |
| schemas: `runs/console_schemas.py`, `extraction/registry.py` | `console_schemas`, a registry per process | create, version, merge, reload | two operators, readers that load at different times |
| HTTP API: `api/` | none of its own | the routes, which call the parts above | checks made before the statement they guard, pages of a listing that changes |
| ingest: `ingest/` | none | media and text layer, routing, native reader, OCR services, chunks, retries | one deadline for many calls, answers that are incomplete |
| extraction: `extraction/` | none | preflight, calls with retries, conforming | what may be repeated, and what must not be sent |
| grounding: `grounding/` | none | fold, find, filter, map back, resolve groups | offsets through a folding, a filter that must not lose matches |
| validation: `validation/` | none | accept a schema, conform, retype, constraints, rules, verdict | strings, decimals and floats by turns; absent values |
| `evaluation/`, `kernel/` | none | scoring golden sets; the value types | pure functions of finished results |
| `cli/`, `recording/`, `telemetry/`, `runs/observe.py`, `errors.py`, `health.py` | none | wiring, rendering, log lines | no state the properties speak of |

Interactions: an API process *submits* and *cancels* through the queue; a worker
*claims*, *beats*, *releases* and *finishes* through it; finish enqueues a
delivery in the same transaction; a worker with nothing to claim runs
maintenance, which attempts deliveries and sweeps; the sweep removes rows,
artifacts and blobs that runs in progress may still refer to.

`PROJECT.json` lists every part with its status, and under `hazards` the places
where this code could go wrong in ways a test would hardly reach.

## Modules

| Module | Models | Notes |
|---|---|---|
| `RunQueue` | the `runs` table with the statements of `runs/postgres.py`, the worker of `runs/worker.py`, the cancel route | one action per SQL statement, or per decision between two |
| `RunLifecycle` | the promise of the `RunQueue` protocol (`runs/queue.py`) | no SQL, lease or clock; at most one current attempt per run |
| `MCRunQueue` | small instances for TLC | |
| `RunQueueProofs` | the inductive invariant and the safety theorems, the bound on worker deaths per run, that RunQueue implements RunLifecycle | |
| `Delivery` | the `deliveries` table, the maintenance ticks of `runs/maintenance.py` that attempt what is due, `runs/delivery.py` | one action per statement or network exchange of a tick |
| `MCDelivery` | small instances for TLC | what each receiver may answer |
| `DeliveryProofs` | the inductive invariant and `VerdictsAreEarned`; with one worker, `AttemptsAreCounted` and `SettledIsFinal` | |
| `Retention` | the sweep and the erasures of `runs/retention.py`, with the row, artifact, blob and correction statements they send, against uploads, submissions, cancellations, checks and workers | one action per statement, or per deletion; a run's lease and attempts are `RunQueue`'s |
| `MCRetention` | small instances for TLC | documents, stages and deadlines of two runs |
| `RetentionProofs` | types, what deletions take, what sweeps remove and spare; `ContentOutlivesRemovals`; `NothingIsStranded` where one process removes | one lemma per part of the state says which actions write it |
| `ArtifactStore` | the artifact and blob stores on files and on S3 (`artifacts/`) | one step per system call or request |
| `Pipeline` | the four stages over one document, several attempts over one store (`pipeline/`) | reuse, degradation, verification, another model |
| `Claims` | which run a claim returns, SKIP LOCKED, and when a worker maintains | the order `RunQueue` leaves open |
| `Limits` | admission and counting (`runs/limits.py`) | check, submit and count are separate steps |
| `Evaluations` | evaluations and what erasure does to them | one step per statement |
| `Accounts` | console accounts, sessions, locks | scrypt lies between the statement that reads and the one that answers |
| `Keys` | key file, credentials table, cache of each process | the console's revocation on a thread, in two steps |
| `Providers` | priorities, settings and sealed keys by tenant and deployment | a reader takes four steps |
| `Schemas` | schemas saved in the console, the registries of workers | |
| `Api` | the routes of runs, documents, callbacks, checks, on both surfaces | a route is a short program, one step per statement |
| `Ingest` | one parse: routing, native reader, services, chunks, retries | |
| `Extraction` | one `extract()`: preflight, calls, conforming, the event | |
| `Grounding` | folding, search, filter, offsets, groups | operators on sequences of characters |
| `Validation` | schemas, conformed answers, constraints, rules, verdict, retyping | operators on small records |
| `Slots` | the parameters of these fourteen and the variables one of them at a time uses | |
| `Records` | the instances of `Accounts`, `Keys`, `Providers`, `Evaluations`, `ArtifactStore`, and what is assumed of their parameters | |
| `Stages` | the same of `Extraction`, `Schemas`, `Pipeline`, `Validation`, `Ingest` | |
| `Requests` | the same of `Api`, `Limits`, `Claims` | |
| `Evidence` | the same of `Grounding` | |
| `Components` | the fourteen side by side, and the properties the runs check | a behaviour is of one component, `which` |
| `MCComponents` | small instances for TLC | |
| `RecordsProofs` | the invariants of the components of `Records`, and that locks, verdicts and damage stay | |
| `StagesProofs` | the invariants of those of `Stages` | |
| `RequestsProofs` | the invariants of those of `Requests` | sums as numbers of units |
| `GroundingProofs` | what folding, search, offsets and the filter compute; the invariant of `Grounding` | induction by the least counterexample |
| `ComponentProofs` | the theorems of `Components` | no step of its own but the frame |

### RunQueue: how state and actions correspond to the code

*Table.* `status`, `attempts`, `owner` (`worker_id`), `asked`
(`cancel_requested`) are columns. `spec` holds the columns no statement
rewrites: the kind and whether a callback is named. `lease` is `lease_until`
minus real time, so `Tick` counts it down; `Floor` stands for NULL and for
"lapsed on every clock". `abandoned` is `error_class = 'RunAbandonedError'`.
`deliveries` is the set of runs with a row in that table (`UNIQUE (run_id)`).

*Clocks.* No statement uses the database's `now()`: each carries the clock of
the process that sent it. `Skew[w]` is how far worker `w`'s clock is ahead, and
"`lease_until < now`" is `lease[r] < Skew[w]`.

*Claim.* Its first statement abandons runs at the attempt limit: a CTE selects
them, an UPDATE joins on `run_id` alone. A row that another transaction changes
between the CTE's snapshot and the UPDATE's lock is updated as it now stands,
because the status predicate is not on the locked scan. `AbandonScan` is the
snapshot and `AbandonApply` the UPDATE; `AbandonRefused` is the case where a
listed run succeeded in between and the check constraint
`processing_id_belongs_to_success` refuses the whole statement. The second
statement (`Claim`) re-evaluates its predicate under the lock, so it is one
atomic action; since SKIP LOCKED steps over rows other statements hold, any
eligible run may be returned, and the candidate order is abstracted away.

*Attempt.* `Prepare` resolves schema, adapter and blob. At each boundary
`StopAtBoundary`, `CancelAtBoundary`, `EnterStage` are should_continue's
answers, the stop flag first; `EnterStageBlind` is the flag that could not be
read and counts as "keep going". A stage fails the run, leads to the next
boundary, or ends in `succeeded`. A pipeline that stopped (`halted`) reads the
flag again: `HaltedByCaller` concludes `cancelled`, `HaltedByShutdown` releases.
`Release` and `Conclude` are the statements, guarded by `worker_id`. The
heartbeat thread is the action `Beat` of any worker in `beating`.

*Cancel.* `CancelRead`, `CancelFlag`, `CancelFinish` are the three statements of
the cancel route; a client is any caller of it.

*Faults.* `Signal` (SIGTERM sets a flag), `Crash` (the process dies: its
in-memory state goes, the table stays), `Restart` (possibly under the same
`host:pid`), `Outage` (database or store unreachable: the loop survives, the
attempt is left for its lease). Their number in a behaviour is bounded by
`MaxDisruptions`; nothing else is bounded but `attempts`, by the code itself.

*Abstracted.* Documents, schemas, artifacts, timestamps other than the lease,
log lines. A heartbeat statement still in flight after its thread's join timed
out is not modelled: the row's `worker_id` is by then NULL or another worker's
and the statement changes nothing, unless the same worker claimed the same run
again, and then it renews the lease of its own claim.

### RunLifecycle and the refinement

`Lifecycle == INSTANCE RunLifecycle` maps `status` and `asked` to themselves and
`busy` to the attempt a worker still holds: a worker in `lost` (superseded or
abandoned) has none, although it keeps running. Under this mapping a claim that
supersedes is `Take`, which revokes the other attempt; release and finish of a
lost worker are stutters; a crash is `Vanish`. `Abandon` is as weak as the code:
it may fail a run that was cancelled or released meanwhile, never a success.

### Delivery: how state and actions correspond to the code

*Table.* `state` and `attempts` are columns of a row; `none` is before the run
concluded, `purged` after an erasure. `line` is the partial index
`deliveries_due` in `next_attempt_at` order, cut at now: `Mature` is that time
passing. A row joins anywhere in it, since `next_attempt_at` is taken from the
writer's own clock, before the statement. `withdrawn` stands for the three
reasons `_send` has not to send at all: the callback is revoked, the run is
gone, the secret cannot be read.

*Tick.* `Due` is one SELECT ... FOR UPDATE SKIP LOCKED. Its transaction ends
with the statement, so the locks are gone before the first attempt and two
workers may hold the same row in their `batch`; what they hold is a snapshot.
For each row: `Look` (callback, run, destination), `Post`, and the record:
`RecordDelivered` increments the count of the row as it then is,
`RecordFailure` writes the snapshot's count plus one, and neither asks what the
row has become. `Escape` is an answer that is not HTTP: `http.client` raises
`HTTPException`, no `OSError`, which passes `attempt`, the tick and the rest of
the batch, up to the `except` of the worker's maintenance. `GiveUp` is the
budget, looked at between attempts; `Interrupt` a crash, or a statement that
cannot reach the database.

*Answers.* `ok` is a 2xx, `refused` any other status, `lost` a timeout or a
broken connection, `garbled` not HTTP. `Answers` fixes what each receiver may
do. *Environment.* `Enqueue` is the CTE of `finish` (one row per run, see
`DeliveryMatchesVerdict` of `RunQueue`); `Revoke`, `Purge` are the callback
route and erasure.

*Abstracted.* Signatures, headers, the lengths of backoffs (`Mature` may come at
any time), the tenant, `last_status` and `last_error`.

### Retention: how state and actions correspond to the code

*State.* One tenant. `row` is the status of a run's row, `gone` once `entomb`
replaced it by a tombstone (`tombstone` is its policy); `outcomes` the artifacts
`stage_outcomes` names, kept after the row for the properties to speak of;
`blobs` and `artifacts` the two stores; `corrected` the runs with a row in
`corrections`, which for a check never expires. `clock` counts deadlines that
have passed. `Chain[r]` is the artifact each stage of a run has: runs over the
same document share their parse, under the same schema everything.

*A worker* is seen as a removal sees it: it claims, looks for the document
(`Fetch`), reads the cancel flag at each boundary (`Boundary`: a flag that
cannot be read, or a row that is gone, is "keep going"), takes each stage from
the store or files it (`Stage`, where a store that cannot be written drops the
artifact and the run goes on), reads the last one back (`Check`), and writes
verdict and outcomes if it still has the run (`Finish`). `Claim` may supersede
at any time: when is `RunQueue`'s matter.

*A sweep* is `Sweep` (the batch, oldest deadline first), `Pins`, `Refill`,
`PinsAgain`, then for what is left `Survivors` (one SELECT of what the other rows
name, and the difference), one `DeleteArtifact` or `DeleteBlob` at a time, and
`Entomb`. `HeedsChecks` is whether the caller passed a correction store.
`Refill` excludes what was pinned and nothing else, so it may return a run
already chosen. *An erasure* is `Erase` (the runs, as they are), `CancelNext`
for each that has not ended, then either the same difference (a document, or
the default tenant, whose namespace is the store's root) or `DeletePrefix` of
each store (a named tenant), then `Entomb` and `Purge`. Each holds on to the
outcomes it read first (`copy`). `Interrupt` is any error or crash: everything
in memory goes, the rows stay.

*History.* `exposed` are the runs that were being submitted or executed while a
removal was under way; `condemned` those some removal set out to remove;
`deleted`, `outside`, `early` what was deleted, what was filed without a run,
and which runs were checked before they expired.

*Abstracted.* The cancel route is one step. Deletions and `delete_prefix` are
complete or raise; the file stores' ignore errors. Orientation sidecars, the
limit of 10,000 runs per erasure, evaluations (`forget_document`), callbacks and
counters in `_purge`, and the reports are left out. `Deadline` is fixed per run:
an OCR run's is the one it has when it ended.

### ArtifactStore: how state and actions correspond to the code

`entries` is the envelope filed under each identity, payload and all in one file
or one object: its content, its format, and what became of its bytes (whole;
another payload than its hash says; no envelope any more; not even UTF-8).
`documents` are the blobs, `temporaries` the files between `mkstemp` and the link
or unlink. `backend` chooses files or S3 once, `rooted` whether a tenant's
namespace is the root. `pc`, `op` and `todo` are the operation of a process: on
files a put looks, writes a temporary file and links it, and a link that finds a
name taken reads it; on S3 a put reads what is there, writes one object over it,
and reads again. A `get` verifies (`Read`); what fails its check is reported and
stays, except that S3's reader decodes inside the `except` for a store out of
reach, so bytes that are no UTF-8 are a miss there (`Undecoded`) and the next put
overwrites them. `delete_prefix` and `clear` list, then delete one entry at a
time; a clear of one stage passes over what has no envelope (`OfStage`). Files
ignore what cannot be removed, S3 raises (`GivesUp`). Faults are a crash, an
outage, or bytes that rot. *Abstracted:* paths, permissions, what a payload is
(two payloads are equal iff their hashes are).

### Pipeline

`store` maps an identity to what is filed there, and an identity is derived
from what the code derives it from: the bytes, the parser, the model *asked
for*. An attempt walks the stages; at each it may be told to stop, look up,
verify, execute, file, or meet a fault or a conflict. `made` is what it returns,
`outcomes` what it reports. A removal may take an id between two stages.
*Abstracted:* values and spans: a parse is a `Reading`, an answer a `Reply`, and
what follows from them (`Grounded`, `Validated`) is a record of its inputs.

### Claims and Limits

`Claims` has the ORDER BY of `claim`: starved first, then the tenant served
least lately, then priority, then age. `line` holds the rows by
`created_at`, ages are counted up to where the order stops telling them apart.
A row another worker's statement holds is skipped. `Maintain` is the tick of a
worker whose claim returned nothing. Rows never stop arriving: a row whose run
has ended may be a new run later, so that the bound on rows is one on runs *at
once*. In `Limits` a request checks each configured limit, then submits (or is
a replay under its key), then counts with its retries; a run that ended has
tokens to count; `Prune` removes old windows; time is in minutes and `Start` is
where a window begins.

### Evaluations, Accounts, Keys

Each is its tables plus what the requests under way have read. `Evaluations`:
`Start` submits one run per answered document, statement by statement, and may
be cut short; `Look` scores or fails what has ended; `Forgetting` is the erasure
of a document. `Accounts`: a login reads the account, hashes, and counts, clears
or opens a session in one guarded statement; operators' commands are two
statements. `Keys`: a resolution runs on the event loop (`drop`, `ask`, `keep`),
revocations come from the shell, from the loop or from a thread, which forgets
the cache only after its statement. Hashing is comparison, tokens are counted.

### Providers and Schemas

`Providers` reads tenant's priority, tenant's row, deployment's priority,
deployment's row, while operators set and reset them and processes restart under
another master key; `Resolve` is the choice of adapter, model and key.
`Schemas`: a create checks the name, reads the versions and inserts; a new
version of a name does so up to three times, while others take the number it
wanted. A worker loads the registry when it starts and again for a schema it does
not know, strictly (an outage sends the run back to the queue).

### Api

`handler[h]` is one request: its program counter names the statement it sends
next, its fields what it has read. The routes: upload, submit (gate, callback,
insert or holder of the key), state, result, cancel, check, register, revoke,
erase, which lists the runs of a tenant (`Erase`), cancels those queued
(`Recall`), empties the namespace (`Wipe`), removes the runs listed (`Entomb`)
and the tenant's rows in other tables, callbacks among them (`Purge`). `walk` is a
client that pages through the listing. `Elsewhere` are
workers and the sweep. `told`, `held` remember what clients were answered.

### Ingest, Extraction, Grounding, Validation

`Ingest` follows one parse from the file to the document or the error; the
service may answer fewer pages, fail, ask to wait, or take its time, which is the
attempt's timeout or what the deadline leaves, whichever is less; to start an
analysis by Azure, the SDK's own timeout, `StartTimeout`, comes before it
(`Beginning`). `Extraction`
follows one call of `extract()` with its preflight, retries and event.
`Grounding` computes: a text is a sequence of characters from an alphabet that
has a letter in both cases, a ligature, a combining mark, a hyphen, a line break,
a blank, a soft hyphen, so that every case of the folding happens; `ground`
looks at one claim per step. `Validation` computes verdicts over schemas whose
fields cover a scalar of each type, an object and a repeating group; numbers,
dates and texts are their rank, and what form a number had (string, decimal,
float, integer, a fraction where it counts entries, NaN or infinite) is kept,
because the code tells them apart. `Retyped` is what storing and reading back
makes of a value: what JSON has no type for becomes text and is read again, and a
float that is not finite becomes null and stays null.

## Runs

`Lease = 1` tick and a floor at -1 give a lease three phases (held, lapsed for a
clock that is ahead, lapsed for all). `MaxAttempts = 2` is the least that has a
redelivery and a limit. Extraction has two boundaries (the code: four), one
before any work and one after some, OCR one, as in the code. Two workers are
enough for every supersession, since a third adds no kind of step a second does
not; the proofs below remove all these bounds for the safety properties. One
run suffices because no statement but the abandoning one reads more than one row.

| Run | Checks | Bounds | Result |
|---|---|---|---|
| `queue_safety` | type invariant, six invariants, three action properties, `ImplementsLifecycle` | 1 run, 2 workers (one `--kind extraction`, its clock ahead), 1 canceller, 3 faults | pass, 1.36 million states |
| `queue_liveness` | `EveryRunEnds` | 1 run, 2 workers of any kind, 2 faults | pass, 83 thousand states |
| `queue_terminal` | `TerminalIsFinal`: "No transition leaves `succeeded`, `failed`, or `cancelled`" (docs/concepts/runs.md:89) | as above | violated: the abandoning UPDATE overwrites `cancelled` |
| `delivery_single` | `AttemptsAreCounted`, `SettledIsFinal` | 2 deliveries, 1 worker, batch 2, 3 attempts, 2 interruptions | pass, 87 thousand states |
| `delivery_liveness` | type invariant, `VerdictsAreEarned`, `EveryDeliverySettles` | 2 deliveries, 2 workers, 2 attempts, receivers that speak HTTP | pass, 255 thousand states |
| `delivery_again` | `SettledIsFinal` with two workers: "a delivered or failed row is never due again" (migrations/0006_delivery.sql) | 2 workers | violated: a late failure makes a delivered row pending |
| `delivery_blocked` | `EveryDeliverySettles` with a receiver that is not HTTP: "One failing receiver delays the deliveries behind it by its own timeout and nothing more" (`_deliver`, runs/maintenance.py) | 2 deliveries | violated: nothing is recorded of the first row, so it stays first and every tick ends at it |
| `retention_safety` | type invariant, `OutsideContentStays`, `ContentOutlivesRemovals`, `NothingIsStranded`, `CheckedRunsAreKept`, `OnlyEndedRunsAreSwept` | two extractions of one document with one schema, which share everything; 1 worker; 1 remover, in four scenarios: sweeps with batches of 1 that ask for checks, with cancellations or with 1 interruption, and erasures, again and again, of the document or of a named tenant | pass, 2.10 million states |
| `retention_two` | `NothingIsStranded` with two sweepers: "become unreachable garbage that no later sweep can identify" is what must not happen (docs/adr/0015:80) | 2 sweepers | violated: each sweep spares the parse for the sake of the run the other one removes |
| `retention_unpinned` | `CheckedRunsAreKept` as deployed: "A run whose result carries a live correction is not swept" (docs/concepts/retention.md:124) | 1 run | violated: neither caller of `sweep` passes a correction store |
| `components` | the type invariants and the properties of the fourteen other components | below | pass, 1.36 million states |
| `progress` | `EveryRunIsServed`, `EvaluationsFinish` | 1 worker, 2 tenants, 2 rows, a starvation bound, 1 crash; 2 evaluations, 1 document, 2 handlers, 1 outage | pass, 61 thousand states |

Three attempts let two stale counts and a limit of `Delivery` meet; two
interruptions can fall on both sides of a retry. `VerdictsAreEarned` is checked
where two workers overwrite each other, and proved for any answers, interruptions
and numbers.

`Components` runs the components one at a time: `which` names the one a
behaviour is about, `v1` ... `v14` stand for its variables and the others stay
empty. They share no variable with each other or with `RunQueue`, so a behaviour
of all of them is an interleaving of behaviours of each, and nothing is lost by
looking at one at a time. What they do share, the code of one calling the other,
is inside the modules: the API's own view of runs, the worker's of registries
and counters. Each property of `Components` is a conjunction of properties of
one component, named where they are defined; `SettledFactsStay` is the action
properties of three.

| Component | Bounds, and why they are enough |
|---|---|
| `ArtifactStore` | 1 identity, 2 contents, 2 formats, 2 processes, 1 fault: divergence needs two writers of one identity, and a crash, or a rot of any of three kinds, falls between any two calls |
| `Accounts` | 1 user, 2 passwords, 2 browsers, 1 operator, 2 failures lock, 2 ticks: two logins that both read before either counts |
| `Keys` | 1 key, 1 server, lifetime 2, clock to 4: another server's revocation is the one from the shell; any number in `RecordsProofs` |
| `Evaluations` | 2 evaluations, 1 document, 2 handlers, 1 outage: a second start, score or erasure beside the first |
| `Limits` | 1 tenant, 2 handlers, 1 key, in five scenarios of limits and requests: counters of different kinds meet only in a request that is counted by both |
| `Claims` | 2 tenants, 2 rows, 1 worker, no priority granted: the deficit needs a second tenant, starvation a second row |
| `Pipeline` | 2 attempts, 2 readings, 2 replies, 2 models, 1 fault: an OCR host and a model that do not repeat themselves |
| `Api` | up to 3 runs, 2 tenants, 2 requests, pages of 1, in nine scenes of operations that read what one another write |
| `Schemas`, `Providers` | 1 name with 2 versions and 2 drafts; 2 scopes, 1 master key, an operator and a restart |
| `Ingest` | pages 0 to 4 with a limit of 3 and chunks of 2, 3 attempts, deadline 7, attempts of 2 and Azure's start of 3: a last chunk that is short, a wait that does not fit, a start that begins within the deadline and ends past it |
| `Extraction` | 3 attempts, deadline 6, calls up to 3 |
| `Grounding` | the shipped threshold 9/10, where claims of nine characters lose their edit to rounding (`Short = {9}`): claims of up to 11 characters, one or two per extraction, documents that have them whole, twice, or with one edit in any place, and short ones for what folding deletes and joins; budget 3, so that some searches are cut short |
| `Validation` | three types with required fields, with seven sets of constraints, and with six of rules beside constraints or none; answers of every form; infinite floats and fractional counts included |

One worker and two runs suffice for removals: a removal meets one attempt at a
time, and what it spares needs one survivor. In `retention_safety` the process
that removes either sweeps (runs expire and are checked, and either they are
cancelled or it may be interrupted between any two steps) or erases the document,
or the named tenant, again and again; `MCRetention` keeps the four apart because
together they are beyond a run. Erasing the default tenant is
left out: with one document it differs from erasing that document only in the
checks it purges.

What removals do not promise, as the code stands, is in the model and in
PROJECT.json's hazards: a worker past its boundary files its stage into a
namespace already erased, and later ones too, since a row that is gone reads as
not cancelled; a run that reuses what a sweep under way has decided to delete
succeeds with a result that is gone (the exception in `ContentOutlivesRemovals`);
a check admitted before an erasure may be recorded after it; a document without
a run is not deleted by its erasure; two batches of checked runs stall a sweep.

Deadlock is not checked: once every run is terminal, leases are at the floor and
the faults are spent, nothing has to happen.

The properties of `queue_safety` in words:

- `OwnershipIsCurrent`: the attempt the row names is exactly the one nobody has
  superseded or abandoned since, whatever the clocks say.
- `NoRunBecomesInvisible`: a queued run always has an attempt left, a running one has spent one.
- `PoisonIsBounded`: a run costs at most `MaxAttempts` worker processes.
- `CancelledWasAsked`: no run reads cancelled unless somebody asked.
- `WithdrawnNeverSucceeds`: a cancellation that landed in the queue is never
  overtaken by a success through later claims and redeliveries, unless a worker
  could not read the flag.
- `DeliveryMatchesVerdict`: deliveries exist exactly for concluded runs with a
  callback. Abandoned ones are apart: the statement that abandons a run enqueues
  none, although docs/concepts/delivery.md:12 has "One `POST` per terminal run".
- `SucceededIsFinal`, `LostAttemptsWriteNothing`, `CancelNeverStopsALiveAttempt`:
  what no single step may do.

The properties of the other components in words:

- `ArtifactsAreSafe`: of two different contents under one identity at most one
  put comes back (on S3 if no two writers overlap and each could read what was
  there); a temporary file outlives only a process that died; objects a removal
  said are gone are gone (files it could not remove stay, unseen).
- `AccountsAreGuarded`: concurrent guesses gain at most one per request; whoever
  holds a session knows the password there is now.
- `RevocationPropagates`: a revoked key is refused within one cache lifetime,
  whatever was in flight; an issued one works at once.
- `ErasedDocumentsAreForgotten`: no evaluation names an erased document, except
  one whose start had read the answers before; no run is left that nobody waits for.
- `SettledFactsStay`: locks in force, written reports and, on files, damaged
  bytes are not overwritten by a step that read before.
- `LimitsHold`: counters hold one for each run created, however often a request
  is repeated, and every limit is overshot by at most what is under way. They
  hold the tokens too where the worker was given a limiter, as in the run.
- `ReuseAgrees`: the parts of a result belong together, while the model that
  answers is the one asked and nothing is removed in between; what is stored
  under an id agrees with what it was derived from.
- `AnswersStandUp`: nobody learns of another tenant's run; no answer takes back
  an earlier one; a repeated request gets its run; a walk over the pages of the
  listing misses no run that was there throughout.
- `SavedVersionsServe`: what an operator was told is saved is what is executed.
- `KeysAreNotPassedOver`: a run is never billed to a wider scope than that of a
  key that was there while it was looked for.
- `DocumentsAreWhole`: a document stands for all pages of its file, by a parser
  that may be used; the service never gets more than the deadline, except for
  the start of an analysis by Azure, which carries no timeout of the caller's.
- `CallsAreBounded`: retries stay within attempts and deadline, and what was
  refused beforehand was sent nowhere.
- `EvidenceIsGenuine`: the range shown as evidence contains what was found, no
  match is lost to the filter but one exactly the edit too far that rounding
  takes from `max_edits`, no two entries of a group share a range.
- `VerdictsAreSound`: what is judged valid obeys its schema, each bound as the
  code reads it, and is judged the same when read back if its floats are finite.
- `EveryRunIsServed`: no queued run is passed over for ever while no priority is
  granted. `EvaluationsFinish`: an evaluation somebody looks at ends.

*Fairness* (`Components!LiveSpec`). For claims: a worker's loop, its tick and
the clock go on. For evaluations: submitted runs end (`queue_liveness` says why),
requests under way are answered, and somebody looks at each evaluation again and
again (strong, because an erasure may be in the way at any moment).

The properties of `Delivery` in words:

- `VerdictsAreEarned`: `delivered` only after some 2xx, `failed` only after
  `MaxAttempts` attempts that came to an answer, although workers overwrite each
  other's counts.
- `SettledIsFinal`, `AttemptsAreCounted`: with one worker, a verdict stays, and
  the count misses at most one attempt per interruption, so a receiver hears a
  delivery at most `MaxAttempts` plus interruptions times.
- `EveryDeliverySettles`: no pending row is pending for ever.

The properties of `Retention` in words:

- `OutsideContentStays`: what the synchronous route filed without a run goes only
  if a run some removal set out to remove named it too, or with a whole tenant.
- `ContentOutlivesRemovals`: a run nobody sets out to remove keeps its document
  while it may execute and its result once it succeeded, unless it was being
  submitted or executed while a removal was under way. That exception is the
  price of deciding on a read.
- `NothingIsStranded`: of a swept run no artifact is left that no other run
  names, unless it was computed anew; crashes included, with one process that
  removes. `retention_two` is why one.
- `CheckedRunsAreKept`: checked before it expired, not swept while the check is
  there, by a sweep that asks. `OnlyEndedRunsAreSwept`: `entomb` deletes by
  `run_id` alone, and yet what it deletes has ended and expired.

*Fairness* (`Delivery!FairSpec`). Backoffs end; a post has a timeout; each worker
returns to maintenance again and again, and is not out of budget before its
first row for ever (strong fairness of `Look`, because `GiveUp` may disable it).

*Fairness* (`RunQueue!FairSpec`). Weak fairness of the clock, of each worker's loop (its
claim loop and the attempt in it, restart included: a container runtime restarts
workers) and of cancel requests under way. Nothing is assumed of submissions,
signals, faults, or the heartbeat: a worker that never beats is only superseded
earlier. Faults are finite. `Claim` needs no strong fairness: a worker that
keeps looping finds the run queued or lapsed whenever it is not someone else's.

## Proofs

Assumed of the constants: `None` is not a run or worker, `Worker` is finite,
`Lease` and `MaxAttempts` are positive, `Skew` is any integer per worker, `Floor`
is below every skew. Nothing else: any number of runs, workers, clients, faults.

`IInv` is the inductive invariant. The safety properties are not inductive by
themselves; it adds

- `ControlInv`: an attempt in flight has a run, a verdict exists only on the way
  to finish, and what a worker or client remembers names a submitted run;
- in `CancelInv`, that a worker about to write `cancelled` saw the flag;
- in `WithdrawnInv`, that the current attempt on a withdrawn run is never past
  a boundary. Attempts that lost their run may be, and it is
  `OwnershipIsCurrent` that keeps their verdicts out.

`RunQueueProofs` has one lemma per action, one step per conjunct, and derives
`Spec => []IInv` (`Invariance`), from which the theorems on ownership, visibility,
cancellation, withdrawal, deliveries, lost attempts, final success and on who may
cancel a running run follow.
The bound on deaths follows from `AttemptsAreCharged`
(deaths plus attempts in flight are at most `attempts`): a claim pays for the
attempt it begins, a death keeps the charge, and only the owner's release gives
one back, at the moment its attempt leaves. The last part
shows that every step maps to a step of `RunLifecycle` or a stutter.

`DeliveryProofs` assumes a finite set of workers, a positive batch and attempt
limit, and for each receiver some possible answer. A worker's failure overwrites
the row with a count that may be stale, so the count in the row goes down as well
as up; what never fails is that it, and every count in a snapshot, plus what
workers are about to record of that delivery, is at most the attempts that really
came to an answer (`CountsAreCovered`, `SnapshotsAreCovered`). A look or a post
raises both sides, a record moves one unit from "about to be recorded" to the
row, a crash only lowers the left side. A verdict `failed` is written when a
snapshot's count plus one reaches the limit, hence `VerdictsAreEarned`.

With one worker nobody else writes what it read, so its snapshots agree with the
rows (`ReadingsHold`), an attempt is missing from a count only while it is about
to be recorded or after an interruption (`OwedIsCounted`), and what is in a batch
has not been settled since it was read (`NothingHeldIsSettled`): hence
`AttemptsAreCounted` and `SettledIsFinal`.

`RetentionProofs` assumes what the constants are (documents, non-empty chains,
deadlines, a positive batch, scopes that are not each other's names) and nothing
of how many runs, workers, sweepers and erasers there are. The writer lemmas
reduce `Next` to the actions that write a part of the state, so each later lemma
has only those as cases. `IInv` adds to the properties what makes them
inductive: outcomes are written once, when a run ends (`OutcomesAreFinal`), so
what a removal read stays true (`CopiesAreOutcomes`) and what it deletes by name
was named (`DeletionsAreNamed`); what a sweep chose has ended and is due and
stays so (`SweptRunsEnded`), though rows change behind its back; and a run that
is checked while a sweep goes on is due already if the sweep chose it
(`ChecksArePins`, `TombstonesAreDue`). `ContentOutlivesRemovals` is about runs no
removal set out to remove and that were never under way together with one: a
removal subtracts what the rows in the table name, hence their documents and
results (`DocumentsStay`, `ResultsStay`), and before a row names its result no
removal is under way (`BeginningsAreQuiet`). The exception in the property is
exactly what this argument needs.

`NothingIsStranded` assumes one process that removes. A sweep has read all
that its runs name, since they had ended (`CopiesAreWhole`); from the difference
to the tombstones each of those artifacts is to be deleted, has been, or is named
by a run the sweep leaves alone (`SweepsAccountForAll`), which only another sweep
could take away; and an interruption gives up the deletions together with the
tombstones. `NothingIsStranded` is about artifacts in the store, which may be
computed anew, so its inductive form (`SweptAreAccountedFor`) is about all.

### The components of `Components`

`Spec` of `Components` chooses a component at the start and takes its steps, so
that all theorems have one frame: under `which = "accounts"` the initial states
are `Accounts!Init` and the steps are `Accounts!Next` (`OnlyOneRuns`). `Holding`
of `ComponentProofs` says that the invariant of the component that runs holds;
it begins and is kept because each of the fourteen does, and every theorem
follows from it. A component's invariant is in the last section of its module
("What makes the properties inductive"), those of `Claims` and `Grounding`
beside their proofs; types are part of it, hence `TypeOK` of all fourteen
(`ComponentsAreAlwaysTyped`). Any number of processes, requests, runs, users,
documents and faults is allowed throughout; the assumptions named in `Records`,
`Stages`, `Requests` and `Evidence` say what else is assumed: limits are positive
where the code rejects or never uses another value, sets that are counted are
finite, `None` is none of the values it stands beside. The modules of the
instances are apart so that a proof has only its own instances around it.

*Accounts.* A login that compared a wrong password has not counted it yet, and
counts it in a statement that sees the row as it then is. `GuessesAreCounted`
says that the guesses since the counter was last cleared are at most `failed`
plus the wrong logins under way that may still count (`Uncounted`): a comparison
adds one to both sides, a count moves it from one term to the other, and
whatever clears the counter clears both. The bound on guesses is this with
`failed` below `MaxFailedLogins` and at most one login per browser. A session
begins in a statement that finds the hash its request verified, so it is the
password of that moment (`SessionsAreCurrent`).

*Keys.* An entry that was found was asked for before the key was revoked, and
its lifetime counts from the asking (`EntriesDie`); the same is so of a
resolution in flight, which may put its entry back after a revocation has
dropped it (`InFlight`). So no admission comes later than one lifetime after a
revocation (`Admissions`). An issued key works at once because no cache holds a
miss (`HitsAreCached`).

*Providers.* Resolution reads four rows one after the other. A key that has
stayed since a reader began is still there (`SteadyKeysAreThere`), so the reader
finds it when it comes to its row (`ReadingsShowKeys`), and the narrower scope is
considered before the wider one.

*Evaluations.* A start owns its identity, which nobody else has
(`RequestsAreOwn`), holds runs of its own documents only, and has read no answer
of an erased document unless it is `behind` (`OwnStart`). A settling request
read a row which since then can only have been stripped, and counts being
stripped (`AsRead`), so its guarded statement puts back nothing that was erased.

*ArtifactStore.* On files a link decides, so what was accepted is what is filed
(`FiledAsAccepted`). On S3 this needs that a writer who saw nothing filed is the
only one (`OneWriter`), and that it could see: the property excepts identities
whose writers overlapped, could not reach the store, or read bytes that are no
text as a miss (`unseen`). An object a removal has listed and no longer has to
delete is gone (`ListedIsGone`); of files this is not claimed.

`SettledFactsStay` is the action property of `Accounts`, `Evaluations` and
`ArtifactStore` together; it uses the three invariants.

*Extraction.* `CallsSoFar`: before a call is made every earlier one failed in a
way that may pass, and one is left; an answer is the last call.

*Schemas.* A version saved is numbered past those a request has read, and a
request has read all of the files' (`RequestsAreInformed`), so no row ever takes
the place of a file (`RowsAreBesideFiles`): what an identity names never changes,
and registries loaded at different times agree where both know it
(`RegistriesAgree`).

*Pipeline.* A run on its course has the results of the stages behind it and no
others (`RunsAreInOrder`). While nothing is removed, what is filed under the
names derived from the model asked for belongs together, and nothing is filed
before what it was made from (`StoreAgrees`); a run of that model has made what
belongs together, and unless its store failed it, has what is filed
(`RunsAgree`). The four stages are proved one by one, each for reuse, execution
and filing.

*Validation.* Only a schema that fits (`SchemaFits`) is conformed to, and a value
that passed is of its field's type, in whatever form it came (`Conformed`); the
verdict and its repetition on the value read back are then the same function of
values that differ in form only, unless one is an infinite or undefined float,
which comes back as null; a count of entries is compared with the bound as
`int()` reads it.

*Api.* `Fate` orders what can be said of a run: none, live, over, buried. It
never falls, and what was told of a run is at most its fate (`TablesAgree`). A
request about a run holds to what it has read: it knew at most the fate there is,
and where it found no row of a run it knew of, there is a tombstone (`Looks`). A
submission's key belongs to the run it answers, or that run is buried
(`Submits`); at most one row of a tenant has a key. A walk through the pages has
behind its cursor what it has seen and before it what it still owes
(`WalkIsOnCourse`): the order of creation is total, pages are its first
`PageSize`, and a run inserted meanwhile is newer than the cursor.

*Ingest.* The parser chosen may be used and fits what is asked (`WellChosen`).
What was answered is the pages before the chunks that are left, and those are an
end of `Chunks` (`Sending`): so a document that comes out of the last chunk has
all pages in order. While something is left, time spent and time left add up to
the deadline; the last attempt by Azure may begin within it and end past it, by no
more than its start (`Beginning`). Attempts are at most `MaxAttempts` for each
chunk.

*Limits.* Counters are compared with sums over requests and minutes. `Total`
writes a sum as the size of a set of units, so what a step does to a sum follows
from the library's facts on cardinality, where a fold would need induction: one
summand changes, and the sum changes by as much (`SumsMove`). What is counted,
owed by requests that have submitted (`Owes`) and lost adds up to what was
accepted: a submission adds one run to the second and the last, a count moves one
from the second to the first, a failure moves the rest to what is lost. The bound
needs what is still to come: `Coming` is what requests past the check of a window
may yet count in it, and `WindowsAreBounded` says that counter and `Coming`
together stay below the limit and what handlers submit at once, since the last
request to pass the check found room under the limit and all of them together
carry at most `AtOnce`. The queues have the same argument with `Entering` and
`Queueing`. A window that begins while a request is under way is why the share of
a request depends on the minute it reads again (`Comes`). `LimitsAlwaysHold`
assumes nothing of the worker: runs are counted and limits hold whether or not it
was given a limiter, as `docdoc worker` is not, and tokens add up where it was.

*Claims.* The line holds each row there is once and no other (`Lists`): a
submission appends a row that was not there, and those who leave it leave the
others in it, which is what `Without`, a recursive function for SQL's WHERE, is
shown to compute. What a worker holds is a run that is there and that nobody
else holds (`HandsAgree`): a locked row waits or has lapsed, still has an attempt
left and stays so, since time only takes leases away and `claim`'s first
statement fails nothing but what has no attempt left; an executed one runs under
a lease that each tick renews, so it is never waiting and no claim returns it.
This is also what the types need: `attempts` stays within its limit because a
lock is committed on a row that had one left. A live worker's heartbeats are in
time in `Claims`; `RunQueue` has those that are late.

*Grounding.* What a document and a claim are, how long they are and how many
claims there are is arbitrary; so are the threshold, a fraction, and the budget.
The operators are recursive functions over texts, so the proofs are by induction
all the same: over numbers, from the well-foundedness of `<` as the library
states it, a set of numbers that has 0 and with each number the next has all
(`Steps`). A function defined by recursion is a CHOOSE, so it is shown first that
one with its equation exists (`SegmentsRecur`, `JoinsRecur`, `SuccessorsRecur`,
`EditsRecur`).

- A text is cut into segments (a letter, a run of blanks, a hyphen at the end of
  a line) in one way only (`ChainsAreUnique`), and the view is their folded texts
  joined. A window of the view is reported as the range of the segments it
  touches, which cover it (`SpansCover`).
- A range that begins and ends with whole segments is cut, for itself, into the
  same segments (`CutChains`), except that a hyphen at an end that was deleted
  between two letters stands where one of them is cut off. So what the range
  shows contains the window that was found (`SpansShow`); where the window is the
  claim itself the range shows the claim: `EvidenceShowsTheClaim`.
- An entry of a group takes a range nobody has taken, and what was reported was
  taken: `EntriesHaveTheirOwnEvidence`.
- A window that clears the threshold differs from the claim in at most
  `max_edits` (`FewEdits`). Edits split at any place of the claim into those
  before and those after (`EditsSplit`); so of one block more than edits one
  stands unedited in the window, no farther from its place than the edits
  (`OneIsUnedited`), and the filter proposes where the window begins
  (`StartsAreProposed`). Where the budget was not spent the fuzzy search has then
  tried it. `Short` is any set of lengths at which the floats leave `max_edits`
  one too small: there the argument goes through for windows with fewer edits
  than the numbers allow, and what is lost has exactly that many
  (`EvidenceIsOnlyLostToRounding`). `NoEvidenceIsOverlooked` is false at the
  shipped threshold and not proved.

Proving found definitions that TLC evaluates as meant and that nevertheless did
not mean it: `CASE` with arms that overlap (`Api!Starts`, `Extraction!Refusal`,
`Grounding!SegmentAt`, `Validation!ValueFits` and `Evaluated`), where the semantics
of TLA+ leaves open which arm counts and the code's order of `if`s does not; they
are written with exclusive conditions now. In `Ingest`, candidates were a sequence
filtered by a recursive definition; they are a set of indices in the order of
priority, and the parser selected is its least. `Edits` in `Grounding` was
a function of two arguments with recursion on both; it is one of pairs, so that a
single set of pairs carries the induction.

### Only model-checked

`EveryRunEnds`, `EveryDeliverySettles`, `EveryRunIsServed`, `EvaluationsFinish`:
liveness is out of the prover's reach. Every safety and action property of a
passing run is a theorem, those of the instances with one worker or one sweeping
process under that assumption, as said above.

The violated properties are facts about counterexamples and have no proof.


## Where the code and its documents disagree

Five disagreements have a run that shows the violation (`queue_terminal`,
`delivery_again`, `delivery_blocked`, `retention_two`, `retention_unpinned`).
The modules state more of them, as properties no run lists; TLC refutes each
when it is put into a configuration of `MCRunQueue` or `MCComponents`, under
`which = ...` for the component it is about (a component's property is named as
in its module, after the name of the instance):

| Property | Says | And the code |
|---|---|---|
| `EveryVerdictIsNotified` of `RunQueue` | "One `POST` per terminal run" (docs/concepts/delivery.md:12) | the statement that abandons a run enqueues nothing; only `finish` does (postgres.py:637) |
| `Validation!ReuseIsJudgedAlike` | a reused extraction is "indistinguishable from the executed one, which is exactly what FR-012 requires it to be" (pipeline/runner.py:658-663) | a field of type number takes an infinite float (`1e999`), the store writes it as null (artifacts/store.py:342), and null passes the bound the float failed (constraints.py:281) |
| `Validation!LengthsAreWholeCounts` | "A length bound is a whole, non-negative count. A float is rejected rather than truncated" (extraction/schema.py:575-580) | on a repeating group the check returns before it looks at the value (schema.py:493), and `int()` reads it later (constraints.py:155) |
| `Validation!ChecksNeverRaise` | "A failing check MUST NOT raise" (specs/005-deterministic-validation/spec.md:380) | a decimal `NaN` is accepted by `conform` and then ordered; a zoned date is compared with a naive one; `min_length: "abc"` on a repeating group passes the schema and fails in `int()` |
| `Ingest!NothingOutlastsTheDeadline` | "Zero remote parses exceed the configured overall deadline" (specs/002-ingest-parser-layer/spec.md:455) | the request that starts an analysis by Azure is sent without a timeout (azure_di.py:497) and has the SDK's |
| `Ingest!ScansReachRecognition` | a scan is routed to a parser that recognises text (specs/002-ingest-parser-layer/spec.md:301) | parsers are chosen by what is asked and by priority, so the native reader may be chosen for a scan and refuses it, although an OCR service is there (parse.py:402) |
| `Ingest!TransientFailuresAreRetried` | transient failures are retried (same spec) | a rate limit that Vision reports inside a 200 is seen after the retries are over (gcv.py:222) |
| `Extraction!EveryExtractionIsReported` | every extraction emits one event with its attempts (specs/003-schema-driven-extraction/spec.md:404) | an error no adapter translates leaves without one |
| `Grounding!NoEvidenceIsOverlooked` | the filter "finds every window that could possibly clear the threshold", which lets ungrounded mean "*it is not there*" (grounding/candidates.py:8-12) | `1.0 - 0.9` is a little less than a tenth, so claims of 9, 18, 27 ... characters get one edit less than they may have (candidates.py:52), although :19-20 says the bound is verified for every length to 59 |
| `Grounding!OccurrencesAreTakenOnce` | surplus claims of a group are ungrounded (specs/004-deterministic-grounding/spec.md:324) | only identical ranges exclude each other, overlapping ones do not |
| `ArtifactStore!DamageIsSpared` | recovery from damage is a person's clear, "rather than the run that found the fault silently overwriting the evidence of it" (artifacts/store.py:442-444) | S3's reader decodes inside `except Exception` (s3.py:555), so bytes that are no UTF-8 are a miss and the next put overwrites them |
| `ArtifactStore!WritesNeverOverwrite` | divergent content raises (docs/concepts/artifacts.md:67) | on S3 two writers that look before either writes both succeed |
| `Keys!RefusedWhereRevoked` | the server that revokes refuses at once (keys.py:301) | a resolution in flight puts its entry back for one lifetime |
| `Evaluations!ErasureIsComplete` | an erased document leaves every report (docs/adr/0026-tenant-quality-evaluation.md:65) | a start that read the answers before the erasure writes it in afterwards |
| `Claims!EveryRunIsServed` with `RunPriority = {0, 1}` and three rows | starvation bounds every wait (docs/concepts/limits.md:97) | among runs that are all past the bound a priority precedes age, so urgent ones pass an old one over for ever; and the configured bound is never passed to `claim` |
| `Claims!MaintenanceHappens` | maintenance happens on every worker (docs/concepts/retention.md:130) | only after a claim that returns nothing |
| `Limits!TokensAreCounted` with `WorkerCounts = FALSE` | tokens count against the budget, which "refuses the **next** submission" (docs/concepts/limits.md:72-73) | `docdoc worker` builds its worker without a limiter (cli/commands/worker.py:169) |
| `Pipeline!ReuseIsIndistinguishable` | `REUSED` returns what executing would have made (pipeline/result.py:44) | not when another model answered than the one asked for |
| `Pipeline!FailuresNameTheirStage`, `StagesAreAccountedFor` | a failed run records its failing stage and the outcomes of those that completed (docs/adr/0013:141, docs/concepts/runs.md:78) | the stage is read off the class of the exception, and a class of no layer, as an SDK's, is validation's |
| `Schemas!NewNamesAreNew` with `SchemaFiles = {}` | racing creates of a name: one wins (docs/adr/0029:52) | the second reads the first one's row and becomes version 2 |

Read in the code and not modelled as properties:
cancelling a run that succeeded between the read and the finish answers 200, not
409; a service that drips its answer exceeds the deadline, since
urllib's timeout is per socket operation (`Drips` of `Ingest`); `now` in
`worker.py:727` is taken when an execution starts.

## Not modelled

- `src/docdoc/evaluation/`, `kernel/`, and the identities of `derivation.py`:
  pure functions of finished data, nothing interleaves or fails half-way. The
  stages use the kernel's types as records.
- `cli/`, `recording/`, `telemetry/`, `runs/observe.py`, `health.py`: parsing of
  arguments, rendering and log lines. Commands that change a table are actions of
  that table's module.
- Of `delivery.py` the destination policy, signatures and payload; of
  `maintenance.py` how long a tick's budget is; of `retention.py`
  orientation sidecars and reports. Patterns of schemas, coordinates of tokens,
  what a prompt says, wording everywhere.
- `paddlex.py`'s response formats: that an answer has words or pages, or not, is
  a choice of the environment in `Ingest`.
- `ui/`, the console's front end, renders what the API answers.

Four hazards have no property, because the code does not prevent them: a worker
that is still executing when its tenant is erased files into a namespace that is
gone (`retention.py:264`); a run that is submitted or reuses a stage while a
removal is under way may refer to what is then deleted (`retention.py:351`);
`delete_prefix` on files passes over what it cannot remove, and the rows that
name it go all the same (`artifacts/store.py:476`); and a worker that is always
busy never maintains (`worker.py:533`, see `MaintenanceHappens` above).
