------------------------------ MODULE Retention ------------------------------
(***************************************************************************)
(* Removal over a content-addressed store (runs/retention.py): the sweep   *)
(* of expired runs and the erasure of a document or of a tenant, against   *)
(* everything that goes on meanwhile: uploads, submissions, workers that   *)
(* reuse and file artifacts, checks that pin a run.                        *)
(*                                                                         *)
(* One tenant, hence one namespace.  A removal is a sequence of statements *)
(* and of deletes, each a step: what it decides on may be stale when it    *)
(* acts.  Of a run only what a removal can see is modelled: RunQueue has   *)
(* its lease, its attempts and its clocks.                                 *)
(***************************************************************************)
EXTENDS Integers, FiniteSets, Sequences

CONSTANTS
  Run, Blob, Artifact,
  Worker,         \* processes that execute runs
  Sweeper,        \* processes that sweep: workers between claims, docdoc sweep
  Eraser,         \* processes that erase: the API, docdoc erase
  Document,       \* the blob_id of each run
  Extracts,       \* the runs that extract, and can be checked; others are OCR
  Chain,          \* the artifact each stage of a run has, in order
  Deadline,       \* expires_at of each run; an OCR run's, once it has ended
  Sweepable,      \* the runs whose kind the sweep is asked for
  Batch,          \* DOCDOC_RUN_SWEEP_BATCH
  HeedsChecks,    \* does the sweep's caller pass it a correction store?
  Outside,        \* artifacts the synchronous route may file, without a run
  Erasable,       \* what may be erased: documents, "tenant", "root"
  MaxInterrupts,  \* bound on crashes, outages and store errors in removals
  None

Ended    == {"succeeded", "failed", "cancelled"}
Status   == {"none", "queued", "running", "gone"} \union Ended
\* A named tenant has a namespace to itself.  The default one's is the store's
\* root, which holds what nobody ran, so it is erased as documents are.
Tenant   == {"tenant", "root"}
Remover  == Sweeper \union Eraser
WorkerPc == {"idle", "fetch", "boundary", "stage", "check", "finish"}
ReadPc   == {"pins", "refill", "pins again", "cancel"}
ActPc    == {"survivors", "artifacts", "blobs", "entomb", "purge"}
\* Deadlines are compared with one clock: a sweep's now only decides which
\* runs it looks at, and any that ended may be among them.
Horizon  == CHOOSE t \in {Deadline[r] : r \in Run} : \A r \in Run : Deadline[r] <= t

ASSUME ConstantAssumption ==
  /\ Document \in [Run -> Blob]
  /\ Chain \in [Run -> Seq(Artifact) \ {<< >>}]
  /\ Deadline \in [Run -> Nat]
  /\ {Extracts, Sweepable} \subseteq SUBSET Run /\ Outside \subseteq Artifact
  /\ Batch \in Nat \ {0} /\ MaxInterrupts \in Nat
  /\ HeedsChecks \in BOOLEAN
  /\ Erasable \subseteq Blob \union Tenant
  /\ Blob \intersect (Tenant \union {"sweep"}) = {}
  /\ None \notin Run \union Worker
ASSUME FiniteAssumption == IsFiniteSet(Run) /\ Run # {}

VARIABLES
  row,          \* status of each run's row; "gone" once it has been removed
  owner,        \* worker_id: which worker may conclude the run
  asked,        \* runs with cancel_requested
  outcomes,     \* the artifacts stage_outcomes names; what it named, once gone
  tombstone,    \* policy of each run's tombstone
  blobs,        \* the documents in the blob store
  artifacts,    \* the envelopes in the artifact store
  clock,        \* the deadlines up to this one have passed
  submitting,   \* runs whose document was seen, and that have no row yet
  checking,     \* runs a check was admitted for, and is not recorded of yet
  corrected,    \* runs with a row in corrections
  pc,           \* how far the attempt of each worker is
  job,          \* the run it executes
  stage,        \* how many of its stages are done
  verdict,      \* the status it will report
  rpc,          \* how far each removal is
  scope,        \* what it removes: "sweep", a tenant or a document
  doomed,       \* the runs it removes
  spared,       \* the runs it passes over, as pinned
  more,         \* the runs it read in place of those
  live,         \* the runs an erasure has yet to cancel
  copy,         \* the outcomes of the runs it read, as read
  artifactIds,  \* what it still has to delete
  blobIds,
  interrupts,   \* removals cut short so far
  exposed,      \* history: runs that were under way while a removal was
  condemned,    \* history: runs some removal set out to remove
  deleted,      \* history: artifacts some removal deleted, or found absent
  outside,      \* history: artifacts the synchronous route filed, since the
                \*   namespace was last removed whole
  early         \* history: runs checked before they expired, until the check
                \*   is purged

table    == <<row, owner, asked, outcomes, tombstone>>
stores   == <<blobs, artifacts>>
clients  == <<submitting, checking, corrected>>
attempt  == <<pc, job, stage, verdict>>
plan     == <<doomed, spared, more, live, copy>>
todo     == <<artifactIds, blobIds>>
removal  == <<rpc, scope, plan, todo, interrupts>>
history  == <<exposed, condemned, deleted, outside, early>>
vars     == <<table, stores, clock, clients, attempt, removal, history>>

TableOK ==
  /\ row \in [Run -> Status]
  /\ owner \in [Run -> Worker \union {None}]
  /\ asked \subseteq Run
  /\ outcomes \in [Run -> SUBSET Artifact]
  /\ tombstone \in [Run -> {"none", "retention", "erasure"}]
  /\ \A r \in Run : row[r] = "gone" <=> tombstone[r] # "none"

AroundOK ==
  /\ blobs \subseteq Blob /\ artifacts \subseteq Artifact /\ clock \in Nat
  /\ submitting \subseteq {r \in Run : row[r] = "none"}
  /\ checking \subseteq Run /\ corrected \subseteq Run

AttemptOK ==
  /\ pc \in [Worker -> WorkerPc]
  /\ job \in [Worker -> Run \union {None}]
  /\ \A w \in Worker : (pc[w] = "idle") <=> (job[w] = None)
  /\ stage \in [Worker -> Nat]
  /\ \A w \in Worker :
       /\ pc[w] \in {"idle", "fetch"} => stage[w] = 0
       /\ job[w] # None => stage[w] <= Len(Chain[job[w]])
       /\ pc[w] \in {"boundary", "stage"} => stage[w] < Len(Chain[job[w]])
  /\ verdict \in [Worker -> Ended]

RemovalOK ==
  /\ rpc \in [Remover -> {"idle"} \union ReadPc \union ActPc]
  /\ scope \in [Remover -> {"sweep"} \union Tenant \union Blob]
  /\ doomed \in [Remover -> SUBSET Run] /\ spared \in [Remover -> SUBSET Run]
  /\ more \in [Remover -> SUBSET Run] /\ live \in [Remover -> SUBSET Run]
  /\ copy \in [Remover -> [Run -> SUBSET Artifact]]
  /\ artifactIds \in [Remover -> SUBSET Artifact]
  /\ blobIds \in [Remover -> SUBSET Blob]
  /\ interrupts \in Nat

HistoryOK ==
  /\ exposed \subseteq Run /\ condemned \subseteq Run /\ early \subseteq Run
  /\ deleted \subseteq Artifact /\ outside \subseteq Outside

TypeOK == TableOK /\ AroundOK /\ AttemptOK /\ RemovalOK /\ HistoryOK

Init ==
  /\ row = [r \in Run |-> "none"]
  /\ owner = [r \in Run |-> None]
  /\ asked = {}
  /\ outcomes = [r \in Run |-> {}]
  /\ tombstone = [r \in Run |-> "none"]
  /\ blobs = {} /\ artifacts = {} /\ clock = 0
  /\ submitting = {} /\ checking = {} /\ corrected = {}
  /\ pc = [w \in Worker |-> "idle"]
  /\ job = [w \in Worker |-> None]
  /\ stage = [w \in Worker |-> 0]
  /\ verdict = [w \in Worker |-> "failed"]
  /\ rpc = [p \in Remover |-> "idle"]
  /\ scope = [p \in Remover |-> "sweep"]
  /\ doomed = [p \in Remover |-> {}]
  /\ spared = [p \in Remover |-> {}]
  /\ more = [p \in Remover |-> {}]
  /\ live = [p \in Remover |-> {}]
  /\ copy = [p \in Remover |-> [r \in Run |-> {}]]
  /\ artifactIds = [p \in Remover |-> {}]
  /\ blobIds = [p \in Remover |-> {}]
  /\ interrupts = 0
  /\ exposed = {} /\ condemned = {} /\ deleted = {} /\ outside = {} /\ early = {}

InTable(r) == row[r] \notin {"none", "gone"}
Removing   == \E p \in Remover : rpc[p] # "idle"
UnderWay   == submitting \union {job[w] : w \in {v \in Worker : job[v] # None}}
Last(r)    == Chain[r][Len(Chain[r])]

\* A run begins to depend on content that removals may not know it needs.
Begins(r) == exposed' = IF Removing THEN exposed \union {r} ELSE exposed

-----------------------------------------------------------------------------
(* Clients                                                                 *)

Upload(b) ==
  /\ b \notin blobs
  /\ blobs' = blobs \union {b}
  /\ UNCHANGED <<table, artifacts, clock, clients, attempt, removal, history>>

\* POST /v1/documents/{blob_id}/extract files what it computes; no run names it.
ExtractOutside(a) ==
  /\ a \in Outside \ artifacts
  /\ artifacts' = artifacts \union {a}
  /\ outside' = outside \union {a}
  /\ UNCHANGED <<table, blobs, clock, clients, attempt, removal, exposed, condemned, deleted, early>>

\* The run route finds the document (or the console's has just stored it) ...
FindDocument(r) ==
  /\ row[r] = "none" /\ r \notin submitting
  /\ Document[r] \in blobs
  /\ submitting' = submitting \union {r}
  /\ Begins(r)
  /\ UNCHANGED <<table, stores, clock, checking, corrected, attempt, removal, condemned, deleted, outside, early>>

\* ... and records the run in a statement of its own.
Submit(r) ==
  /\ r \in submitting
  /\ submitting' = submitting \ {r}
  /\ row' = [row EXCEPT ![r] = "queued"]
  /\ UNCHANGED <<owner, asked, outcomes, tombstone, stores, clock, checking, corrected, attempt, removal, history>>

\* The cancel route, in one step (RunQueue has its three statements).
Cancelled(r) ==
  /\ asked' = asked \union {r}
  /\ row' = [row EXCEPT ![r] = IF @ = "queued" THEN "cancelled" ELSE @]

Cancel(r) ==
  /\ row[r] \in {"queued", "running"}
  /\ Cancelled(r)
  /\ UNCHANGED <<owner, outcomes, tombstone, stores, clock, clients, attempt, removal, history>>

\* record_check admits a check on a succeeded run, and inserts it once it has
\* read the request; a check never expires.
AdmitCheck(r) ==
  /\ r \in Extracts
  /\ row[r] = "succeeded" /\ r \notin checking \union corrected
  /\ checking' = checking \union {r}
  /\ UNCHANGED <<table, stores, clock, submitting, corrected, attempt, removal, history>>

RecordCheck(r) ==
  /\ r \in checking
  /\ checking' = checking \ {r}
  /\ corrected' = corrected \union {r}
  /\ early' = IF clock < Deadline[r] THEN early \union {r} ELSE early
  /\ UNCHANGED <<table, stores, clock, submitting, attempt, removal, exposed, condemned, deleted, outside>>

Tick ==
  /\ clock < Horizon
  /\ clock' = clock + 1
  /\ UNCHANGED <<table, stores, clients, attempt, removal, history>>

-----------------------------------------------------------------------------
(* Workers                                                                 *)

To(w, label) == pc' = [pc EXCEPT ![w] = label]

Leave(w) ==
  /\ To(w, "idle")
  /\ job' = [job EXCEPT ![w] = None]
  /\ stage' = [stage EXCEPT ![w] = 0]
  /\ verdict' = [verdict EXCEPT ![w] = "failed"]

Report(w, status) ==
  /\ verdict' = [verdict EXCEPT ![w] = status]
  /\ To(w, "finish")

\* A queued run, or one whose lease lapsed, whatever its worker is doing.
Claim(w, r) ==
  /\ pc[w] = "idle"
  /\ row[r] \in {"queued", "running"}
  /\ row' = [row EXCEPT ![r] = "running"]
  /\ owner' = [owner EXCEPT ![r] = w]
  /\ job' = [job EXCEPT ![w] = r]
  /\ To(w, "fetch")
  /\ Begins(r)
  /\ UNCHANGED <<asked, outcomes, tombstone, stores, clock, clients, stage, verdict, removal,
                 condemned, deleted, outside, early>>

\* The attempt limit: the row fails without outcomes, whatever was filed.
Abandon(r) ==
  /\ row[r] \in {"queued", "running"}
  /\ row' = [row EXCEPT ![r] = "failed"]
  /\ owner' = [owner EXCEPT ![r] = None]
  /\ UNCHANGED <<asked, outcomes, tombstone, stores, clock, clients, attempt, removal, history>>

Fetch(w) ==
  /\ pc[w] = "fetch"
  /\ IF Document[job[w]] \in blobs
     THEN To(w, "boundary") /\ UNCHANGED verdict
     ELSE Report(w, "failed")
  /\ UNCHANGED <<table, stores, clock, clients, job, stage, removal, history>>

\* is_cancelled reads the row: a run that is gone was not cancelled.
SeesCancellation(r) == r \in asked /\ InTable(r)

\* should_continue; a flag that cannot be read counts as "keep going".
Boundary(w) ==
  /\ pc[w] = "boundary"
  /\ \/ SeesCancellation(job[w]) /\ Report(w, "cancelled")
     \/ To(w, "stage") /\ UNCHANGED verdict
  /\ UNCHANGED <<table, stores, clock, clients, job, stage, removal, history>>

\* The stage is answered from the store, or executed and filed; a store that
\* cannot be written drops the artifact, and the run goes on.
Stage(w) ==
  /\ pc[w] = "stage"
  /\ LET a == Chain[job[w]][stage[w] + 1]
     IN  artifacts' \in {artifacts, artifacts \union {a}}
  /\ stage' = [stage EXCEPT ![w] = @ + 1]
  /\ To(w, IF stage[w] + 1 = Len(Chain[job[w]]) THEN "check" ELSE "boundary")
  /\ UNCHANGED <<table, blobs, clock, clients, job, verdict, removal, history>>

StageFails(w) ==
  /\ pc[w] = "stage"
  /\ Report(w, "failed")
  /\ UNCHANGED <<table, stores, clock, clients, job, stage, removal, history>>

\* MUTANT of Retrievable: the store is trusted to have kept the result.
Trusted(a) == TRUE

\* The envelope of the last stage is read back.
Retrievable(a) == a \in artifacts

Check(w) ==
  /\ pc[w] = "check"
  /\ \/ Retrievable(Last(job[w])) /\ Report(w, "succeeded")
     \/ Report(w, "failed")
  /\ UNCHANGED <<table, stores, clock, clients, job, stage, removal, history>>

\* MUTANT of Holds: the report is written unconditionally.
HoldsAnyway(w) == TRUE

\* The worker still has the run, which one that is gone is nobody's.
Holds(w) == row[job[w]] = "running" /\ owner[job[w]] = w

Named(w) == {Chain[job[w]][i] : i \in 1 .. stage[w]}

Finish(w) ==
  /\ pc[w] = "finish"
  /\ LET r == job[w] IN
       IF Holds(w)
       THEN /\ row' = [row EXCEPT ![r] = verdict[w]]
            /\ owner' = [owner EXCEPT ![r] = None]
            /\ outcomes' = [outcomes EXCEPT ![r] = Named(w)]
       ELSE UNCHANGED <<row, owner, outcomes>>
  /\ Leave(w)
  /\ UNCHANGED <<asked, tombstone, stores, clock, clients, removal, history>>

\* Shutdown at a boundary gives the run back ...
Release(w) ==
  /\ pc[w] = "boundary"
  /\ IF Holds(w)
     THEN /\ row' = [row EXCEPT ![job[w]] = "queued"]
          /\ owner' = [owner EXCEPT ![job[w]] = None]
     ELSE UNCHANGED <<row, owner>>
  /\ Leave(w)
  /\ UNCHANGED <<asked, outcomes, tombstone, stores, clock, clients, removal, history>>

\* ... a crash or an outage leaves it to its lease.
Stop(w) ==
  /\ pc[w] # "idle"
  /\ Leave(w)
  /\ UNCHANGED <<table, stores, clock, clients, removal, history>>

-----------------------------------------------------------------------------
(* Removals: what they read                                                *)

At(p, label) == rpc' = [rpc EXCEPT ![p] = label]
ByPrefix(p)  == scope[p] = "tenant"

Done(p) ==
  /\ At(p, "idle")
  /\ scope' = [scope EXCEPT ![p] = "sweep"]
  /\ doomed' = [doomed EXCEPT ![p] = {}]
  /\ spared' = [spared EXCEPT ![p] = {}]
  /\ more' = [more EXCEPT ![p] = {}]
  /\ live' = [live EXCEPT ![p] = {}]
  /\ copy' = [copy EXCEPT ![p] = [r \in Run |-> {}]]
  /\ artifactIds' = [artifactIds EXCEPT ![p] = {}]
  /\ blobIds' = [blobIds EXCEPT ![p] = {}]

Reads(p, S) ==
  copy' = [copy EXCEPT ![p] = [r \in Run |-> IF r \in S THEN outcomes[r] ELSE @[r]]]

\* MUTANT of Removable: every run whose deadline passed.
PastDeadline == {r \in Sweepable : InTable(r) /\ Deadline[r] <= clock}

Removable == {r \in Sweepable : row[r] \in Ended /\ Deadline[r] <= clock}

\* ORDER BY expires_at LIMIT n
Oldest(S, n) ==
  {e \in SUBSET S :
     /\ Cardinality(e) = IF Cardinality(S) <= n THEN Cardinality(S) ELSE n
     /\ \A x \in e, y \in S \ e : Deadline[x] <= Deadline[y]}

Pinned(S) == IF HeedsChecks THEN S \intersect corrected ELSE {}

Sweep(p) ==
  /\ rpc[p] = "idle" /\ Removable # {}
  /\ \E e \in Oldest(Removable, Batch) :
       /\ doomed' = [doomed EXCEPT ![p] = e]
       /\ Reads(p, e)
  /\ At(p, "pins")
  /\ exposed' = exposed \union UnderWay
  /\ UNCHANGED <<table, stores, clock, clients, attempt, scope, spared, more, live, todo, interrupts,
                 condemned, deleted, outside, early>>

\* Any pinned run leaves room in the batch, for as many other runs.
Pins(p) ==
  /\ rpc[p] = "pins"
  /\ spared' = [spared EXCEPT ![p] = Pinned(doomed[p])]
  /\ doomed' = [doomed EXCEPT ![p] = @ \ Pinned(@)]
  /\ At(p, IF Pinned(doomed[p]) = {} THEN "survivors" ELSE "refill")
  /\ UNCHANGED <<table, stores, clock, clients, attempt, scope, more, live, copy, todo, interrupts, history>>

\* exclude=pinned: the runs already chosen are not excluded.
Others(p) == Removable \ spared[p]

Refill(p) ==
  /\ rpc[p] = "refill"
  /\ \E e \in Oldest(Others(p), Batch - Cardinality(doomed[p])) :
       /\ more' = [more EXCEPT ![p] = e]
       /\ Reads(p, e)
  /\ At(p, "pins again")
  /\ UNCHANGED <<table, stores, clock, clients, attempt, scope, doomed, spared, live, todo, interrupts, history>>

\* MUTANT of Admitted: the refill is not asked about.
AllOf(S) == S

Admitted(S) == S \ Pinned(S)

PinsAgain(p) ==
  /\ rpc[p] = "pins again"
  /\ LET all == doomed[p] \union Admitted(more[p]) IN
       IF all = {}
       THEN Done(p)
       ELSE /\ doomed' = [doomed EXCEPT ![p] = all]
            /\ At(p, "survivors")
            /\ UNCHANGED <<scope, spared, more, live, copy, todo>>
  /\ UNCHANGED <<table, stores, clock, clients, attempt, interrupts, history>>

\* Erasure starts from the runs of the tenant, or over the document, in any state.
Erase(p, s) ==
  /\ rpc[p] = "idle"
  /\ scope' = [scope EXCEPT ![p] = s]
  /\ LET runs == {r \in Run : InTable(r) /\ s \in Tenant \union {Document[r]}} IN
       /\ doomed' = [doomed EXCEPT ![p] = runs]
       /\ live' = [live EXCEPT ![p] = {r \in runs : row[r] \notin Ended}]
       /\ Reads(p, runs)
       /\ condemned' = condemned \union runs
  /\ At(p, "cancel")
  /\ exposed' = exposed \union UnderWay
  /\ UNCHANGED <<table, stores, clock, clients, attempt, spared, more, todo, interrupts, deleted, outside, early>>

\* A cancellation that comes too late or cannot be written is suppressed.
CancelNext(p) ==
  /\ rpc[p] = "cancel"
  /\ \E r \in live[p] :
       /\ live' = [live EXCEPT ![p] = @ \ {r}]
       /\ \/ row[r] \in {"queued", "running"} /\ Cancelled(r)
          \/ UNCHANGED <<row, asked>>
  /\ UNCHANGED <<owner, outcomes, tombstone, stores, clock, clients, attempt, rpc, scope, doomed,
                 spared, more, copy, todo, interrupts, history>>

AllCancelled(p) ==
  /\ rpc[p] = "cancel" /\ live[p] = {}
  /\ At(p, IF ByPrefix(p) THEN "artifacts" ELSE "survivors")
  /\ UNCHANGED <<table, stores, clock, clients, attempt, scope, plan, todo, interrupts, history>>

-----------------------------------------------------------------------------
(* Removals: what they delete                                              *)

Survivor(p) == {r \in Run : InTable(r) /\ r \notin doomed[p]}

\* MUTANT of Candidates: the complement, whatever no survivor names.
Unreferenced(p) == Artifact

\* Named by a run that is being removed, as it was read.
Candidates(p) == UNION {copy[p][r] : r \in doomed[p]}

\* MUTANT of Kept: what the doomed runs name goes, shared or not.
NothingKept(p) == {}

Kept(p) == UNION {outcomes[r] : r \in Survivor(p)}

Survivors(p) ==
  /\ rpc[p] = "survivors"
  /\ artifactIds' = [artifactIds EXCEPT ![p] = Candidates(p) \ Kept(p)]
  /\ blobIds' = [blobIds EXCEPT ![p] =
                   {Document[r] : r \in doomed[p]} \ {Document[r] : r \in Survivor(p)}]
  /\ condemned' = condemned \union doomed[p]
  /\ At(p, "artifacts")
  /\ UNCHANGED <<table, stores, clock, clients, attempt, scope, plan, interrupts,
                 exposed, deleted, outside, early>>

DeleteArtifact(p) ==
  /\ rpc[p] = "artifacts"
  /\ \E a \in artifactIds[p] :
       /\ artifactIds' = [artifactIds EXCEPT ![p] = @ \ {a}]
       /\ artifacts' = artifacts \ {a}
       /\ deleted' = deleted \union {a}
  /\ UNCHANGED <<table, blobs, clock, clients, attempt, rpc, scope, plan, blobIds, interrupts,
                 exposed, condemned, outside, early>>

DeleteBlob(p) ==
  /\ rpc[p] = "blobs"
  /\ \E b \in blobIds[p] :
       /\ blobIds' = [blobIds EXCEPT ![p] = @ \ {b}]
       /\ blobs' = blobs \ {b}
  /\ UNCHANGED <<table, artifacts, clock, clients, attempt, rpc, scope, plan, artifactIds, interrupts, history>>

\* delete_prefix, of each store in turn.
DeletePrefix(p) ==
  /\ ByPrefix(p)
  /\ \/ /\ rpc[p] = "artifacts"
        /\ artifacts' = {} /\ deleted' = Artifact /\ outside' = {}
        /\ At(p, "blobs")
        /\ UNCHANGED blobs
     \/ /\ rpc[p] = "blobs"
        /\ blobs' = {}
        /\ At(p, "entomb")
        /\ UNCHANGED <<artifacts, deleted, outside>>
  /\ UNCHANGED <<table, clock, clients, attempt, scope, plan, todo, interrupts,
                 exposed, condemned, early>>

AllDeleted(p) ==
  /\ ~ ByPrefix(p)
  /\ \/ rpc[p] = "artifacts" /\ artifactIds[p] = {} /\ At(p, "blobs")
     \/ rpc[p] = "blobs" /\ blobIds[p] = {} /\ At(p, "entomb")
  /\ UNCHANGED <<table, stores, clock, clients, attempt, scope, plan, todo, interrupts, history>>

\* Tombstone and delete, in one statement; rows that are gone are passed over.
Entomb(p) ==
  /\ rpc[p] = "entomb"
  /\ LET going == {r \in doomed[p] : InTable(r)} IN
       /\ row' = [r \in Run |-> IF r \in going THEN "gone" ELSE row[r]]
       /\ owner' = [r \in Run |-> IF r \in going THEN None ELSE owner[r]]
       /\ tombstone' = [r \in Run |-> IF r \in going
                          THEN IF scope[p] = "sweep" THEN "retention" ELSE "erasure"
                          ELSE tombstone[r]]
  /\ IF scope[p] = "sweep" THEN Done(p)
     ELSE At(p, "purge") /\ UNCHANGED <<scope, plan, todo>>
  /\ UNCHANGED <<asked, outcomes, stores, clock, clients, attempt, interrupts, history>>

Purge(p) ==
  /\ rpc[p] = "purge"
  /\ corrected' = IF scope[p] \in Tenant THEN {} ELSE corrected \ doomed[p]
  /\ early' = early \intersect corrected'
  /\ Done(p)
  /\ UNCHANGED <<table, stores, clock, submitting, checking, attempt, interrupts,
                 exposed, condemned, deleted, outside>>

\* MUTANT of AfterError: the row is removed although the content may be there.
EntombAnyway(p) == At(p, "entomb") /\ UNCHANGED <<scope, plan, todo>>

\* The rows stay, and name what is still to be deleted.
AfterError(p) == Done(p)

\* The store raises, a statement finds no database, or the process dies.
Interrupt(p) ==
  /\ rpc[p] # "idle" /\ interrupts < MaxInterrupts
  /\ interrupts' = interrupts + 1
  /\ AfterError(p)
  /\ UNCHANGED <<table, stores, clock, clients, attempt, history>>

-----------------------------------------------------------------------------
Client == \/ \E b \in Blob : Upload(b)
          \/ \E a \in Artifact : ExtractOutside(a)
          \/ \E r \in Run : \/ FindDocument(r) \/ Submit(r) \/ Cancel(r)
                            \/ AdmitCheck(r) \/ RecordCheck(r)

Execute(w) == \/ \E r \in Run : Claim(w, r)
              \/ Fetch(w) \/ Boundary(w) \/ Stage(w) \/ StageFails(w) \/ Check(w)
              \/ Finish(w) \/ Release(w) \/ Stop(w)

SweepStep(p) == \/ Sweep(p) \/ Pins(p) \/ Refill(p) \/ PinsAgain(p)
                \/ Survivors(p) \/ DeleteArtifact(p) \/ DeleteBlob(p)
                \/ AllDeleted(p) \/ Entomb(p)

EraseStep(p) == \/ \E s \in Erasable : Erase(p, s)
                \/ CancelNext(p) \/ AllCancelled(p) \/ Survivors(p)
                \/ DeleteArtifact(p) \/ DeleteBlob(p) \/ DeletePrefix(p) \/ AllDeleted(p)
                \/ Entomb(p) \/ Purge(p)

Next == \/ Client \/ Tick
        \/ \E r \in Run : Abandon(r)
        \/ \E w \in Worker : Execute(w)
        \/ \E p \in Sweeper : SweepStep(p)
        \/ \E p \in Eraser : EraseStep(p)
        \/ \E p \in Remover : Interrupt(p)

Spec == Init /\ [][Next]_vars

-----------------------------------------------------------------------------
(* Properties                                                              *)

\* The deletion set is a difference, never a complement (retention.py:3):
\* content filed outside any run is lost only if a run that some removal set
\* out to remove named it too, or with a whole tenant.
OutsideContentStays ==
  \A a \in outside : a \in artifacts \/ \E r \in condemned : a \in outcomes[r]

\* What a finished run needs outlives every removal of other runs: its document
\* while it may still execute, its result once it succeeded.  Except that a
\* removal decides on what it reads, so a run that is being submitted or
\* executed while a removal is under way may lose what it shares.
ContentOutlivesRemovals ==
  \A r \in Run \ (exposed \union condemned) :
    /\ row[r] \in {"queued", "running"} => Document[r] \in blobs
    /\ row[r] = "succeeded" => Last(r) \in artifacts

\* One process that removes, crashes included: of the runs that were swept no
\* artifact is left that no other run names or named, unless somebody computed
\* it anew ("the next sweep recomputes the difference from what remains and
\* finishes").
NothingIsStranded ==
  \A r \in Run : tombstone[r] = "retention" =>
    \A a \in outcomes[r] \intersect artifacts :
      a \in deleted \/ \E q \in Run : tombstone[q] # "retention" /\ a \in outcomes[q]

\* A sweep removes runs that ended and expired, although its last statement
\* asks neither: "a queued or running run is never swept" (retention.md).
OnlyEndedRunsAreSwept ==
  [][\A r \in Run : tombstone[r] # tombstone'[r] /\ tombstone'[r] = "retention" =>
       row[r] \in Ended /\ Deadline[r] <= clock]_vars

\* While its check is there, a run checked before it expired is never swept:
\* "a run whose result carries a live correction is not swept" (retention.md).
CheckedRunsAreKept == \A r \in early : tombstone[r] # "retention"
=============================================================================
