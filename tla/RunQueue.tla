------------------------------- MODULE RunQueue -------------------------------
(***************************************************************************)
(* The run table and the processes that share it: API clients that submit  *)
(* and cancel (runs/postgres.py), and worker processes that claim, execute,*)
(* release and finish runs under a lease kept alive by a heartbeat thread  *)
(* (runs/worker.py).                                                       *)
(*                                                                         *)
(* One action is one SQL statement, or one decision between two of them:   *)
(* every statement commits by itself (PostgresRunQueue._execute), so any   *)
(* two of them may be separated by statements of other processes.          *)
(*                                                                         *)
(* A lease is modelled by the time left on it, lease_until - now, which    *)
(* Tick counts down; Skew[w] is how far the clock of worker w runs ahead,  *)
(* because every `now` in a statement is the clock of the process that     *)
(* sends it.                                                               *)
(***************************************************************************)
EXTENDS Integers, FiniteSets

CONSTANTS
  Run,             \* run identities, allocated by the API
  Worker,          \* worker identities, "<host>:<pid>"
  Client,          \* concurrent callers of the cancel route
  None,            \* SQL NULL
  Lease,           \* lease duration, in ticks
  MaxAttempts,     \* DOCDOC_RUN_MAX_ATTEMPTS
  StageCount,      \* stage boundaries of each kind of run
  Accepts,         \* kinds a worker claims: {k} for `--kind k`, else every kind
  Skew,            \* offset of each worker's clock from real time
  Floor,           \* where the countdown stops: lapsed on every clock
  MaxDisruptions   \* bound on crashes, signals and outages in a behaviour

Kinds     == {"extraction", "ocr"}
Terminal  == {"succeeded", "failed", "cancelled"}
Unsettled == {"queued", "running"}
Status    == {"absent"} \union Unsettled \union Terminal
Verdict   == Terminal \union {"none"}

ASSUME IdentityAssumption == None \notin Run \union Worker
ASSUME WorkerAssumption == IsFiniteSet(Worker)
ASSUME BoundAssumption ==
  /\ Lease \in Nat \ {0}
  /\ MaxAttempts \in Nat \ {0}
  /\ MaxDisruptions \in Nat
ASSUME KindAssumption ==
  /\ StageCount \in [Kinds -> Nat \ {0}]
  /\ Accepts \in [Worker -> SUBSET Kinds]
ASSUME ClockAssumption ==
  /\ Skew \in [Worker -> Int]
  /\ Floor \in Int
  /\ \A w \in Worker : Floor < Skew[w]

VARIABLES
  \* the runs table, a column at a time
  status,       \* status; "absent" for a run nobody has submitted
  spec,         \* what was submitted: the columns no statement rewrites
  attempts,     \* attempts
  owner,        \* worker_id
  lease,        \* lease_until - now, and Floor for NULL
  asked,        \* runs with cancel_requested
  abandoned,    \* runs whose error_class is RunAbandonedError
  \* the deliveries table
  deliveries,   \* runs that have a delivery
  \* the worker processes
  pc,           \* where the loop of each worker is
  job,          \* the run it executes, or None
  stage,        \* stages completed in this attempt
  outcome,      \* the verdict it is about to write
  doomed,       \* the snapshot its abandoning statement works from
  stopping,     \* workers that were signalled
  beating,      \* workers whose heartbeat thread is running
  \* the callers of the cancel route
  request,      \* [pc, run, read]: how far each has got
  \* history and bounds
  lost,         \* workers whose current attempt lost its run
  withdrawn,    \* runs cancelled while queued, every later read answered
  crashes,      \* worker processes that died executing each run
  disruptions   \* faults so far

table   == <<status, spec, attempts, owner, lease, asked, abandoned>>
attempt == <<job, stage, outcome, doomed, beating>>
history == <<lost, withdrawn, crashes>>
vars    == <<table, deliveries, pc, attempt, stopping, request, history, disruptions>>

WorkerPc == {"down", "idle", "sweep", "claim", "claimed", "boundary", "stage",
             "halted", "release", "conclude"}

RunSpec == [kind : Kinds, callback : BOOLEAN]
Request == [pc : {"idle", "flag", "finish"}, run : Run \union {None}, read : Status]

TypeOK ==
  /\ status \in [Run -> Status]
  /\ spec \in [Run -> RunSpec]
  /\ attempts \in [Run -> 0 .. MaxAttempts]
  /\ owner \in [Run -> Worker \union {None}]
  /\ lease \in [Run -> Int]
  /\ asked \in SUBSET Run /\ abandoned \in SUBSET Run /\ deliveries \in SUBSET Run
  /\ pc \in [Worker -> WorkerPc]
  /\ job \in [Worker -> Run \union {None}]
  /\ stage \in [Worker -> Nat]
  /\ outcome \in [Worker -> Verdict]
  /\ doomed \in [Worker -> SUBSET Run]
  /\ stopping \in SUBSET Worker /\ beating \in SUBSET Worker
  /\ request \in [Client -> Request]
  /\ lost \in SUBSET Worker /\ withdrawn \in SUBSET Run
  /\ crashes \in [Run -> Nat]
  /\ disruptions \in 0 .. MaxDisruptions

NoRequest == [pc |-> "idle", run |-> None, read |-> "absent"]

Init ==
  /\ status = [r \in Run |-> "absent"]
  /\ spec = [r \in Run |-> [kind |-> "extraction", callback |-> FALSE]]
  /\ attempts = [r \in Run |-> 0]
  /\ owner = [r \in Run |-> None]
  /\ lease = [r \in Run |-> Floor]
  /\ asked = {} /\ abandoned = {} /\ deliveries = {}
  /\ pc = [w \in Worker |-> "idle"]
  /\ job = [w \in Worker |-> None]
  /\ stage = [w \in Worker |-> 0]
  /\ outcome = [w \in Worker |-> "none"]
  /\ doomed = [w \in Worker |-> {}]
  /\ stopping = {} /\ beating = {}
  /\ request = [c \in Client |-> NoRequest]
  /\ lost = {} /\ withdrawn = {}
  /\ crashes = [r \in Run |-> 0]
  /\ disruptions = 0

-----------------------------------------------------------------------------
(* What the WHERE clauses test and the SET clauses write.                  *)

Executing(r) == {w \in Worker : job[w] = r}

\* lease_until < now, on the clock of w
Lapsed(r, w) == lease[r] < Skew[w]

Doomed(r, w) ==
  /\ attempts[r] >= MaxAttempts
  /\ \/ status[r] = "running" /\ Lapsed(r, w)
     \/ status[r] = "queued"

EligibleAlways(r, w) ==
  /\ \/ status[r] = "queued"
     \/ status[r] = "running" /\ Lapsed(r, w)
  /\ spec[r].kind \in Accepts[w]

EligibleOnce(r, w) ==
  status[r] = "queued" /\ attempts[r] < MaxAttempts /\ spec[r].kind \in Accepts[w]

Eligible(r, w) ==
  /\ \/ status[r] = "queued"
     \/ status[r] = "running" /\ Lapsed(r, w)
  /\ attempts[r] < MaxAttempts
  /\ spec[r].kind \in Accepts[w]

\* ... AND runs.worker_id = %(worker_id)s: heartbeat, release and finish
OwnsUnguarded(w, r) == status[r] = "running"
Owns(w, r) == owner[r] = w

\* The processing_id_belongs_to_success check constraint, as the abandoning
\* UPDATE meets it: a succeeded row keeps its processing_id and may not fail.
UncheckedSuccess(S) == TRUE
RespectsSuccess(S) == \A r \in S : status[r] # "succeeded"

\* attempts after a release: GREATEST(attempts - 1, 0)
NoRefund(n) == n
Refund(n) == IF n > 0 THEN n - 1 ELSE 0

\* attempts after a claim
UncountedClaim(n) == n
CountedClaim(n) == n + 1

\* cancel's `only_from=RunStatus.QUEUED`
AnyUnsettled(r) == status[r] \in Unsettled
StillQueued(r) == status[r] = "queued"

\* The notified CTE of finish: an insert ON CONFLICT (run_id) DO NOTHING.
NeverNotified(r) == deliveries
Notified(r) == IF spec[r].callback THEN deliveries \union {r} ELSE deliveries

\* The UPDATE of finish and its CTE, in one transaction.
WriteVerdict(r, verdict) ==
  /\ status' = [status EXCEPT ![r] = verdict]
  /\ owner' = [owner EXCEPT ![r] = None]
  /\ lease' = [lease EXCEPT ![r] = Floor]
  /\ deliveries' = Notified(r)
  /\ UNCHANGED <<spec, attempts, asked, abandoned>>

Disrupt ==
  /\ disruptions < MaxDisruptions
  /\ disruptions' = disruptions + 1

-----------------------------------------------------------------------------
(* The API.                                                                *)

Submit(r, kind, callback) ==
  /\ status[r] = "absent"
  /\ status' = [status EXCEPT ![r] = "queued"]
  /\ spec' = [spec EXCEPT ![r] = [kind |-> kind, callback |-> callback]]
  /\ UNCHANGED <<attempts, owner, lease, asked, abandoned, deliveries>>
  /\ UNCHANGED <<pc, attempt, stopping, request, history, disruptions>>

\* cancel reads the run first; a terminal one is answered from that read.
CancelRead(c, r) ==
  /\ request[c].pc = "idle"
  /\ status[r] \in Unsettled
  /\ request' = [request EXCEPT ![c] = [pc |-> "flag", run |-> r, read |-> status[r]]]
  /\ UNCHANGED <<table, deliveries, pc, attempt, stopping, history, disruptions>>

\* UPDATE runs SET cancel_requested = true: whatever the row is by now.
CancelFlag(c) ==
  LET r == request[c].run IN
  /\ request[c].pc = "flag"
  /\ asked' = asked \union {r}
  /\ withdrawn' = IF status[r] = "queued" THEN withdrawn \union {r} ELSE withdrawn
  /\ request' = [request EXCEPT ![c] = IF request[c].read = "queued"
                                       THEN [pc |-> "finish", run |-> r, read |-> "queued"]
                                       ELSE NoRequest]
  /\ UNCHANGED <<status, spec, attempts, owner, lease, abandoned, deliveries>>
  /\ UNCHANGED <<pc, attempt, stopping, lost, crashes, disruptions>>

\* finish(only_from=QUEUED), then the re-read that shapes the answer.
CancelFinish(c) ==
  LET r == request[c].run IN
  /\ request[c].pc = "finish"
  /\ IF StillQueued(r)
     THEN WriteVerdict(r, "cancelled")
     ELSE UNCHANGED <<table, deliveries>>
  /\ request' = [request EXCEPT ![c] = NoRequest]
  /\ UNCHANGED <<pc, attempt, stopping, history, disruptions>>

-----------------------------------------------------------------------------
(* The claim loop of a worker.                                             *)

\* The attempt is over, or there was none: nothing of it is left in the process.
EndAttempt(w, to) ==
  /\ pc' = [pc EXCEPT ![w] = to]
  /\ job' = [job EXCEPT ![w] = None]
  /\ stage' = [stage EXCEPT ![w] = 0]
  /\ outcome' = [outcome EXCEPT ![w] = "none"]
  /\ doomed' = [doomed EXCEPT ![w] = {}]
  /\ beating' = beating \ {w}

\* The snapshot of claim's first statement: the `doomed` CTE.
AbandonScan(w) ==
  /\ pc[w] = "idle"
  /\ w \notin stopping
  /\ pc' = [pc EXCEPT ![w] = "sweep"]
  /\ doomed' = [doomed EXCEPT ![w] = {r \in Run : Doomed(r, w)}]
  /\ UNCHANGED <<table, deliveries, job, stage, outcome, beating>>
  /\ UNCHANGED <<stopping, request, history, disruptions>>

\* Its UPDATE. The rows are joined on run_id alone, so a row that changed
\* after the snapshot is overwritten as it now stands ...
AbandonApply(w) ==
  LET S == doomed[w] IN
  /\ pc[w] = "sweep"
  /\ RespectsSuccess(S)
  /\ status' = [r \in Run |-> IF r \in S THEN "failed" ELSE status[r]]
  /\ owner' = [r \in Run |-> IF r \in S THEN None ELSE owner[r]]
  /\ lease' = [r \in Run |-> IF r \in S THEN Floor ELSE lease[r]]
  /\ abandoned' = abandoned \union S
  /\ lost' = lost \union {v \in Worker : job[v] \in S}
  /\ EndAttempt(w, "claim")
  /\ UNCHANGED <<spec, attempts, asked, deliveries>>
  /\ UNCHANGED <<stopping, request, withdrawn, crashes, disruptions>>

\* ... unless a check constraint refuses the statement as a whole.
AbandonRefused(w) ==
  /\ pc[w] = "sweep"
  /\ ~RespectsSuccess(doomed[w])
  /\ EndAttempt(w, "idle")
  /\ UNCHANGED <<table, deliveries, stopping, request, history, disruptions>>

\* claim's second statement. SKIP LOCKED may step over any better candidate
\* another statement holds, so any eligible run may be the one returned.
Claim(w, r) ==
  /\ pc[w] = "claim"
  /\ Eligible(r, w)
  /\ status' = [status EXCEPT ![r] = "running"]
  /\ attempts' = [attempts EXCEPT ![r] = CountedClaim(attempts[r])]
  /\ owner' = [owner EXCEPT ![r] = w]
  /\ lease' = [lease EXCEPT ![r] = Lease + Skew[w]]
  /\ pc' = [pc EXCEPT ![w] = "claimed"]
  /\ job' = [job EXCEPT ![w] = r]
  /\ beating' = beating \union {w}
  /\ lost' = (lost \union Executing(r)) \ {w}
  /\ UNCHANGED <<spec, asked, abandoned, deliveries, stage, outcome, doomed>>
  /\ UNCHANGED <<stopping, request, withdrawn, crashes, disruptions>>

ClaimNothing(w) ==
  /\ pc[w] = "claim"
  /\ \A r \in Run : ~Eligible(r, w)
  /\ pc' = [pc EXCEPT ![w] = "idle"]
  /\ UNCHANGED <<table, deliveries, attempt, stopping, request, history, disruptions>>

\* The loop ends at its next test of the stop flag.
Exit(w) ==
  /\ pc[w] = "idle"
  /\ w \in stopping
  /\ pc' = [pc EXCEPT ![w] = "down"]
  /\ stopping' = stopping \ {w}
  /\ UNCHANGED <<table, deliveries, attempt, request, history, disruptions>>

-----------------------------------------------------------------------------
(* One attempt: execute_one and _execute_ocr.                              *)

Proceed(w, to) ==
  /\ pc' = [pc EXCEPT ![w] = to]
  /\ UNCHANGED <<outcome, stage>>

Decide(w, verdict) ==
  /\ pc' = [pc EXCEPT ![w] = "conclude"]
  /\ outcome' = [outcome EXCEPT ![w] = verdict]
  /\ UNCHANGED stage

\* What a decision between two statements leaves alone.
NoStatement ==
  UNCHANGED <<table, deliveries, job, doomed, beating, stopping, request, lost, crashes>>

\* Schema, adapter and blob are resolved before any stage; a run that names
\* one that is gone fails there.
Prepare(w) ==
  /\ pc[w] = "claimed"
  /\ Proceed(w, "boundary") \/ Decide(w, "failed")
  /\ NoStatement /\ UNCHANGED <<withdrawn, disruptions>>

ShutdownCancels(w) ==
  /\ pc[w] = "boundary"
  /\ w \in stopping
  /\ Decide(w, "cancelled")
  /\ NoStatement /\ UNCHANGED <<withdrawn, disruptions>>

\* should_continue: this process's stop flag first.
StopAtBoundary(w) ==
  /\ pc[w] = "boundary"
  /\ w \in stopping
  /\ Proceed(w, IF spec[job[w]].kind = "ocr" THEN "release" ELSE "halted")
  /\ NoStatement /\ UNCHANGED <<withdrawn, disruptions>>

\* ... then the caller's cancellation, read from the row.
CancelAtBoundary(w) ==
  /\ pc[w] = "boundary"
  /\ w \notin stopping
  /\ job[w] \in asked
  /\ IF spec[job[w]].kind = "ocr" THEN Decide(w, "cancelled") ELSE Proceed(w, "halted")
  /\ NoStatement /\ UNCHANGED <<withdrawn, disruptions>>

EnterStageUnasked(w) ==
  /\ pc[w] = "boundary"
  /\ w \notin stopping
  /\ Proceed(w, "stage")
  /\ NoStatement /\ UNCHANGED <<withdrawn, disruptions>>

EnterStage(w) ==
  /\ pc[w] = "boundary"
  /\ w \notin stopping
  /\ job[w] \notin asked
  /\ Proceed(w, "stage")
  /\ NoStatement /\ UNCHANGED <<withdrawn, disruptions>>

\* An unreadable flag means "keep going".
EnterStageBlind(w) ==
  /\ pc[w] = "boundary"
  /\ w \notin stopping
  /\ Disrupt
  /\ Proceed(w, "stage")
  /\ withdrawn' = withdrawn \ {job[w]}
  /\ NoStatement

\* A stage fails the run, or leads to the next boundary, or -- the last one --
\* to a verdict: succeeded, unless the result cannot be read back.
LastStage(w) == stage[w] + 1 >= StageCount[spec[job[w]].kind]

FailStage(w) ==
  /\ pc[w] = "stage"
  /\ Decide(w, "failed")
  /\ NoStatement /\ UNCHANGED <<withdrawn, disruptions>>

PassStage(w) ==
  /\ pc[w] = "stage"
  /\ ~LastStage(w)
  /\ pc' = [pc EXCEPT ![w] = "boundary"]
  /\ stage' = [stage EXCEPT ![w] = stage[w] + 1]
  /\ UNCHANGED outcome
  /\ NoStatement /\ UNCHANGED <<withdrawn, disruptions>>

PassLastStage(w) ==
  /\ pc[w] = "stage"
  /\ LastStage(w)
  /\ Decide(w, "succeeded")
  /\ NoStatement /\ UNCHANGED <<withdrawn, disruptions>>

\* A stopped pipeline reads the flag a second time: if nobody asked, the run
\* goes back to the queue.
HaltedByCaller(w) ==
  /\ pc[w] = "halted"
  /\ job[w] \in asked
  /\ Decide(w, "cancelled")
  /\ NoStatement /\ UNCHANGED <<withdrawn, disruptions>>

HaltedByShutdown(w) ==
  /\ pc[w] = "halted"
  /\ job[w] \notin asked
  /\ Proceed(w, "release")
  /\ NoStatement /\ UNCHANGED <<withdrawn, disruptions>>

HaltedBlind(w) ==
  /\ pc[w] = "halted"
  /\ Disrupt
  /\ Proceed(w, "release")
  /\ NoStatement /\ UNCHANGED withdrawn

Release(w) ==
  LET r == job[w] IN
  /\ pc[w] = "release"
  /\ IF status[r] = "running" /\ Owns(w, r)
     THEN /\ status' = [status EXCEPT ![r] = "queued"]
          /\ owner' = [owner EXCEPT ![r] = None]
          /\ lease' = [lease EXCEPT ![r] = Floor]
          /\ attempts' = [attempts EXCEPT ![r] = Refund(attempts[r])]
          /\ withdrawn' = IF r \in asked THEN withdrawn \union {r} ELSE withdrawn
          /\ UNCHANGED <<spec, asked, abandoned>>
     ELSE UNCHANGED <<table, withdrawn>>
  /\ EndAttempt(w, "idle")
  /\ lost' = lost \ {w}
  /\ UNCHANGED <<deliveries, stopping, request, crashes, disruptions>>

Conclude(w) ==
  LET r == job[w] IN
  /\ pc[w] = "conclude"
  /\ IF status[r] \in Unsettled /\ Owns(w, r)
     THEN WriteVerdict(r, outcome[w])
     ELSE UNCHANGED <<table, deliveries>>
  /\ EndAttempt(w, "idle")
  /\ lost' = lost \ {w}
  /\ UNCHANGED <<stopping, request, withdrawn, crashes, disruptions>>

\* The heartbeat thread, a third of a lease apart. It stops at the first
\* refusal; the attempt goes on.
Beat(w) ==
  LET r == job[w] IN
  /\ w \in beating
  /\ IF status[r] = "running" /\ ~Lapsed(r, w) /\ Owns(w, r)
     THEN /\ lease' = [lease EXCEPT ![r] = Lease + Skew[w]]
          /\ UNCHANGED beating
     ELSE /\ beating' = beating \ {w}
          /\ UNCHANGED lease
  /\ UNCHANGED <<status, spec, attempts, owner, asked, abandoned, deliveries>>
  /\ UNCHANGED <<pc, job, stage, outcome, doomed, stopping, request, history, disruptions>>

-----------------------------------------------------------------------------
(* Time and faults.                                                        *)

Tick ==
  /\ \E r \in Run : lease[r] > Floor
  /\ lease' = [r \in Run |-> IF lease[r] > Floor THEN lease[r] - 1 ELSE lease[r]]
  /\ UNCHANGED <<status, spec, attempts, owner, asked, abandoned, deliveries>>
  /\ UNCHANGED <<pc, attempt, stopping, request, history, disruptions>>

\* SIGTERM: the handler only sets a flag.
Signal(w) ==
  /\ pc[w] # "down"
  /\ w \notin stopping
  /\ Disrupt
  /\ stopping' = stopping \union {w}
  /\ UNCHANGED <<table, deliveries, pc, attempt, request, history>>

\* The process dies; the table keeps what it last committed.
Crash(w) ==
  /\ pc[w] # "down"
  /\ Disrupt
  /\ EndAttempt(w, "down")
  /\ stopping' = stopping \ {w}
  /\ lost' = lost \ {w}
  /\ crashes' = [r \in Run |-> IF job[w] = r THEN crashes[r] + 1 ELSE crashes[r]]
  /\ UNCHANGED <<table, deliveries, request, withdrawn>>

Restart(w) ==
  /\ pc[w] = "down"
  /\ pc' = [pc EXCEPT ![w] = "idle"]
  /\ UNCHANGED <<table, deliveries, attempt, stopping, request, history, disruptions>>

\* The database or the artifact store is unreachable: the loop goes on, and
\* an attempt in flight is left for its lease to lapse.
Outage(w) ==
  /\ pc[w] \in {"sweep", "claim", "claimed", "stage", "release", "conclude"}
  /\ Disrupt
  /\ EndAttempt(w, "idle")
  /\ lost' = lost \ {w}
  /\ UNCHANGED <<table, deliveries, stopping, request, withdrawn, crashes>>

-----------------------------------------------------------------------------

LoopStep(w) ==
  \/ AbandonScan(w) \/ AbandonApply(w) \/ AbandonRefused(w)
  \/ \E r \in Run : Claim(w, r)
  \/ ClaimNothing(w) \/ Exit(w) \/ Restart(w)

AttemptStep(w) ==
  \/ Prepare(w) \/ StopAtBoundary(w) \/ CancelAtBoundary(w) \/ EnterStage(w)
  \/ FailStage(w) \/ PassStage(w) \/ PassLastStage(w)
  \/ HaltedByCaller(w) \/ HaltedByShutdown(w) \/ Release(w) \/ Conclude(w)

Fault(w) ==
  \/ Signal(w) \/ Crash(w) \/ Outage(w) \/ EnterStageBlind(w) \/ HaltedBlind(w)

ClientStep(c) == CancelFlag(c) \/ CancelFinish(c)

Next ==
  \/ \E r \in Run, k \in Kinds, b \in BOOLEAN : Submit(r, k, b)
  \/ \E c \in Client, r \in Run : CancelRead(c, r)
  \/ \E c \in Client : ClientStep(c)
  \/ \E w \in Worker : LoopStep(w) \/ AttemptStep(w) \/ Beat(w) \/ Fault(w)
  \/ Tick

Spec == Init /\ [][Next]_vars

\* The loop, the database and real time keep going; nobody has to submit,
\* cancel, signal, crash or beat.
Fairness ==
  /\ WF_vars(Tick)
  /\ \A w \in Worker : WF_vars(LoopStep(w) \/ AttemptStep(w))
  /\ \A c \in Client : WF_vars(ClientStep(c))

FairSpec == Spec /\ Fairness

-----------------------------------------------------------------------------
(* The queue as its callers see it: an attempt that lost its run is over.  *)

Lifecycle == INSTANCE RunLifecycle WITH
  busy <- [w \in Worker |-> IF w \in lost THEN None ELSE job[w]]

-----------------------------------------------------------------------------
(* Properties.                                                             *)

(* Ownership is current: of the attempts in flight on a run, the one whose
   worker_id the row carries is exactly the one nobody has superseded or
   abandoned since -- whatever the clocks say (heartbeat, release, finish). *)
OwnershipIsCurrent ==
  /\ \A w \in Worker : job[w] # None => (w \notin lost <=> Owns(w, job[w]))
  /\ \A r \in Run : owner[r] # None <=> status[r] = "running"

(* A run never becomes invisible: a queued run always has an attempt left, so
   claim's candidate scan sees it, and a running one has spent at least one
   (claim, release).                                                        *)
NoRunBecomesInvisible ==
  \A r \in Run : /\ status[r] = "queued" => attempts[r] < MaxAttempts
                 /\ status[r] = "running" => attempts[r] > 0

(* A document that kills the workers that execute it costs at most MaxAttempts
   of them, counting attempts that had been superseded (FR-021).            *)
PoisonIsBounded == \A r \in Run : crashes[r] <= MaxAttempts

(* No run is recorded cancelled unless somebody asked: not by a shutdown, a
   lease that lapsed, or another request's read (execute_one, cancel).      *)
CancelledWasAsked ==
  \A r \in Run : status[r] = "cancelled" => r \in asked

(* A cancellation that lands while its run is queued is never overtaken by a
   success, through any later claims, releases and redeliveries, unless a
   worker's read of the flag failed (claim, cancel, should_continue).       *)
WithdrawnNeverSucceeds ==
  \A r \in withdrawn : status[r] # "succeeded"

(* A delivery exists for exactly the concluded runs that name a callback,
   except that abandoned runs may have none (finish's notified CTE, claim). *)
DeliveryMatchesVerdict ==
  /\ \A r \in deliveries : spec[r].callback /\ status[r] \in Terminal
  /\ \A r \in Run : spec[r].callback /\ status[r] \in Terminal
                        /\ r \notin abandoned => r \in deliveries

(* A run that succeeded stays succeeded: the one statement that can rewrite a
   terminal row is claim's first, and a check constraint stops it there.    *)
SucceededIsFinal ==
  [][\A r \in Run : status[r] = "succeeded" => status'[r] = "succeeded"]_vars

(* A worker that lost its run changes nothing about it any more: neither its
   verdict, nor its release, nor its heartbeat touches the table.           *)
LostAttemptsWriteNothing ==
  [][\A w \in lost : Conclude(w) \/ Release(w) \/ Beat(w)
                        => UNCHANGED <<table, deliveries>>]_vars

(* A running run becomes cancelled only through the attempt that owns it: no
   request takes a run away from the worker that executes it (FR-029).      *)
CancelNeverStopsALiveAttempt ==
  [][\A r \in Run :
       status[r] = "running" /\ status'[r] = "cancelled"
         => \E w \in Executing(r) : Owns(w, r) /\ Conclude(w)]_vars

(* The inductive invariant. Control: an attempt in flight has a run, a verdict
   only when it is about to write one, and a request names a submitted run. *)
Attending == {"claimed", "boundary", "stage", "halted", "release", "conclude"}

ControlInv ==
  /\ \A w \in Worker : /\ job[w] # None <=> pc[w] \in Attending
                       /\ outcome[w] # "none" <=> pc[w] = "conclude"
                       /\ w \in beating \union lost => job[w] # None
                       /\ \A r \in doomed[w] : status[r] # "absent"
  /\ \A c \in Client : request[c].pc # "idle" => /\ request[c].run \in Run
                                                /\ status[request[c].run] # "absent"
  /\ \A c \in Client : request[c].pc = "finish" => request[c].run \in asked
  /\ \A r \in Run : status[r] = "absent" => attempts[r] = 0

(* A verdict of cancelled is written only after the flag was set.           *)
CancelInv ==
  /\ CancelledWasAsked
  /\ \A w \in Worker : outcome[w] = "cancelled" => job[w] \in asked

(* An attempt on a withdrawn run never gets past its next boundary.         *)
WithdrawnInv ==
  /\ WithdrawnNeverSucceeds
  /\ withdrawn \subseteq asked
  /\ \A w \in Worker : w \notin lost /\ job[w] \in withdrawn
                         => pc[w] # "stage" /\ outcome[w] # "succeeded"

IInv ==
  /\ TypeOK /\ ControlInv /\ OwnershipIsCurrent /\ NoRunBecomesInvisible
  /\ CancelInv /\ WithdrawnInv /\ DeliveryMatchesVerdict

(* Every attempt in flight and every death is paid for by an attempt that was
   counted and not refunded: the strengthening behind PoisonIsBounded.      *)
AttemptsAreCharged ==
  \A r \in Run : crashes[r] + Cardinality(Executing(r)) <= attempts[r]

(* "No transition leaves succeeded, failed, or cancelled" (docs/concepts/runs.md:89,
   runs/model.py:69). The abandoning UPDATE can fail a run that was cancelled
   after its snapshot, and its predicate is not re-evaluated.               *)
TerminalIsFinal ==
  [][\A r \in Run : status[r] \in Terminal => status'[r] = status[r]]_vars

(* What a receiver gets is "One POST per terminal run"
   (docs/concepts/delivery.md:12): a run with a callback that ends has its
   delivery. Only finish enqueues one, and claim's abandonment is not a finish. *)
EveryVerdictIsNotified ==
  \A r \in Run : spec[r].callback /\ status[r] \in Terminal => r \in deliveries

(* The statements and threads of the queue implement the life cycle: every
   step is one of its steps or leaves it unchanged.                         *)
ImplementsLifecycle == Lifecycle!Spec

(* Every submitted run ends, as long as some worker keeps looping and faults
   are finite: crashes, shutdowns and outages never strand one.             *)
EveryRunEnds ==
  \A r \in Run : status[r] = "queued" ~> status[r] \in Terminal

=============================================================================
