-------------------------------- MODULE Claims --------------------------------
(***************************************************************************)
(* Which run a worker claims next, and when it does anything else: the     *)
(* order of PostgresRunQueue.claim (src/docdoc/runs/postgres.py), its      *)
(* SKIP LOCKED, and the loop of the worker that maintains when it claims   *)
(* nothing (src/docdoc/runs/worker.py, src/docdoc/runs/maintenance.py).    *)
(* Runs never stop arriving: a row whose run has ended is a new run later. *)
(***************************************************************************)
EXTENDS Naturals, Sequences, FiniteSets, FiniteSetsExt, SequencesExt, Functions

CONSTANTS
  Worker, Tenant,
  Row,          \* bound: runs queued or running at once
  Priority,     \* what submissions may be granted
  Starvation,   \* age past which a run outranks the others
  Window,       \* how long a run counts as served lately
  Lease, MaxAttempts,
  Interval,     \* between a worker's ticks
  MaxCrashes,   \* bound
  NoRun

VARIABLES
  runs,    \* the rows queued or running, and NoRun
  line,    \* those rows, by created_at
  ended,   \* for each tenant, the ages of its runs that ended lately, a bag
  workers, \* the row each worker locks or executes
  idle,    \* the time since each worker's last tick
  crashes
claimVars == <<runs, line, ended, workers, idle, crashes>>

\* age: since created_at.  touched: since updated_at.
RunRow == [tenant: Tenant, priority: Priority, status: {"queued", "running"}, age: 0 .. Starvation + 1,
           lease: 0 .. Lease, touched: 0 .. Window, attempts: 0 .. MaxAttempts]
Loop == [pc |-> "loop", row |-> NoRun]

TypeOK ==
  /\ runs \in [Row -> RunRow \union {NoRun}]
  /\ line \in Seq(Row) /\ IsInjective(line) /\ Range(line) = {r \in Row : runs[r] # NoRun}
  /\ ended \in [Tenant -> [0 .. Window - 1 -> Nat]]
  /\ workers \in [Worker -> {Loop} \union [pc: {"locked", "claimed", "executing"}, row: Row]]
  /\ idle \in [Worker -> 0 .. Interval]
  /\ crashes \in 0 .. MaxCrashes

Init ==
  /\ runs = [r \in Row |-> NoRun] /\ line = <<>>
  /\ ended = [t \in Tenant |-> [a \in 0 .. Window - 1 |-> 0]]
  /\ workers = [w \in Worker |-> Loop]
  /\ idle = [w \in Worker |-> Interval]
  /\ crashes = 0

Submit(r, t, p) ==
  /\ runs[r] = NoRun
  /\ runs' = [runs EXCEPT ![r] = [tenant |-> t, priority |-> p, status |-> "queued", age |-> 0,
                                  lease |-> 0, touched |-> 0, attempts |-> 0]]
  /\ line' = Append(line, r)
  /\ UNCHANGED <<ended, workers, idle, crashes>>

-----------------------------------------------------------------------------
(* claim                                                                   *)

Locked == {workers[w].row : w \in {v \in Worker : workers[v].pc = "locked"}}
Lapsed(run) == run.status = "running" /\ run.lease = 0
Waiting(r) == runs[r] # NoRun /\ (runs[r].status = "queued" \/ Lapsed(runs[r]))
Eligible(r) == Waiting(r) /\ runs[r].attempts < MaxAttempts
Doomed(r) == Waiting(r) /\ runs[r].attempts >= MaxAttempts
Starved(r) == runs[r].age > Starvation

\* served.recent: the tenant's rows no longer queued that were touched in the window.
Recent(t) ==
  Cardinality({r \in Row : runs[r] # NoRun /\ runs[r].tenant = t /\ runs[r].status = "running" /\ runs[r].touched < Window})
    + SumFunction(ended[t])

Position(r) == CHOOSE i \in DOMAIN line : line[i] = r
\* Mutant: the newest first.
Newer(r, s) == Position(s) < Position(r)
Older(r, s) == Position(r) < Position(s)

\* ORDER BY starved DESC, recent, priority DESC, created_at.
Before(r, s) ==
  LET a == runs[r] b == runs[s] IN
  IF Starved(r) # Starved(s) THEN Starved(r)
  ELSE IF Recent(a.tenant) # Recent(b.tenant) THEN Recent(a.tenant) < Recent(b.tenant)
  ELSE IF a.priority # b.priority THEN a.priority > b.priority
  ELSE Older(r, s)

\* SKIP LOCKED: a row another claim holds, uncommitted, is stepped over.
First(r) == Eligible(r) /\ r \notin Locked /\ \A s \in Row : (Eligible(s) /\ s \notin Locked) => s = r \/ Before(r, s)

\* The line without those who left it: SelectSeq, as a recursive function.
Without(gone) ==
  LET left[i \in 0 .. Len(line)] ==
        IF i = 0 THEN <<>> ELSE IF line[i] \in gone THEN left[i - 1] ELSE Append(left[i - 1], line[i]) IN
  left[Len(line)]

\* A run that ended counts for its tenant a while longer.
Retire(gone) ==
  /\ runs' = [r \in Row |-> IF r \in gone THEN NoRun ELSE runs[r]]
  /\ line' = Without(gone)
  /\ ended' = [t \in Tenant |->
       [ended[t] EXCEPT ![0] = @ + Cardinality({r \in gone : runs[r].tenant = t})]]

\* claim's first statement fails what has used its attempts up.
Abandon(w) ==
  /\ workers[w] = Loop
  /\ \E r \in Row : Doomed(r)
  /\ Retire({r \in Row : Doomed(r)})
  /\ UNCHANGED <<workers, idle, crashes>>

Lock(w, r) ==
  /\ workers[w] = Loop /\ ~\E s \in Row : Doomed(s)
  /\ First(r)
  /\ workers' = [workers EXCEPT ![w] = [pc |-> "locked", row |-> r]]
  /\ UNCHANGED <<runs, line, ended, idle, crashes>>

Commit(w) ==
  /\ workers[w].pc = "locked"
  /\ LET r == workers[w].row IN
     runs' = [runs EXCEPT ![r] =
       [@ EXCEPT !.status = "running", !.lease = Lease, !.touched = 0, !.attempts = runs[r].attempts + 1]]
  /\ workers' = [workers EXCEPT ![w].pc = "claimed"]
  /\ UNCHANGED <<line, ended, idle, crashes>>

\* claim returns None: the loop maintains if it is time, and sleeps.
Maintain(w) ==
  /\ workers[w] = Loop
  /\ \A r \in Row : ~Doomed(r) /\ (Eligible(r) => r \in Locked)
  /\ idle[w] = Interval
  /\ idle' = [idle EXCEPT ![w] = 0]
  /\ UNCHANGED <<runs, line, ended, workers, crashes>>

Finish(w) ==
  /\ workers[w].pc = "executing"
  /\ Retire({workers[w].row})
  /\ workers' = [workers EXCEPT ![w] = Loop]
  /\ UNCHANGED <<idle, crashes>>

\* The process ends, its connection with it: a claim not committed is rolled back.
Crash(w) ==
  /\ workers[w] # Loop /\ crashes < MaxCrashes
  /\ workers' = [workers EXCEPT ![w] = Loop]
  /\ crashes' = crashes + 1
  /\ UNCHANGED <<runs, line, ended, idle>>

\* Live workers beat in time: RunQueue has the beats that come late.
Beating == {workers[w].row : w \in {v \in Worker : workers[v].pc \in {"claimed", "executing"}}}

Aged(r) ==
  LET run == runs[r] live == r \in Beating IN
  [run EXCEPT !.age = Min({@ + 1, Starvation + 1}),
              !.lease = IF live THEN Lease ELSE Max({@, 1}) - 1,
              !.touched = IF live THEN 0 ELSE Min({@ + 1, Window})]

Tick ==
  /\ runs' = [r \in Row |-> IF runs[r] = NoRun THEN NoRun ELSE Aged(r)]
  /\ ended' = [t \in Tenant |-> [a \in 0 .. Window - 1 |-> IF a = 0 THEN 0 ELSE ended[t][a - 1]]]
  /\ workers' = [w \in Worker |-> IF workers[w].pc = "claimed" THEN [workers[w] EXCEPT !.pc = "executing"] ELSE workers[w]]
  /\ idle' = [w \in Worker |-> Min({idle[w] + 1, Interval})]
  /\ UNCHANGED <<line, crashes>>

Work(w) == Abandon(w) \/ (\E r \in Row : Lock(w, r)) \/ Commit(w) \/ Finish(w)

Next ==
  \/ \E r \in Row, t \in Tenant, p \in Priority : Submit(r, t, p)
  \/ \E w \in Worker : Work(w) \/ Maintain(w) \/ Crash(w)
  \/ Tick

Spec == Init /\ [][Next]_claimVars

\* The loop of a worker never stops and time passes; a client need not submit.
Fairness == (\A w \in Worker : WF_claimVars(Work(w)) /\ WF_claimVars(Maintain(w))) /\ WF_claimVars(Tick)
LiveSpec == Spec /\ Fairness

-----------------------------------------------------------------------------
(* Properties                                                              *)

\* No run waits for ever, however many others arrive after it: the deficit and
\* the starvation bound see to it when no priority is granted (Priority = {0}).
Queued(r) == runs[r] # NoRun /\ runs[r].status = "queued"
EveryRunIsServed == \A r \in Row : Queued(r) ~> ~Queued(r)

\* A tick comes due and a tick is made, however busy the workers are.
MaintenanceHappens == \A w \in Worker : (idle[w] = Interval) ~> (idle[w] # Interval)

=============================================================================
