--------------------------- MODULE RetentionProofs ---------------------------
(***************************************************************************)
(* What a removal may take, for every number of runs, documents, workers   *)
(* and removals, every batch size and every chain of artifacts: content    *)
(* nobody named in a removed run stays, what is swept has ended and        *)
(* expired, and a sweep that asks for checks keeps the runs that have one. *)
(***************************************************************************)
EXTENDS Retention, TLAPS

USE ConstantAssumption

\* finish writes them, with the status that ends the run.
OutcomesAreFinal ==
  \A r \in Run : row[r] \in {"none", "queued", "running"} => outcomes[r] = {}

\* What a removal read of a run is still in its row, or was when it went.
CopiesAreOutcomes ==
  \A p \in Remover, r \in Run : copy[p][r] \subseteq outcomes[r]

\* What is to be deleted by name was named by a run some removal set out to remove.
DeletionsAreNamed ==
  \A p \in Remover : \A a \in artifactIds[p] :
    \E r \in condemned : a \in outcomes[r]

\* What a sweep has chosen has ended, or is gone, and is due.
SweptRunsEnded ==
  \A p \in Remover : scope[p] = "sweep" =>
    \A r \in doomed[p] \union more[p] :
      row[r] \in Ended \union {"gone"} /\ Deadline[r] <= clock

\* A run swept before it was due could still be checked in time.
TombstonesAreDue ==
  \A r \in Run : tombstone[r] = "retention" => Deadline[r] <= clock

\* Once a sweep has asked for checks, its choice has none made in time.
ChecksArePins ==
  /\ early \subseteq corrected
  /\ \A p \in Remover :
       scope[p] = "sweep" /\ rpc[p] # "pins" => doomed[p] \intersect early = {}

\* The inductive invariant.  Only the sweep that asks for checks spares them.
IInv ==
  /\ TypeOK
  /\ OutcomesAreFinal /\ CopiesAreOutcomes /\ DeletionsAreNamed /\ OutsideContentStays
  /\ SweptRunsEnded /\ TombstonesAreDue
  /\ HeedsChecks => ChecksArePins /\ CheckedRunsAreKept

-----------------------------------------------------------------------------
(* Which actions write which part of the state                             *)

LEMMA TableWriters ==
  Next => \/ UNCHANGED table
          \/ \E r \in Run : Submit(r)
          \/ \E r \in Run : Cancel(r)
          \/ \E r \in Run : Abandon(r)
          \/ \E w \in Worker, r \in Run : Claim(w, r)
          \/ \E w \in Worker : Finish(w)
          \/ \E w \in Worker : Release(w)
          \/ \E p \in Remover : Entomb(p)
          \/ \E p \in Remover : CancelNext(p)
BY Zenon DEF Next, Client, Execute, SweepStep, EraseStep, Remover,
       Upload, ExtractOutside, FindDocument, AdmitCheck, RecordCheck, Tick,
       Fetch, Boundary, Stage, StageFails, Check, Stop, Sweep, Pins, Refill,
       PinsAgain, Survivors, DeleteArtifact, DeleteBlob, DeletePrefix,
       AllDeleted, Erase, AllCancelled, Purge, Interrupt

LEMMA AroundWriters ==
  Next => \/ UNCHANGED <<stores, clock, clients>>
          \/ \E b \in Blob : Upload(b)
          \/ \E a \in Artifact : ExtractOutside(a)
          \/ \E r \in Run : FindDocument(r)
          \/ \E r \in Run : Submit(r)
          \/ \E r \in Run : AdmitCheck(r)
          \/ \E r \in Run : RecordCheck(r)
          \/ Tick
          \/ \E w \in Worker : Stage(w)
          \/ \E p \in Remover : DeleteArtifact(p)
          \/ \E p \in Remover : DeleteBlob(p)
          \/ \E p \in Remover : DeletePrefix(p)
          \/ \E p \in Remover : Purge(p)
BY Zenon DEF Next, Client, Execute, SweepStep, EraseStep, Remover,
       Cancel, Abandon, Claim, Fetch, Boundary, StageFails, Check, Finish,
       Release, Stop, Sweep, Pins, Refill, PinsAgain, Survivors, AllDeleted,
       Entomb, Erase, CancelNext, AllCancelled, Interrupt

LEMMA AttemptWriters ==
  Next => \/ UNCHANGED attempt
          \/ \E w \in Worker, r \in Run : Claim(w, r)
          \/ \E w \in Worker : Fetch(w)
          \/ \E w \in Worker : Boundary(w)
          \/ \E w \in Worker : Stage(w)
          \/ \E w \in Worker : StageFails(w)
          \/ \E w \in Worker : Check(w)
          \/ \E w \in Worker : Finish(w)
          \/ \E w \in Worker : Release(w)
          \/ \E w \in Worker : Stop(w)
BY Zenon DEF Next, Client, Execute, SweepStep, EraseStep, Remover,
       Upload, ExtractOutside, FindDocument, Submit, Cancel, AdmitCheck,
       RecordCheck, Tick, Abandon, Sweep, Pins, Refill, PinsAgain, Survivors,
       DeleteArtifact, DeleteBlob, DeletePrefix, AllDeleted, Entomb, Erase,
       CancelNext, AllCancelled, Purge, Interrupt

LEMMA RemovalWriters ==
  Next => \/ UNCHANGED removal
          \/ \E p \in Remover : Sweep(p)
          \/ \E p \in Remover : Pins(p)
          \/ \E p \in Remover : Refill(p)
          \/ \E p \in Remover : PinsAgain(p)
          \/ \E p \in Remover : Survivors(p)
          \/ \E p \in Remover : DeleteArtifact(p)
          \/ \E p \in Remover : DeleteBlob(p)
          \/ \E p \in Remover : DeletePrefix(p)
          \/ \E p \in Remover : AllDeleted(p)
          \/ \E p \in Remover : Entomb(p)
          \/ \E p \in Remover, s \in Erasable : Erase(p, s)
          \/ \E p \in Remover : CancelNext(p)
          \/ \E p \in Remover : AllCancelled(p)
          \/ \E p \in Remover : Purge(p)
          \/ \E p \in Remover : Interrupt(p)
BY Zenon DEF Next, Client, Execute, SweepStep, EraseStep, Remover,
       Upload, ExtractOutside, FindDocument, Submit, Cancel, AdmitCheck,
       RecordCheck, Tick, Abandon, Claim, Fetch, Boundary, Stage, StageFails,
       Check, Finish, Release, Stop

LEMMA HistoryWriters ==
  Next => \/ UNCHANGED history
          \/ \E a \in Artifact : ExtractOutside(a)
          \/ \E r \in Run : FindDocument(r)
          \/ \E r \in Run : RecordCheck(r)
          \/ \E w \in Worker, r \in Run : Claim(w, r)
          \/ \E p \in Remover : Sweep(p)
          \/ \E p \in Remover : Survivors(p)
          \/ \E p \in Remover : DeleteArtifact(p)
          \/ \E p \in Remover : DeletePrefix(p)
          \/ \E p \in Remover, s \in Erasable : Erase(p, s)
          \/ \E p \in Remover : Purge(p)
BY Zenon DEF Next, Client, Execute, SweepStep, EraseStep, Remover,
       Upload, Submit, Cancel, AdmitCheck, Tick, Abandon, Fetch, Boundary,
       Stage, StageFails, Check, Finish, Release, Stop, Pins, Refill,
       PinsAgain, DeleteBlob, AllDeleted, Entomb, CancelNext, AllCancelled,
       Interrupt

LEMMA PlanWriters ==
  Next => \/ UNCHANGED <<scope, doomed, more>>
          \/ \E p \in Remover : Sweep(p)
          \/ \E p \in Remover : Pins(p)
          \/ \E p \in Remover : Refill(p)
          \/ \E p \in Remover : PinsAgain(p)
          \/ \E p \in Remover : Entomb(p)
          \/ \E p \in Remover, s \in Erasable : Erase(p, s)
          \/ \E p \in Remover : Purge(p)
          \/ \E p \in Remover : Interrupt(p)
BY Zenon DEF Next, Client, Execute, SweepStep, EraseStep, Remover,
       Upload, ExtractOutside, FindDocument, Submit, Cancel, AdmitCheck,
       RecordCheck, Tick, Abandon, Claim, Fetch, Boundary, Stage, StageFails,
       Check, Finish, Release, Stop, Survivors, DeleteArtifact, DeleteBlob,
       DeletePrefix, AllDeleted, CancelNext, AllCancelled, plan, removal

LEMMA CopyWriters ==
  Next => \/ UNCHANGED copy
          \/ \E p \in Remover : Sweep(p)
          \/ \E p \in Remover : Refill(p)
          \/ \E p \in Remover : PinsAgain(p)
          \/ \E p \in Remover : Entomb(p)
          \/ \E p \in Remover, s \in Erasable : Erase(p, s)
          \/ \E p \in Remover : Purge(p)
          \/ \E p \in Remover : Interrupt(p)
BY Zenon DEF Next, Client, Execute, SweepStep, EraseStep, Remover,
       Upload, ExtractOutside, FindDocument, Submit, Cancel, AdmitCheck,
       RecordCheck, Tick, Abandon, Claim, Fetch, Boundary, Stage, StageFails,
       Check, Finish, Release, Stop, Pins, Survivors, DeleteArtifact,
       DeleteBlob, DeletePrefix, AllDeleted, CancelNext, AllCancelled, plan,
       removal

-----------------------------------------------------------------------------
(* Types                                                                   *)

LEMMA RunsHaveChains ==
  ASSUME NEW r \in Run
  PROVE  /\ Len(Chain[r]) \in Nat \ {0}
         /\ \A i \in 1 .. Len(Chain[r]) : Chain[r][i] \in Artifact
<1>1. Chain[r] \in Seq(Artifact) /\ Chain[r] # << >>
  OBVIOUS
<1> QED BY <1>1

\* What a worker reports was a stage of the run, filed or not.
LEMMA NamedAreArtifacts ==
  ASSUME AttemptOK, NEW w \in Worker, pc[w] # "idle"
  PROVE  job[w] \in Run /\ Named(w) \subseteq Artifact
<1>1. job[w] \in Run /\ stage[w] \in Nat /\ stage[w] <= Len(Chain[job[w]])
  BY DEF AttemptOK
<1>2. \A i \in 1 .. stage[w] : Chain[job[w]][i] \in Artifact
  BY <1>1, RunsHaveChains
<1> QED BY <1>1, <1>2 DEF Named

LEMMA CancelledTypes ==
  ASSUME TableOK, NEW r \in Run, Cancelled(r)
  PROVE  /\ row' \in [Run -> Status] /\ asked' \subseteq Run
         /\ \A q \in Run : row'[q] = "gone" <=> row[q] = "gone"
BY DEF TableOK, Cancelled, Status, Ended

LEMMA TableStep == ASSUME TypeOK, Next PROVE TableOK'
<1>0. CASE UNCHANGED table
  BY <1>0 DEF TypeOK, TableOK, table
<1>1. ASSUME NEW r \in Run, Submit(r) PROVE TableOK'
  BY <1>1 DEF TypeOK, TableOK, AroundOK, Submit, Status
<1>2. ASSUME NEW r \in Run, Cancel(r) PROVE TableOK'
  BY <1>2, CancelledTypes DEF TypeOK, TableOK, Cancel
<1>3. ASSUME NEW r \in Run, Abandon(r) PROVE TableOK'
  BY <1>3 DEF TypeOK, TableOK, Abandon, Status, Ended
<1>4. ASSUME NEW w \in Worker, NEW r \in Run, Claim(w, r) PROVE TableOK'
  BY <1>4 DEF TypeOK, TableOK, Claim, Status, Ended
<1>5. ASSUME NEW w \in Worker, Finish(w) PROVE TableOK'
  <2>1. job[w] \in Run /\ Named(w) \subseteq Artifact /\ verdict[w] \in Ended
    BY <1>5, NamedAreArtifacts DEF TypeOK, AttemptOK, Finish
  <2>2. asked' = asked /\ tombstone' = tombstone
    BY <1>5 DEF Finish
  <2>3. CASE Holds(w)
    <3>1. /\ row' = [row EXCEPT ![job[w]] = verdict[w]]
          /\ owner' = [owner EXCEPT ![job[w]] = None]
          /\ outcomes' = [outcomes EXCEPT ![job[w]] = Named(w)]
      BY <1>5, <2>3 DEF Finish
    <3>2. row[job[w]] = "running"
      BY <2>3 DEF Holds
    <3> QED BY <2>1, <2>2, <3>1, <3>2 DEF TypeOK, TableOK, Status, Ended
  <2>4. CASE ~ Holds(w)
    BY <1>5, <2>4 DEF TypeOK, TableOK, Finish
  <2> QED BY <2>3, <2>4
<1>6. ASSUME NEW w \in Worker, Release(w) PROVE TableOK'
  <2>1. job[w] \in Run
    BY <1>6, NamedAreArtifacts DEF TypeOK, Release
  <2>2. CASE Holds(w)
    BY <1>6, <2>1, <2>2 DEF TypeOK, TableOK, Release, Holds, Status
  <2>3. CASE ~ Holds(w)
    BY <1>6, <2>3 DEF TypeOK, TableOK, Release
  <2> QED BY <2>2, <2>3
<1>7. ASSUME NEW p \in Remover, Entomb(p) PROVE TableOK'
  BY <1>7 DEF TypeOK, TableOK, Entomb, InTable, Status
<1>8. ASSUME NEW p \in Remover, CancelNext(p) PROVE TableOK'
  <2>1. PICK r \in live[p] : \/ row[r] \in {"queued", "running"} /\ Cancelled(r)
                             \/ UNCHANGED <<row, asked>>
    BY <1>8 DEF CancelNext
  <2>2. r \in Run
    BY <2>1 DEF TypeOK, RemovalOK
  <2>3. UNCHANGED <<owner, outcomes, tombstone>>
    BY <1>8 DEF CancelNext
  <2> QED BY <2>1, <2>2, <2>3, CancelledTypes DEF TypeOK, TableOK
<1> QED
  BY <1>0, <1>1, <1>2, <1>3, <1>4, <1>5, <1>6, <1>7, <1>8, TableWriters

\* A run has no row until it is submitted, and none of the other statements
\* gives it one.
LEMMA RowsAreSubmitted ==
  ASSUME TypeOK, Next, NEW r \in Run, row[r] = "none", ~ Submit(r)
  PROVE  row'[r] = "none"
<1>0. CASE UNCHANGED table
  BY <1>0 DEF table
<1>1. ASSUME NEW q \in Run, Submit(q) PROVE row'[r] = "none"
  BY <1>1 DEF Submit, TypeOK, TableOK
<1>2. ASSUME NEW q \in Run, Cancel(q) PROVE row'[r] = "none"
  BY <1>2 DEF Cancel, Cancelled, TypeOK, TableOK
<1>3. ASSUME NEW q \in Run, Abandon(q) PROVE row'[r] = "none"
  BY <1>3 DEF Abandon, TypeOK, TableOK
<1>4. ASSUME NEW w \in Worker, NEW q \in Run, Claim(w, q) PROVE row'[r] = "none"
  BY <1>4 DEF Claim, TypeOK, TableOK
<1>5. ASSUME NEW w \in Worker, Finish(w) PROVE row'[r] = "none"
  <2>1. CASE Holds(w)
    BY <1>5, <2>1 DEF Finish, Holds, TypeOK, TableOK
  <2>2. CASE ~ Holds(w)
    BY <1>5, <2>2 DEF Finish
  <2> QED BY <2>1, <2>2
<1>6. ASSUME NEW w \in Worker, Release(w) PROVE row'[r] = "none"
  <2>1. CASE Holds(w)
    BY <1>6, <2>1 DEF Release, Holds, TypeOK, TableOK
  <2>2. CASE ~ Holds(w)
    BY <1>6, <2>2 DEF Release
  <2> QED BY <2>1, <2>2
<1>7. ASSUME NEW p \in Remover, Entomb(p) PROVE row'[r] = "none"
  BY <1>7 DEF Entomb, InTable
<1>8. ASSUME NEW p \in Remover, CancelNext(p) PROVE row'[r] = "none"
  BY <1>8 DEF CancelNext, Cancelled, TypeOK, TableOK
<1> QED
  BY <1>0, <1>1, <1>2, <1>3, <1>4, <1>5, <1>6, <1>7, <1>8, TableWriters

LEMMA AroundStep == ASSUME TypeOK, Next PROVE AroundOK'
<1> DEFINE StoresOK == blobs \subseteq Blob /\ artifacts \subseteq Artifact /\ clock \in Nat
           ClientsOK == submitting \subseteq Run /\ checking \subseteq Run /\ corrected \subseteq Run
<1> USE DEF TypeOK, AroundOK
<1>1. StoresOK' /\ ClientsOK'
  <2> USE DEF stores, clients
  <2>0. CASE UNCHANGED <<stores, clock, clients>>
    BY <2>0
  <2>1. ASSUME NEW b \in Blob, Upload(b) PROVE StoresOK' /\ ClientsOK'
    BY <2>1 DEF Upload
  <2>2. ASSUME NEW a \in Artifact, ExtractOutside(a) PROVE StoresOK' /\ ClientsOK'
    BY <2>2 DEF ExtractOutside
  <2>3. ASSUME NEW r \in Run, FindDocument(r) PROVE StoresOK' /\ ClientsOK'
    BY <2>3 DEF FindDocument
  <2>4. ASSUME NEW r \in Run, Submit(r) PROVE StoresOK' /\ ClientsOK'
    BY <2>4 DEF Submit
  <2>5. ASSUME NEW r \in Run, AdmitCheck(r) PROVE StoresOK' /\ ClientsOK'
    BY <2>5 DEF AdmitCheck
  <2>6. ASSUME NEW r \in Run, RecordCheck(r) PROVE StoresOK' /\ ClientsOK'
    BY <2>6 DEF RecordCheck
  <2>7. ASSUME Tick PROVE StoresOK' /\ ClientsOK'
    BY <2>7 DEF Tick
  <2>8. ASSUME NEW w \in Worker, Stage(w) PROVE StoresOK' /\ ClientsOK'
    <3>1. Chain[job[w]][stage[w] + 1] \in Artifact
      BY <2>8, NamedAreArtifacts, RunsHaveChains DEF Stage, AttemptOK
    <3> QED BY <2>8, <3>1 DEF Stage
  <2>9. ASSUME NEW p \in Remover, DeleteArtifact(p) PROVE StoresOK' /\ ClientsOK'
    BY <2>9 DEF DeleteArtifact
  <2>10. ASSUME NEW p \in Remover, DeleteBlob(p) PROVE StoresOK' /\ ClientsOK'
    BY <2>10 DEF DeleteBlob
  <2>11. ASSUME NEW p \in Remover, DeletePrefix(p) PROVE StoresOK' /\ ClientsOK'
    BY <2>11 DEF DeletePrefix
  <2>12. ASSUME NEW p \in Remover, Purge(p) PROVE StoresOK' /\ ClientsOK'
    BY <2>12 DEF Purge
  <2> HIDE DEF StoresOK, ClientsOK
  <2> QED
    BY <2>0, <2>1, <2>2, <2>3, <2>4, <2>5, <2>6, <2>7, <2>8, <2>9, <2>10, <2>11,
       <2>12, AroundWriters
<1>2. ASSUME NEW r \in submitting' PROVE row'[r] = "none"
  <2>1. \/ UNCHANGED submitting /\ ~ Submit(r)
        \/ \E q \in Run : FindDocument(q)
        \/ \E q \in Run : Submit(q)
    BY AroundWriters DEF clients, Upload, ExtractOutside, AdmitCheck, RecordCheck,
                         Tick, Stage, DeleteArtifact, DeleteBlob, DeletePrefix, Purge
  <2>2. CASE UNCHANGED submitting /\ ~ Submit(r)
    BY <2>2, <1>2, RowsAreSubmitted
  <2>3. ASSUME NEW q \in Run, FindDocument(q) PROVE row'[r] = "none"
    BY <2>3, <1>2 DEF FindDocument, table
  <2>4. ASSUME NEW q \in Run, Submit(q) PROVE row'[r] = "none"
    BY <2>4, <1>2 DEF Submit, TableOK
  <2> QED BY <2>1, <2>2, <2>3, <2>4
<1> QED BY <1>1, <1>2

LEMMA LeaveTypes ==
  ASSUME AttemptOK, NEW w \in Worker, Leave(w)
  PROVE  AttemptOK'
BY DEF AttemptOK, Leave, To, WorkerPc, Ended

LEMMA ReportTypes ==
  ASSUME AttemptOK, NEW w \in Worker, NEW s \in Ended, Report(w, s), pc[w] # "idle",
         UNCHANGED <<job, stage>>
  PROVE  AttemptOK'
BY DEF AttemptOK, Report, To, WorkerPc

LEMMA AttemptStep == ASSUME TypeOK, Next PROVE AttemptOK'
<1> USE DEF TypeOK
<1>0. CASE UNCHANGED attempt
  BY <1>0 DEF AttemptOK, attempt
<1>1. ASSUME NEW w \in Worker, NEW r \in Run, Claim(w, r) PROVE AttemptOK'
  <2>1. Len(Chain[r]) \in Nat
    BY RunsHaveChains
  <2> QED BY <1>1, <2>1 DEF AttemptOK, Claim, To, WorkerPc
<1>2. ASSUME NEW w \in Worker, Fetch(w) PROVE AttemptOK'
  <2>1. CASE Document[job[w]] \in blobs
    <3>1. job[w] \in Run /\ stage[w] = 0
      BY <1>2, NamedAreArtifacts DEF Fetch, AttemptOK
    <3>2. Len(Chain[job[w]]) \in Nat \ {0}
      BY <3>1, RunsHaveChains
    <3>3. /\ pc[w] = "fetch" /\ pc' = [pc EXCEPT ![w] = "boundary"]
          /\ UNCHANGED <<job, stage, verdict>>
      BY <1>2, <2>1 DEF Fetch, To
    <3>4. job[w] # None
      BY <1>2 DEF Fetch, AttemptOK
    <3>5. \A v \in Worker \ {w} : pc'[v] = pc[v]
      BY <3>3 DEF AttemptOK
    <3>6. pc' \in [Worker -> WorkerPc] /\ pc'[w] = "boundary"
      BY <3>3 DEF AttemptOK, WorkerPc
    <3> QED BY <3>1, <3>2, <3>3, <3>4, <3>5, <3>6 DEF AttemptOK
  <2>2. CASE Document[job[w]] \notin blobs
    BY <1>2, <2>2, ReportTypes DEF Fetch, Ended
  <2> QED BY <2>1, <2>2
<1>3. ASSUME NEW w \in Worker, Boundary(w) PROVE AttemptOK'
  <2>1. CASE Report(w, "cancelled")
    BY <1>3, <2>1, ReportTypes DEF Boundary, Ended
  <2>2. CASE To(w, "stage") /\ UNCHANGED verdict
    BY <1>3, <2>2 DEF Boundary, To, AttemptOK, WorkerPc
  <2> QED BY <1>3, <2>1, <2>2 DEF Boundary
<1>4. ASSUME NEW w \in Worker, Stage(w) PROVE AttemptOK'
  <2>1. job[w] \in Run /\ stage[w] \in Nat /\ stage[w] < Len(Chain[job[w]])
    BY <1>4, NamedAreArtifacts DEF Stage, AttemptOK
  <2>2. Len(Chain[job[w]]) \in Nat
    BY <2>1, RunsHaveChains
  <2> DEFINE next == IF stage[w] + 1 = Len(Chain[job[w]]) THEN "check" ELSE "boundary"
  <2>3. /\ pc' = [pc EXCEPT ![w] = next] /\ stage' = [stage EXCEPT ![w] = stage[w] + 1]
        /\ UNCHANGED <<job, verdict>> /\ pc[w] = "stage"
    BY <1>4 DEF Stage, To, AttemptOK
  <2>4. next \in {"check", "boundary"} /\ (next = "boundary" => stage[w] + 1 < Len(Chain[job[w]]))
    BY <2>1, <2>2
  <2> HIDE DEF next
  <2> QED BY <2>1, <2>2, <2>3, <2>4 DEF AttemptOK, WorkerPc
<1>5. ASSUME NEW w \in Worker, StageFails(w) PROVE AttemptOK'
  BY <1>5, ReportTypes DEF StageFails, Ended
<1>6. ASSUME NEW w \in Worker, Check(w) PROVE AttemptOK'
  BY <1>6, ReportTypes DEF Check, Ended
<1>7. ASSUME NEW w \in Worker, Finish(w) PROVE AttemptOK'
  BY <1>7, LeaveTypes DEF Finish
<1>8. ASSUME NEW w \in Worker, Release(w) PROVE AttemptOK'
  BY <1>8, LeaveTypes DEF Release
<1>9. ASSUME NEW w \in Worker, Stop(w) PROVE AttemptOK'
  BY <1>9, LeaveTypes DEF Stop
<1> QED
  BY <1>0, <1>1, <1>2, <1>3, <1>4, <1>5, <1>6, <1>7, <1>8, <1>9, AttemptWriters

RemoverPc == {"idle"} \union ReadPc \union ActPc

LEMMA AtTypes ==
  ASSUME RemovalOK, NEW p \in Remover, NEW label \in RemoverPc, At(p, label)
  PROVE  rpc' \in [Remover -> RemoverPc]
BY DEF RemovalOK, At, RemoverPc

LEMMA ReadsTypes ==
  ASSUME TableOK, RemovalOK, NEW p \in Remover, NEW S, Reads(p, S)
  PROVE  copy' \in [Remover -> [Run -> SUBSET Artifact]]
<1> DEFINE read == [r \in Run |-> IF r \in S THEN outcomes[r] ELSE copy[p][r]]
<1>1. copy \in [Remover -> [Run -> SUBSET Artifact]] /\ outcomes \in [Run -> SUBSET Artifact]
  BY DEF TableOK, RemovalOK
<1>2. read \in [Run -> SUBSET Artifact]
  BY <1>1
<1>3. copy' = [copy EXCEPT ![p] = read]
  BY DEF Reads
<1> HIDE DEF read
<1> QED BY <1>1, <1>2, <1>3

LEMMA DoneTypes ==
  ASSUME RemovalOK, NEW p \in Remover, Done(p), interrupts' \in Nat
  PROVE  RemovalOK'
<1>1. rpc' \in [Remover -> RemoverPc]
  BY AtTypes DEF Done, RemoverPc
<1>2. scope' \in [Remover -> {"sweep"} \union Tenant \union Blob]
  BY DEF Done, RemovalOK
<1>3. /\ doomed' \in [Remover -> SUBSET Run] /\ spared' \in [Remover -> SUBSET Run]
      /\ more' \in [Remover -> SUBSET Run] /\ live' \in [Remover -> SUBSET Run]
  BY DEF Done, RemovalOK
<1>4. copy' \in [Remover -> [Run -> SUBSET Artifact]]
  <2>1. [r \in Run |-> {}] \in [Run -> SUBSET Artifact]
    OBVIOUS
  <2> DEFINE nothing == [r \in Run |-> {}]
  <2>2. copy' = [copy EXCEPT ![p] = nothing]
    BY DEF Done
  <2>3. copy \in [Remover -> [Run -> SUBSET Artifact]]
    BY DEF RemovalOK
  <2> HIDE DEF nothing
  <2> QED BY <2>1, <2>2, <2>3 DEF nothing
<1>5. artifactIds' \in [Remover -> SUBSET Artifact] /\ blobIds' \in [Remover -> SUBSET Blob]
  BY DEF Done, RemovalOK
<1> QED BY <1>1, <1>2, <1>3, <1>4, <1>5 DEF RemovalOK, RemoverPc

LEMMA OldestIsSubset ==
  ASSUME NEW S, NEW n, NEW e \in Oldest(S, n)
  PROVE  e \subseteq S
BY DEF Oldest

LEMMA RemovalStep == ASSUME TypeOK, Next PROVE RemovalOK'
<1> USE DEF TypeOK
<1>0. CASE UNCHANGED removal
  BY <1>0 DEF RemovalOK, removal, plan, todo
<1>1. ASSUME NEW p \in Remover, Sweep(p) PROVE RemovalOK'
  <2>1. PICK e \in Oldest(Removable, Batch) :
          doomed' = [doomed EXCEPT ![p] = e] /\ Reads(p, e)
    BY <1>1 DEF Sweep
  <2>2. e \subseteq Run
    BY OldestIsSubset DEF Removable
  <2>3. doomed' \in [Remover -> SUBSET Run]
    BY <2>1, <2>2 DEF RemovalOK
  <2>4. rpc' \in [Remover -> RemoverPc]
    BY <1>1, AtTypes DEF Sweep, RemoverPc, ReadPc
  <2>5. copy' \in [Remover -> [Run -> SUBSET Artifact]]
    BY <2>1, ReadsTypes
  <2>6. UNCHANGED <<scope, spared, more, live, todo, interrupts>>
    BY <1>1 DEF Sweep
  <2> QED BY <2>3, <2>4, <2>5, <2>6 DEF RemovalOK, RemoverPc, todo
<1>2. ASSUME NEW p \in Remover, Pins(p) PROVE RemovalOK'
  <2>1. doomed' \in [Remover -> SUBSET Run] /\ spared' \in [Remover -> SUBSET Run]
    BY <1>2 DEF Pins, Pinned, RemovalOK
  <2>2. rpc' \in [Remover -> RemoverPc]
    BY <1>2 DEF Pins, At, RemovalOK, RemoverPc, ReadPc, ActPc
  <2>3. UNCHANGED <<scope, more, live, copy, todo, interrupts>>
    BY <1>2 DEF Pins
  <2> QED BY <2>1, <2>2, <2>3 DEF RemovalOK, RemoverPc, todo
<1>3. ASSUME NEW p \in Remover, Refill(p) PROVE RemovalOK'
  <2>1. PICK e \in Oldest(Others(p), Batch - Cardinality(doomed[p])) :
          more' = [more EXCEPT ![p] = e] /\ Reads(p, e)
    BY <1>3 DEF Refill
  <2>2. e \subseteq Run
    BY OldestIsSubset DEF Others, Removable
  <2>3. more' \in [Remover -> SUBSET Run]
    BY <2>1, <2>2 DEF RemovalOK
  <2>4. rpc' \in [Remover -> RemoverPc]
    BY <1>3, AtTypes DEF Refill, RemoverPc, ReadPc
  <2>5. copy' \in [Remover -> [Run -> SUBSET Artifact]]
    BY <2>1, ReadsTypes
  <2>6. UNCHANGED <<scope, doomed, spared, live, todo, interrupts>>
    BY <1>3 DEF Refill
  <2> QED BY <2>3, <2>4, <2>5, <2>6 DEF RemovalOK, RemoverPc, todo
<1>4. ASSUME NEW p \in Remover, PinsAgain(p) PROVE RemovalOK'
  <2> DEFINE all == doomed[p] \union Admitted(more[p])
  <2>1. interrupts' \in Nat
    BY <1>4 DEF PinsAgain, RemovalOK
  <2>2. CASE all = {}
    BY <1>4, <2>1, <2>2, DoneTypes DEF PinsAgain
  <2>3. CASE all # {}
    <3>1. all \subseteq Run
      BY DEF RemovalOK, Admitted
    <3>2. /\ doomed' = [doomed EXCEPT ![p] = all] /\ At(p, "survivors")
          /\ UNCHANGED <<scope, spared, more, live, copy, todo>>
      BY <1>4, <2>3 DEF PinsAgain
    <3>3. rpc' \in [Remover -> RemoverPc]
      BY <3>2, AtTypes DEF RemoverPc, ActPc
    <3> HIDE DEF all
    <3> QED BY <2>1, <3>1, <3>2, <3>3 DEF RemovalOK, RemoverPc, todo
  <2> QED BY <2>2, <2>3
<1>5. ASSUME NEW p \in Remover, Survivors(p) PROVE RemovalOK'
  <2>1. artifactIds' \in [Remover -> SUBSET Artifact]
    <3>1. Candidates(p) \subseteq Artifact
      BY DEF Candidates, RemovalOK
    <3> QED BY <1>5, <3>1 DEF Survivors, RemovalOK
  <2>2. blobIds' \in [Remover -> SUBSET Blob]
    <3>1. {Document[r] : r \in doomed[p]} \subseteq Blob
      BY DEF RemovalOK
    <3> QED BY <1>5, <3>1 DEF Survivors, RemovalOK
  <2>3. rpc' \in [Remover -> RemoverPc]
    BY <1>5, AtTypes DEF Survivors, RemoverPc, ActPc
  <2>4. UNCHANGED <<scope, plan, interrupts>>
    BY <1>5 DEF Survivors
  <2> QED BY <2>1, <2>2, <2>3, <2>4 DEF RemovalOK, RemoverPc, plan
<1>6. ASSUME NEW p \in Remover, DeleteArtifact(p) PROVE RemovalOK'
  <2>1. artifactIds' \in [Remover -> SUBSET Artifact]
    BY <1>6 DEF DeleteArtifact, RemovalOK
  <2>2. UNCHANGED <<rpc, scope, plan, blobIds, interrupts>>
    BY <1>6 DEF DeleteArtifact
  <2> QED BY <2>1, <2>2 DEF RemovalOK, plan
<1>7. ASSUME NEW p \in Remover, DeleteBlob(p) PROVE RemovalOK'
  <2>1. blobIds' \in [Remover -> SUBSET Blob]
    BY <1>7 DEF DeleteBlob, RemovalOK
  <2>2. UNCHANGED <<rpc, scope, plan, artifactIds, interrupts>>
    BY <1>7 DEF DeleteBlob
  <2> QED BY <2>1, <2>2 DEF RemovalOK, plan
<1>8. ASSUME NEW p \in Remover, DeletePrefix(p) PROVE RemovalOK'
  <2>1. UNCHANGED <<scope, plan, todo, interrupts>>
    BY <1>8 DEF DeletePrefix
  <2>2. rpc' \in [Remover -> RemoverPc]
    BY <1>8, AtTypes DEF DeletePrefix, RemoverPc, ActPc
  <2> QED BY <2>1, <2>2 DEF RemovalOK, RemoverPc, plan, todo
<1>9. ASSUME NEW p \in Remover, AllDeleted(p) PROVE RemovalOK'
  <2>1. UNCHANGED <<scope, plan, todo, interrupts>>
    BY <1>9 DEF AllDeleted
  <2>2. rpc' \in [Remover -> RemoverPc]
    BY <1>9, AtTypes DEF AllDeleted, RemoverPc, ActPc
  <2> QED BY <2>1, <2>2 DEF RemovalOK, RemoverPc, plan, todo
<1>10. ASSUME NEW p \in Remover, Entomb(p) PROVE RemovalOK'
  <2>1. interrupts' \in Nat
    BY <1>10 DEF Entomb, RemovalOK
  <2>2. CASE scope[p] = "sweep"
    BY <1>10, <2>1, <2>2, DoneTypes DEF Entomb
  <2>3. CASE scope[p] # "sweep"
    <3>1. At(p, "purge") /\ UNCHANGED <<scope, plan, todo>>
      BY <1>10, <2>3 DEF Entomb
    <3>2. rpc' \in [Remover -> RemoverPc]
      BY <3>1, AtTypes DEF RemoverPc, ActPc
    <3> QED BY <2>1, <3>1, <3>2 DEF RemovalOK, RemoverPc, plan, todo
  <2> QED BY <2>2, <2>3
<1>11. ASSUME NEW p \in Remover, NEW s \in Erasable, Erase(p, s) PROVE RemovalOK'
  <2> DEFINE runs == {r \in Run : InTable(r) /\ s \in Tenant \union {Document[r]}}
             open == {r \in runs : row[r] \notin Ended}
  <2>1. /\ doomed' = [doomed EXCEPT ![p] = runs] /\ live' = [live EXCEPT ![p] = open]
        /\ scope' = [scope EXCEPT ![p] = s]
        /\ Reads(p, runs)
    BY <1>11 DEF Erase
  <2>2. runs \subseteq Run /\ open \subseteq Run /\ s \in Tenant \union Blob
    OBVIOUS
  <2> HIDE DEF runs, open
  <2>3. doomed' \in [Remover -> SUBSET Run] /\ live' \in [Remover -> SUBSET Run]
    BY <2>1, <2>2 DEF RemovalOK
  <2>4. scope' \in [Remover -> {"sweep"} \union Tenant \union Blob]
    BY <2>1, <2>2 DEF RemovalOK
  <2>5. rpc' \in [Remover -> RemoverPc]
    BY <1>11, AtTypes DEF Erase, RemoverPc, ReadPc
  <2>6. copy' \in [Remover -> [Run -> SUBSET Artifact]]
    BY <2>1, ReadsTypes
  <2>7. UNCHANGED <<spared, more, todo, interrupts>>
    BY <1>11 DEF Erase
  <2> QED BY <2>3, <2>4, <2>5, <2>6, <2>7 DEF RemovalOK, RemoverPc, todo
<1>12. ASSUME NEW p \in Remover, CancelNext(p) PROVE RemovalOK'
  <2>1. live' \in [Remover -> SUBSET Run]
    BY <1>12 DEF CancelNext, RemovalOK
  <2>2. UNCHANGED <<rpc, scope, doomed, spared, more, copy, todo, interrupts>>
    BY <1>12 DEF CancelNext
  <2> QED BY <2>1, <2>2 DEF RemovalOK, todo
<1>13. ASSUME NEW p \in Remover, AllCancelled(p) PROVE RemovalOK'
  <2>1. UNCHANGED <<scope, plan, todo, interrupts>>
    BY <1>13 DEF AllCancelled
  <2>2. rpc' \in [Remover -> RemoverPc]
    BY <1>13 DEF AllCancelled, At, RemovalOK, RemoverPc, ActPc
  <2> QED BY <2>1, <2>2 DEF RemovalOK, RemoverPc, plan, todo
<1>14. ASSUME NEW p \in Remover, Purge(p) PROVE RemovalOK'
  <2>1. Done(p) /\ interrupts' \in Nat
    BY <1>14 DEF Purge, RemovalOK
  <2> QED BY <2>1, DoneTypes
<1>15. ASSUME NEW p \in Remover, Interrupt(p) PROVE RemovalOK'
  <2>1. Done(p) /\ interrupts' \in Nat
    BY <1>15 DEF Interrupt, AfterError, RemovalOK
  <2> QED BY <2>1, DoneTypes
<1> QED
  BY <1>0, <1>1, <1>2, <1>3, <1>4, <1>5, <1>6, <1>7, <1>8, <1>9, <1>10, <1>11,
     <1>12, <1>13, <1>14, <1>15, RemovalWriters

LEMMA RunsUnderWay ==
  ASSUME AroundOK, AttemptOK
  PROVE  UnderWay \subseteq Run
BY DEF AroundOK, AttemptOK, UnderWay

LEMMA HistoryStep == ASSUME TypeOK, Next PROVE HistoryOK'
<1> USE DEF TypeOK, HistoryOK
<1>0. CASE UNCHANGED history
  BY <1>0 DEF history
<1>1. ASSUME NEW a \in Artifact, ExtractOutside(a) PROVE HistoryOK'
  BY <1>1 DEF ExtractOutside
<1>2. ASSUME NEW r \in Run, FindDocument(r) PROVE HistoryOK'
  BY <1>2 DEF FindDocument, Begins
<1>3. ASSUME NEW r \in Run, RecordCheck(r) PROVE HistoryOK'
  BY <1>3 DEF RecordCheck
<1>4. ASSUME NEW w \in Worker, NEW r \in Run, Claim(w, r) PROVE HistoryOK'
  BY <1>4 DEF Claim, Begins
<1>5. ASSUME NEW p \in Remover, Sweep(p) PROVE HistoryOK'
  BY <1>5, RunsUnderWay DEF Sweep
<1>6. ASSUME NEW p \in Remover, Survivors(p) PROVE HistoryOK'
  BY <1>6 DEF Survivors, RemovalOK
<1>7. ASSUME NEW p \in Remover, DeleteArtifact(p) PROVE HistoryOK'
  BY <1>7 DEF DeleteArtifact, RemovalOK
<1>8. ASSUME NEW p \in Remover, DeletePrefix(p) PROVE HistoryOK'
  BY <1>8 DEF DeletePrefix
<1>9. ASSUME NEW p \in Remover, NEW s \in Erasable, Erase(p, s) PROVE HistoryOK'
  BY <1>9, RunsUnderWay DEF Erase
<1>10. ASSUME NEW p \in Remover, Purge(p) PROVE HistoryOK'
  BY <1>10 DEF Purge
<1> QED
  BY <1>0, <1>1, <1>2, <1>3, <1>4, <1>5, <1>6, <1>7, <1>8, <1>9, <1>10, HistoryWriters

LEMMA TypeStart == Init => TypeOK
<1> SUFFICES ASSUME Init PROVE TypeOK
  OBVIOUS
<1>1. TableOK
  BY DEF Init, TableOK, Status
<1>2. AroundOK /\ HistoryOK
  BY DEF Init, AroundOK, HistoryOK
<1>3. AttemptOK
  <2>1. \A w \in Worker : job[w] = None /\ pc[w] = "idle" /\ stage[w] = 0
    BY DEF Init
  <2> QED BY <2>1 DEF Init, AttemptOK, WorkerPc, Ended
<1>4. RemovalOK
  BY DEF Init, RemovalOK
<1> QED BY <1>1, <1>2, <1>3, <1>4 DEF TypeOK

LEMMA TypeStep == TypeOK /\ [Next]_vars => TypeOK'
<1> SUFFICES ASSUME TypeOK, [Next]_vars PROVE TypeOK'
  OBVIOUS
<1>1. CASE Next
  BY <1>1, TableStep, AroundStep, AttemptStep, RemovalStep, HistoryStep DEF TypeOK
<1>2. CASE UNCHANGED vars
  BY <1>2 DEF TypeOK, TableOK, AroundOK, AttemptOK, RemovalOK, HistoryOK, vars,
              table, stores, clients, attempt, removal, plan, todo, history
<1> QED BY <1>1, <1>2

\* Every variable keeps its type; a row and its tombstone exclude each other,
\* a run is submitted once, and an attempt never passes the end of its chain.
THEOREM TypeCorrect == Spec => []TypeOK
BY TypeStart, TypeStep, PTL DEF Spec

-----------------------------------------------------------------------------
(* What only grows                                                         *)

\* A run that ended stays as it ended, until its row is removed.
LEMMA EndedRunsStay ==
  ASSUME TypeOK, Next, NEW r \in Run, row[r] \in Ended \union {"gone"}
  PROVE  row'[r] \in {row[r], "gone"}
<1> USE DEF Ended
<1>0. CASE UNCHANGED table
  BY <1>0 DEF table
<1>1. ASSUME NEW q \in Run, Submit(q) PROVE row'[r] = row[r]
  BY <1>1 DEF Submit, TypeOK, TableOK, AroundOK
<1>2. ASSUME NEW q \in Run, Cancel(q) PROVE row'[r] = row[r]
  BY <1>2 DEF Cancel, Cancelled, TypeOK, TableOK
<1>3. ASSUME NEW q \in Run, Abandon(q) PROVE row'[r] = row[r]
  BY <1>3 DEF Abandon, TypeOK, TableOK
<1>4. ASSUME NEW w \in Worker, NEW q \in Run, Claim(w, q) PROVE row'[r] = row[r]
  BY <1>4 DEF Claim, TypeOK, TableOK
<1>5. ASSUME NEW w \in Worker, Finish(w) PROVE row'[r] = row[r]
  <2>1. CASE Holds(w)
    BY <1>5, <2>1 DEF Finish, Holds, TypeOK, TableOK
  <2>2. CASE ~ Holds(w)
    BY <1>5, <2>2 DEF Finish
  <2> QED BY <2>1, <2>2
<1>6. ASSUME NEW w \in Worker, Release(w) PROVE row'[r] = row[r]
  <2>1. CASE Holds(w)
    BY <1>6, <2>1 DEF Release, Holds, TypeOK, TableOK
  <2>2. CASE ~ Holds(w)
    BY <1>6, <2>2 DEF Release
  <2> QED BY <2>1, <2>2
<1>7. ASSUME NEW p \in Remover, Entomb(p) PROVE row'[r] \in {row[r], "gone"}
  BY <1>7 DEF Entomb
<1>8. ASSUME NEW p \in Remover, CancelNext(p) PROVE row'[r] = row[r]
  BY <1>8 DEF CancelNext, Cancelled, TypeOK, TableOK
<1> QED
  BY <1>0, <1>1, <1>2, <1>3, <1>4, <1>5, <1>6, <1>7, <1>8, TableWriters

\* Only the report of the worker that holds the run writes its outcomes, and it
\* ends the run.
LEMMA OutcomesStep ==
  ASSUME TypeOK, OutcomesAreFinal, Next
  PROVE  /\ \A r \in Run : outcomes[r] \subseteq outcomes'[r]
         /\ OutcomesAreFinal'
<1>1. \/ UNCHANGED outcomes
      \/ \E w \in Worker : Finish(w) /\ Holds(w)
  BY TableWriters DEF table, Submit, Cancel, Abandon, Claim, Finish, Release, Entomb,
                      CancelNext
<1>2. CASE UNCHANGED outcomes
  BY <1>2, EndedRunsStay DEF OutcomesAreFinal, TypeOK, TableOK, Status
<1>3. ASSUME NEW w \in Worker, Finish(w), Holds(w)
      PROVE  /\ \A r \in Run : outcomes[r] \subseteq outcomes'[r]
             /\ OutcomesAreFinal'
  <2>1. /\ row' = [row EXCEPT ![job[w]] = verdict[w]]
        /\ outcomes' = [outcomes EXCEPT ![job[w]] = Named(w)]
        /\ row[job[w]] = "running"
    BY <1>3 DEF Finish, Holds
  <2>2. job[w] \in Run /\ verdict[w] \in Ended
    BY <1>3, NamedAreArtifacts DEF Finish, TypeOK, AttemptOK
  <2> QED BY <2>1, <2>2 DEF OutcomesAreFinal, TypeOK, TableOK, Ended
<1> QED BY <1>1, <1>2, <1>3

LEMMA ClockGrows ==
  ASSUME TypeOK, Next
  PROVE  clock \in Nat /\ clock' \in Nat /\ clock <= clock'
BY AroundWriters
   DEF TypeOK, AroundOK, Upload, ExtractOutside, FindDocument, Submit, AdmitCheck,
       RecordCheck, Tick, Stage, DeleteArtifact, DeleteBlob, DeletePrefix, Purge

LEMMA CondemnedGrows ==
  ASSUME Next
  PROVE  condemned \subseteq condemned'
BY HistoryWriters
   DEF history, ExtractOutside, FindDocument, RecordCheck, Claim, Sweep, Survivors,
       DeleteArtifact, DeletePrefix, Erase, Purge

-----------------------------------------------------------------------------
(* What removals delete                                                    *)

LEMMA CopiesStep ==
  ASSUME TypeOK, OutcomesAreFinal, CopiesAreOutcomes, Next
  PROVE  CopiesAreOutcomes'
<1>1. \A r \in Run : outcomes[r] \subseteq outcomes'[r]
  BY OutcomesStep
<1>2. CASE UNCHANGED copy
  BY <1>1, <1>2 DEF CopiesAreOutcomes
<1>3. ASSUME NEW p \in Remover, NEW S, Reads(p, S) PROVE CopiesAreOutcomes'
  <2> SUFFICES ASSUME NEW q \in Remover, NEW r \in Run
               PROVE  copy'[q][r] \subseteq outcomes'[r]
    BY DEF CopiesAreOutcomes
  <2> DEFINE read == [x \in Run |-> IF x \in S THEN outcomes[x] ELSE copy[p][x]]
  <2>1. copy' = [copy EXCEPT ![p] = read]
    BY <1>3 DEF Reads
  <2>2. read[r] \subseteq outcomes[r]
    BY DEF CopiesAreOutcomes
  <2> HIDE DEF read
  <2>3. copy'[q] = IF q = p THEN read ELSE copy[q]
    BY <2>1 DEF TypeOK, RemovalOK
  <2>4. CASE q = p
    BY <2>2, <2>3, <2>4, <1>1
  <2>5. CASE q # p
    BY <2>3, <2>5, <1>1 DEF CopiesAreOutcomes
  <2> QED BY <2>4, <2>5
<1>4. ASSUME NEW p \in Remover, Done(p) PROVE CopiesAreOutcomes'
  <2> SUFFICES ASSUME NEW q \in Remover, NEW r \in Run
               PROVE  copy'[q][r] \subseteq outcomes'[r]
    BY DEF CopiesAreOutcomes
  <2> DEFINE nothing == [x \in Run |-> {}]
  <2>1. copy' = [copy EXCEPT ![p] = nothing]
    BY <1>4 DEF Done
  <2>2. nothing[r] = {}
    OBVIOUS
  <2> HIDE DEF nothing
  <2>3. copy'[q] = IF q = p THEN nothing ELSE copy[q]
    BY <2>1 DEF TypeOK, RemovalOK
  <2>4. CASE q = p
    BY <2>2, <2>3, <2>4
  <2>5. CASE q # p
    BY <2>3, <2>5, <1>1 DEF CopiesAreOutcomes
  <2> QED BY <2>4, <2>5
<1>5. ASSUME NEW p \in Remover, Sweep(p) PROVE CopiesAreOutcomes'
  <2>1. PICK e \in Oldest(Removable, Batch) : Reads(p, e)
    BY <1>5 DEF Sweep
  <2> QED BY <2>1, <1>3
<1>6. ASSUME NEW p \in Remover, Refill(p) PROVE CopiesAreOutcomes'
  <2>1. PICK e \in Oldest(Others(p), Batch - Cardinality(doomed[p])) : Reads(p, e)
    BY <1>6 DEF Refill
  <2> QED BY <2>1, <1>3
<1>7. ASSUME NEW p \in Remover, NEW s \in Erasable, Erase(p, s) PROVE CopiesAreOutcomes'
  <2> DEFINE runs == {r \in Run : InTable(r) /\ s \in Tenant \union {Document[r]}}
  <2>1. Reads(p, runs)
    BY <1>7 DEF Erase
  <2> QED BY <2>1, <1>3
<1>8. ASSUME NEW p \in Remover,
             \/ PinsAgain(p) \/ Entomb(p) \/ Purge(p) \/ Interrupt(p)
      PROVE  CopiesAreOutcomes'
  <2>1. Done(p) \/ UNCHANGED copy
    BY <1>8 DEF PinsAgain, Entomb, Purge, Interrupt, AfterError, plan
  <2> QED BY <2>1, <1>2, <1>4
<1> QED BY <1>2, <1>5, <1>6, <1>7, <1>8, CopyWriters

LEMMA DeletionsStep ==
  ASSUME TypeOK, OutcomesAreFinal, CopiesAreOutcomes, DeletionsAreNamed, Next
  PROVE  DeletionsAreNamed'
<1>1. \A r \in Run : outcomes[r] \subseteq outcomes'[r]
  BY OutcomesStep
<1>2. condemned \subseteq condemned' /\ condemned' \subseteq Run
  BY CondemnedGrows, HistoryStep DEF HistoryOK
<1> SUFFICES ASSUME NEW q \in Remover, NEW a \in artifactIds'[q]
             PROVE  \E r \in condemned' : a \in outcomes'[r]
  BY DEF DeletionsAreNamed
<1>3. CASE a \in artifactIds[q]
  BY <1>1, <1>2, <1>3 DEF DeletionsAreNamed
<1>4. CASE a \notin artifactIds[q]
  <2>0. artifactIds \in [Remover -> SUBSET Artifact]
    BY DEF TypeOK, RemovalOK
  <2>1. Survivors(q)
    <3>1. PICK p \in Remover : Survivors(p) \/ DeleteArtifact(p) \/ Done(p)
      BY <1>4, RemovalWriters
         DEF removal, todo, Sweep, Pins, Refill, PinsAgain, DeleteBlob, DeletePrefix,
             AllDeleted, Entomb, Erase, CancelNext, AllCancelled, Purge, Interrupt,
             AfterError
    <3>2. ~ Done(p)
      BY <1>4, <2>0 DEF Done
    <3>3. ~ DeleteArtifact(p)
      BY <1>4, <2>0 DEF DeleteArtifact
    <3>4. CASE Survivors(p)
      BY <1>4, <2>0, <3>4 DEF Survivors
    <3> QED BY <3>1, <3>2, <3>3, <3>4
  <2>2. a \in Candidates(q) /\ condemned' = condemned \union doomed[q]
    BY <2>1 DEF Survivors, TypeOK, RemovalOK
  <2>3. PICK r \in doomed[q] : a \in copy[q][r]
    BY <2>2 DEF Candidates
  <2>4. r \in Run
    BY DEF TypeOK, RemovalOK
  <2> QED BY <2>2, <2>3, <2>4, <1>1 DEF CopiesAreOutcomes
<1> QED BY <1>3, <1>4

LEMMA OutsideStep ==
  ASSUME TypeOK, OutcomesAreFinal, DeletionsAreNamed, OutsideContentStays, Next
  PROVE  OutsideContentStays'
<1>1. \A r \in Run : outcomes[r] \subseteq outcomes'[r]
  BY OutcomesStep
<1>2. condemned \subseteq condemned' /\ condemned \subseteq Run
  BY CondemnedGrows DEF TypeOK, HistoryOK
<1> SUFFICES ASSUME NEW a \in outside'
             PROVE  a \in artifacts' \/ \E r \in condemned' : a \in outcomes'[r]
  BY DEF OutsideContentStays
<1>3. ASSUME NEW r \in condemned, a \in outcomes[r]
      PROVE  \E q \in condemned' : a \in outcomes'[q]
  BY <1>1, <1>2, <1>3
<1>4. CASE a \notin outside
  <2>1. ExtractOutside(a)
    BY <1>4, HistoryWriters
       DEF history, ExtractOutside, FindDocument, RecordCheck, Claim, Sweep, Survivors,
           DeleteArtifact, DeletePrefix, Erase, Purge
  <2> QED BY <2>1 DEF ExtractOutside
<1>5. CASE a \in outside /\ a \in artifacts /\ a \notin artifacts'
  <2>0. artifacts # artifacts' /\ ~ (artifacts \subseteq artifacts')
    BY <1>5
  <2>1. PICK p \in Remover : DeleteArtifact(p) \/ DeletePrefix(p)
    <3>1. ASSUME NEW w \in Worker, Stage(w) PROVE FALSE
      BY <2>0, <3>1 DEF Stage
    <3>2. ASSUME NEW x \in Artifact, ExtractOutside(x) PROVE FALSE
      BY <2>0, <3>2 DEF ExtractOutside
    <3> QED
      BY <2>0, <3>1, <3>2, AroundWriters
         DEF stores, Upload, FindDocument, Submit, AdmitCheck, RecordCheck, Tick,
             DeleteBlob, Purge
  <2>2. CASE DeleteArtifact(p)
    <3>1. a \in artifactIds[p]
      BY <1>5, <2>2 DEF DeleteArtifact
    <3>2. PICK r \in condemned : a \in outcomes[r]
      BY <3>1 DEF DeletionsAreNamed
    <3> QED BY <1>3, <3>2
  <2>3. CASE DeletePrefix(p)
    BY <1>5, <2>3 DEF DeletePrefix
  <2> QED BY <2>1, <2>2, <2>3
<1> QED BY <1>3, <1>4, <1>5 DEF OutsideContentStays

-----------------------------------------------------------------------------
(* What sweeps remove                                                      *)

\* Once a run has ended and is due, it is so until it is gone.
LEMMA DueRunsStay ==
  ASSUME TypeOK, Next, NEW r \in Run,
         row[r] \in Ended \union {"gone"}, Deadline[r] <= clock
  PROVE  row'[r] \in Ended \union {"gone"} /\ Deadline[r] <= clock'
<1>1. Deadline[r] \in Nat
  OBVIOUS
<1> QED BY <1>1, EndedRunsStay, ClockGrows

LEMMA RemovableIsDue ==
  ASSUME NEW r \in Removable
  PROVE  r \in Run /\ row[r] \in Ended /\ Deadline[r] <= clock
BY DEF Removable

LEMMA DoneEmpties ==
  ASSUME TypeOK, NEW p \in Remover, NEW q \in Remover, Done(p)
  PROVE  IF q = p
         THEN rpc'[q] = "idle" /\ doomed'[q] = {} /\ more'[q] = {}
         ELSE rpc'[q] = rpc[q] /\ scope'[q] = scope[q] /\ doomed'[q] = doomed[q] /\ more'[q] = more[q]
BY DEF TypeOK, RemovalOK, Done, At

\* No eraser's scope is "sweep", and only runs that were removable join a sweep.
LEMMA PlansStep ==
  ASSUME TypeOK, Next, NEW q \in Remover, scope'[q] = "sweep",
         NEW r \in doomed'[q] \union more'[q]
  PROVE  r \in Removable \/ (scope[q] = "sweep" /\ r \in doomed[q] \union more[q])
<1> USE DEF TypeOK, RemovalOK
<1>0. CASE UNCHANGED <<scope, doomed, more>>
  BY <1>0
<1>1. ASSUME NEW p \in Remover, Sweep(p)
      PROVE  r \in Removable \/ (scope[q] = "sweep" /\ r \in doomed[q] \union more[q])
  <2>1. PICK e \in Oldest(Removable, Batch) : doomed' = [doomed EXCEPT ![p] = e]
    BY <1>1 DEF Sweep
  <2>2. e \subseteq Removable
    BY OldestIsSubset
  <2>3. UNCHANGED <<scope, more>>
    BY <1>1 DEF Sweep
  <2> QED BY <2>1, <2>2, <2>3
<1>2. ASSUME NEW p \in Remover, Pins(p)
      PROVE  r \in Removable \/ (scope[q] = "sweep" /\ r \in doomed[q] \union more[q])
  BY <1>2 DEF Pins
<1>3. ASSUME NEW p \in Remover, Refill(p)
      PROVE  r \in Removable \/ (scope[q] = "sweep" /\ r \in doomed[q] \union more[q])
  <2>1. PICK e \in Oldest(Others(p), Batch - Cardinality(doomed[p])) :
          more' = [more EXCEPT ![p] = e]
    BY <1>3 DEF Refill
  <2>2. e \subseteq Removable
    BY OldestIsSubset DEF Others
  <2>3. UNCHANGED <<scope, doomed>>
    BY <1>3 DEF Refill
  <2> QED BY <2>1, <2>2, <2>3
<1>4. ASSUME NEW p \in Remover, Done(p)
      PROVE  r \in Removable \/ (scope[q] = "sweep" /\ r \in doomed[q] \union more[q])
  BY <1>4, DoneEmpties
<1>5. ASSUME NEW p \in Remover, PinsAgain(p)
      PROVE  r \in Removable \/ (scope[q] = "sweep" /\ r \in doomed[q] \union more[q])
  <2> DEFINE all == doomed[p] \union Admitted(more[p])
  <2>1. CASE all = {}
    BY <1>4, <1>5, <2>1 DEF PinsAgain
  <2>2. CASE all # {}
    <3>1. doomed' = [doomed EXCEPT ![p] = all] /\ UNCHANGED <<scope, more>>
      BY <1>5, <2>2 DEF PinsAgain
    <3>2. all \subseteq doomed[p] \union more[p]
      BY DEF Admitted
    <3> HIDE DEF all
    <3> QED BY <3>1, <3>2
  <2> QED BY <2>1, <2>2
<1>6. ASSUME NEW p \in Remover, NEW s \in Erasable, Erase(p, s)
      PROVE  r \in Removable \/ (scope[q] = "sweep" /\ r \in doomed[q] \union more[q])
  <2>1. s # "sweep"
    BY DEF Tenant
  <2>2. scope' = [scope EXCEPT ![p] = s] /\ UNCHANGED more
    BY <1>6 DEF Erase
  <2>3. q # p
    BY <2>1, <2>2
  <2>4. doomed'[q] = doomed[q]
    BY <1>6, <2>3 DEF Erase
  <2> QED BY <2>2, <2>3, <2>4
<1>7. ASSUME NEW p \in Remover, Entomb(p) \/ Purge(p) \/ Interrupt(p)
      PROVE  r \in Removable \/ (scope[q] = "sweep" /\ r \in doomed[q] \union more[q])
  <2>1. Done(p) \/ UNCHANGED <<scope, doomed, more>>
    BY <1>7 DEF Entomb, Purge, Interrupt, AfterError, plan
  <2> QED BY <2>1, <1>0, <1>4
<1> QED BY <1>0, <1>1, <1>2, <1>3, <1>5, <1>6, <1>7, PlanWriters

LEMMA SweptStep ==
  ASSUME TypeOK, SweptRunsEnded, Next
  PROVE  SweptRunsEnded'
<1> SUFFICES ASSUME NEW q \in Remover, scope'[q] = "sweep",
                    NEW r \in doomed'[q] \union more'[q]
             PROVE  row'[r] \in Ended \union {"gone"} /\ Deadline[r] <= clock'
  BY DEF SweptRunsEnded
<1>1. r \in Run
  BY RemovalStep DEF RemovalOK
<1>2. row[r] \in Ended \union {"gone"} /\ Deadline[r] <= clock
  BY PlansStep, RemovableIsDue DEF SweptRunsEnded
<1> QED BY <1>1, <1>2, DueRunsStay

\* What a sweep entombs has ended and is due when it does.
LEMMA SweepsEntombTheDue ==
  ASSUME TypeOK, SweptRunsEnded, Next, NEW r \in Run,
         tombstone[r] # tombstone'[r], tombstone'[r] = "retention"
  PROVE  \E p \in Remover : /\ Entomb(p) /\ scope[p] = "sweep" /\ r \in doomed[p]
                            /\ row[r] \in Ended /\ Deadline[r] <= clock
<1>1. PICK p \in Remover : Entomb(p)
  BY TableWriters DEF table, Submit, Cancel, Abandon, Claim, Finish, Release, CancelNext
<1>2. r \in doomed[p] /\ InTable(r) /\ scope[p] = "sweep"
  BY <1>1 DEF Entomb
<1>3. row[r] \in Ended /\ Deadline[r] <= clock
  BY <1>2 DEF SweptRunsEnded, InTable
<1> QED BY <1>1, <1>2, <1>3

LEMMA DueStep ==
  ASSUME TypeOK, SweptRunsEnded, TombstonesAreDue, Next
  PROVE  TombstonesAreDue'
<1> SUFFICES ASSUME NEW r \in Run, tombstone'[r] = "retention"
             PROVE  Deadline[r] <= clock'
  BY DEF TombstonesAreDue
<1>1. Deadline[r] \in Nat
  OBVIOUS
<1>2. Deadline[r] <= clock
  BY SweepsEntombTheDue DEF TombstonesAreDue
<1> QED BY <1>1, <1>2, ClockGrows

-----------------------------------------------------------------------------
(* What a sweep that asks for checks spares                                *)

LEMMA EarlyStep ==
  ASSUME TypeOK, Next, NEW r \in early'
  PROVE  r \in early \/ (RecordCheck(r) /\ clock < Deadline[r])
BY HistoryWriters
   DEF history, ExtractOutside, FindDocument, RecordCheck, Claim, Sweep, Survivors,
       DeleteArtifact, DeletePrefix, Erase, Purge

LEMMA PinsStep ==
  ASSUME TypeOK, HeedsChecks, SweptRunsEnded, ChecksArePins, Next
  PROVE  ChecksArePins'
<1>1. early' \subseteq corrected'
  <2>1. CASE UNCHANGED <<early, corrected>>
    BY <2>1 DEF ChecksArePins
  <2>2. ASSUME NEW r \in Run, RecordCheck(r) PROVE early' \subseteq corrected'
    BY <2>2 DEF RecordCheck, ChecksArePins
  <2>3. ASSUME NEW p \in Remover, Purge(p) PROVE early' \subseteq corrected'
    BY <2>3 DEF Purge
  <2>4. \/ UNCHANGED early
        \/ \E r \in Run : RecordCheck(r)
        \/ \E p \in Remover : Purge(p)
    BY HistoryWriters
       DEF history, ExtractOutside, FindDocument, Claim, Sweep, Survivors,
           DeleteArtifact, DeletePrefix, Erase
  <2>5. \/ UNCHANGED corrected
        \/ \E r \in Run : RecordCheck(r)
        \/ \E p \in Remover : Purge(p)
    BY AroundWriters
       DEF clients, Upload, ExtractOutside, FindDocument, Submit, AdmitCheck, Tick,
           Stage, DeleteArtifact, DeleteBlob, DeletePrefix
  <2> QED BY <2>1, <2>2, <2>3, <2>4, <2>5
<1>2. ASSUME NEW q \in Remover, scope'[q] = "sweep", rpc'[q] # "pins",
             NEW r \in doomed'[q], r \in early'
      PROVE  FALSE
  <2> USE <1>2
  <2> USE DEF TypeOK, RemovalOK
  <2>1. CASE RecordCheck(r) /\ clock < Deadline[r]
    <3>1. UNCHANGED <<scope, doomed>>
      BY <2>1 DEF RecordCheck, removal, plan
    <3>2. Deadline[r] \in Nat /\ clock \in Nat
      BY <2>1 DEF RecordCheck, AroundOK
    <3> QED BY <2>1, <3>1, <3>2 DEF SweptRunsEnded
  <2>2. CASE r \in early
    <3>0. ASSUME UNCHANGED <<scope, doomed>>, rpc[q] = "pins" => rpc'[q] = "pins"
          PROVE  FALSE
      BY <2>2, <3>0 DEF ChecksArePins
    <3>1. ASSUME NEW p \in Remover, Sweep(p) PROVE FALSE
      <4>1. q # p
        BY <3>1 DEF Sweep, At
      <4>2. doomed'[q] = doomed[q] /\ scope'[q] = scope[q] /\ rpc'[q] = rpc[q]
        BY <3>1, <4>1 DEF Sweep, At
      <4> QED BY <2>2, <4>2 DEF ChecksArePins
    <3>2. ASSUME NEW p \in Remover, Pins(p) PROVE FALSE
      <4>1. CASE q = p
        BY <2>2, <3>2, <4>1 DEF Pins, Pinned, ChecksArePins
      <4>2. CASE q # p
        <5>1. doomed'[q] = doomed[q] /\ scope'[q] = scope[q] /\ rpc'[q] = rpc[q]
          BY <3>2, <4>2 DEF Pins, At
        <5> QED BY <2>2, <5>1 DEF ChecksArePins
      <4> QED BY <4>1, <4>2
    <3>3. ASSUME NEW p \in Remover, Refill(p) PROVE FALSE
      BY <3>0, <3>3 DEF Refill, At
    <3>4. ASSUME NEW p \in Remover, Done(p) PROVE FALSE
      BY <2>2, <3>4, DoneEmpties DEF ChecksArePins
    <3>5. ASSUME NEW p \in Remover, PinsAgain(p) PROVE FALSE
      <4> DEFINE all == doomed[p] \union Admitted(more[p])
      <4>1. CASE all = {}
        BY <3>4, <3>5, <4>1 DEF PinsAgain
      <4>2. CASE all # {}
        <5>1. /\ doomed' = [doomed EXCEPT ![p] = all] /\ UNCHANGED scope
              /\ rpc[p] = "pins again" /\ rpc' = [rpc EXCEPT ![p] = "survivors"]
          BY <3>5, <4>2 DEF PinsAgain, At
        <5>2. r \notin Admitted(more[p])
          BY <2>2 DEF Admitted, Pinned, ChecksArePins
        <5>3. r \in doomed[q] /\ rpc[q] # "pins"
          BY <5>1, <5>2
        <5> QED BY <2>2, <5>1, <5>3 DEF ChecksArePins
      <4> QED BY <4>1, <4>2
    <3>6. ASSUME NEW p \in Remover,
                 \/ Survivors(p) \/ DeleteArtifact(p) \/ DeleteBlob(p) \/ DeletePrefix(p)
                 \/ AllDeleted(p) \/ CancelNext(p) \/ AllCancelled(p)
          PROVE  FALSE
      <4>1. UNCHANGED <<scope, doomed>>
        BY <3>6 DEF Survivors, DeleteArtifact, DeleteBlob, DeletePrefix, AllDeleted,
                    CancelNext, AllCancelled, plan
      <4>2. rpc'[q] = rpc[q] \/ (q = p /\ rpc[p] # "pins")
        BY <3>6 DEF Survivors, DeleteArtifact, DeleteBlob, DeletePrefix, AllDeleted,
                    CancelNext, AllCancelled, At
      <4> QED BY <3>0, <4>1, <4>2
    <3>7. ASSUME NEW p \in Remover, Entomb(p) \/ Purge(p) \/ Interrupt(p) PROVE FALSE
      <4>1. Done(p) \/ (UNCHANGED <<scope, doomed>> /\ rpc[p] = "entomb" /\ At(p, "purge"))
        BY <3>7 DEF Entomb, Purge, Interrupt, AfterError, plan
      <4>2. CASE UNCHANGED <<scope, doomed>> /\ rpc[p] = "entomb" /\ At(p, "purge")
        BY <3>0, <4>2 DEF At
      <4> QED BY <3>4, <4>1, <4>2
    <3>8. ASSUME NEW p \in Remover, NEW s \in Erasable, Erase(p, s) PROVE FALSE
      <4>1. s # "sweep" /\ scope' = [scope EXCEPT ![p] = s]
        BY <3>8 DEF Erase, Tenant
      <4>2. q # p /\ scope'[q] = scope[q]
        BY <4>1
      <4>3. doomed'[q] = doomed[q] /\ rpc'[q] = rpc[q]
        BY <3>8, <4>2 DEF Erase, At
      <4> QED BY <2>2, <4>2, <4>3 DEF ChecksArePins
    <3>9. CASE UNCHANGED removal
      BY <3>0, <3>9 DEF removal, plan
    <3> QED
      BY <3>1, <3>2, <3>3, <3>5, <3>6, <3>7, <3>8, <3>9, RemovalWriters
  <2> QED BY <2>1, <2>2, EarlyStep
<1> QED BY <1>1, <1>2 DEF ChecksArePins

LEMMA CheckedStep ==
  ASSUME TypeOK, SweptRunsEnded, TombstonesAreDue, ChecksArePins, CheckedRunsAreKept, Next
  PROVE  CheckedRunsAreKept'
<1> SUFFICES ASSUME NEW r \in early', tombstone'[r] = "retention"
             PROVE  FALSE
  BY DEF CheckedRunsAreKept
<1>1. r \in Run
  BY HistoryStep DEF HistoryOK
<1>2. CASE tombstone[r] = "retention"
  <2>1. RecordCheck(r) /\ clock < Deadline[r]
    BY <1>2, EarlyStep DEF CheckedRunsAreKept
  <2>2. Deadline[r] <= clock /\ Deadline[r] \in Nat /\ clock \in Nat
    BY <1>1, <1>2 DEF TombstonesAreDue, TypeOK, AroundOK
  <2> QED BY <2>1, <2>2
<1>3. CASE tombstone[r] # "retention"
  <2>1. PICK p \in Remover : Entomb(p) /\ scope[p] = "sweep" /\ r \in doomed[p]
    BY <1>1, <1>3, SweepsEntombTheDue
  <2>2. r \in early /\ rpc[p] # "pins"
    BY <2>1 DEF Entomb, history
  <2> QED BY <2>1, <2>2 DEF ChecksArePins
<1> QED BY <1>2, <1>3

-----------------------------------------------------------------------------
(* The invariant and the theorems                                          *)

LEMMA Start == Init => IInv
<1> SUFFICES ASSUME Init PROVE IInv
  OBVIOUS
<1>1. OutcomesAreFinal /\ CopiesAreOutcomes
  BY DEF Init, OutcomesAreFinal, CopiesAreOutcomes
<1>2. DeletionsAreNamed /\ OutsideContentStays
  BY DEF Init, DeletionsAreNamed, OutsideContentStays
<1>3. SweptRunsEnded /\ TombstonesAreDue
  BY DEF Init, SweptRunsEnded, TombstonesAreDue
<1>4. ChecksArePins /\ CheckedRunsAreKept
  BY DEF Init, ChecksArePins, CheckedRunsAreKept
<1> QED BY <1>1, <1>2, <1>3, <1>4, TypeStart DEF IInv

LEMMA Step == IInv /\ [Next]_vars => IInv'
<1> SUFFICES ASSUME IInv, [Next]_vars PROVE IInv'
  OBVIOUS
<1> USE DEF IInv
<1>1. CASE Next
  <2>1. TypeOK'
    BY TypeStep
  <2>2. OutcomesAreFinal' /\ CopiesAreOutcomes' /\ DeletionsAreNamed' /\ OutsideContentStays'
    BY <1>1, OutcomesStep, CopiesStep, DeletionsStep, OutsideStep
  <2>3. SweptRunsEnded' /\ TombstonesAreDue'
    BY <1>1, SweptStep, DueStep
  <2>4. (HeedsChecks => ChecksArePins /\ CheckedRunsAreKept)'
    BY <1>1, PinsStep, CheckedStep
  <2> QED BY <2>1, <2>2, <2>3, <2>4
<1>2. CASE UNCHANGED vars
  <2>1. TypeOK'
    BY TypeStep
  <2> QED
    BY <1>2, <2>1 DEF vars, table, stores, clients, attempt, removal, plan, todo, history,
           OutcomesAreFinal, CopiesAreOutcomes, DeletionsAreNamed, OutsideContentStays,
           SweptRunsEnded, TombstonesAreDue, ChecksArePins, CheckedRunsAreKept
<1> QED BY <1>1, <1>2

\* The invariant holds in every reachable state; what follows is read off it.
THEOREM Invariance == Spec => []IInv
BY Start, Step, PTL DEF Spec

\* Content filed outside any run goes only if a removed run named it, or with
\* its tenant: _candidates names, then survivors subtracts (retention.py).
THEOREM OutsideContentIsSafe == Spec => []OutsideContentStays
<1>1. IInv => OutsideContentStays
  BY DEF IInv
<1> QED BY <1>1, Invariance, PTL

\* The statement that removes swept rows asks for neither status nor deadline;
\* the runs it was given had ended and were due when they were read, and a run
\* that ended is never taken up again.
THEOREM OnlyEndedRunsAreEverSwept == Spec => OnlyEndedRunsAreSwept
<1> DEFINE Due == \A r \in Run : tombstone[r] # tombstone'[r] /\ tombstone'[r] = "retention"
                    => row[r] \in Ended /\ Deadline[r] <= clock
<1>1. IInv /\ [Next]_vars => [Due]_vars
  <2> SUFFICES ASSUME IInv, Next PROVE Due
    OBVIOUS
  <2> QED BY SweepsEntombTheDue DEF IInv
<1> QED BY <1>1, Invariance, PTL DEF Spec, OnlyEndedRunsAreSwept

\* A sweep that is passed the correction store keeps every run that was checked
\* before it expired, whatever was checked between its two questions.
THEOREM CheckedRunsAreSafe == Spec => [](HeedsChecks => CheckedRunsAreKept)
<1>1. IInv => (HeedsChecks => CheckedRunsAreKept)
  BY DEF IInv
<1> QED BY <1>1, Invariance, PTL

HIDE ConstantAssumption

-----------------------------------------------------------------------------
(***************************************************************************)
(* A run nobody sets out to remove keeps what it needs, for any number of  *)
(* sweeps and erasures at once: a removal spares what the rows it can see  *)
(* name, and a run it cannot see yet, or whose artifacts no row names yet, *)
(* was under way while it was.                                             *)
(***************************************************************************)

\* The runs ContentOutlivesRemovals is about.
Safe == Run \ (exposed \union condemned)

\* A process that removes nothing has nothing in memory.
RestIsClean ==
  \A p \in Remover :
    rpc[p] = "idle" => scope[p] = "sweep" /\ artifactIds[p] = {} /\ blobIds[p] = {}

\* Of a safe run under way: no removal is.
BeginningsAreQuiet ==
  \A r \in UnderWay \ exposed : \A p \in Remover : rpc[p] = "idle"

\* While a whole tenant is erased, no safe run is in the table.
WholeTenantsAreCondemned ==
  \A p \in Remover : scope[p] = "tenant" =>
    \A r \in Safe : row[r] \in {"none", "gone"}

\* A run about to be, or to execute, has its document, which nobody will delete.
DocumentsStay ==
  \A r \in Safe : r \in submitting \/ row[r] \in {"queued", "running"} =>
    Document[r] \in blobs /\ \A p \in Remover : Document[r] \notin blobIds[p]

\* A run that succeeded names its result, which is stored and nobody will delete.
ResultsStay ==
  \A r \in Safe : row[r] = "succeeded" =>
    /\ Last(r) \in outcomes[r] /\ Last(r) \in artifacts
    /\ \A p \in Remover : Last(r) \notin artifactIds[p]

\* Who reports success has done every stage, and has seen the result.
VerdictsAreBased ==
  \A w \in Worker :
    /\ pc[w] = "check" => stage[w] = Len(Chain[job[w]])
    /\ pc[w] = "finish" /\ verdict[w] = "succeeded" =>
         /\ stage[w] = Len(Chain[job[w]])
         /\ job[w] \in Safe => Last(job[w]) \in artifacts

\* Inductive, together with IInv.
ContentInv ==
  /\ RestIsClean /\ BeginningsAreQuiet /\ WholeTenantsAreCondemned
  /\ DocumentsStay /\ ResultsStay /\ VerdictsAreBased

-----------------------------------------------------------------------------
(* What a step does to one removal, one run, one attempt                   *)

LEMMA SafeShrinks ==
  ASSUME Next
  PROVE  exposed \subseteq exposed' /\ Safe' \subseteq Safe
<1>1. exposed \subseteq exposed'
  BY HistoryWriters
     DEF history, ExtractOutside, FindDocument, RecordCheck, Claim, Begins, Sweep,
         Survivors, DeleteArtifact, DeletePrefix, Erase, Purge
<1> QED BY <1>1, CondemnedGrows DEF Safe

LEMMA RestStep ==
  ASSUME TypeOK, RestIsClean, Next
  PROVE  RestIsClean'
<1> USE DEF TypeOK, RemovalOK
<1> SUFFICES ASSUME NEW q \in Remover, rpc'[q] = "idle"
             PROVE  scope'[q] = "sweep" /\ artifactIds'[q] = {} /\ blobIds'[q] = {}
  BY DEF RestIsClean
<1>0. CASE rpc[q] = "idle" /\ scope'[q] = scope[q] /\ artifactIds'[q] \subseteq artifactIds[q]
           /\ blobIds'[q] \subseteq blobIds[q]
  BY <1>0 DEF RestIsClean
<1>1. ASSUME NEW p \in Remover, Done(p)
      PROVE  scope'[q] = "sweep" /\ artifactIds'[q] = {} /\ blobIds'[q] = {}
  <2>1. CASE q = p
    BY <1>1, <2>1 DEF Done
  <2>2. CASE q # p
    BY <1>0, <1>1, <2>2 DEF Done, At
  <2> QED BY <2>1, <2>2
<1>2. CASE UNCHANGED removal
  BY <1>0, <1>2 DEF removal, todo
<1>3. ASSUME NEW p \in Remover,
             Sweep(p) \/ Pins(p) \/ Refill(p) \/ AllCancelled(p) \/ AllDeleted(p) \/ DeletePrefix(p)
      PROVE  scope'[q] = "sweep" /\ artifactIds'[q] = {} /\ blobIds'[q] = {}
  <2>1. UNCHANGED <<scope, todo>>
    BY <1>3 DEF Sweep, Pins, Refill, AllCancelled, AllDeleted, DeletePrefix
  <2>2. rpc'[q] = rpc[q] \/ rpc'[q] # "idle"
    BY <1>3 DEF Sweep, Pins, Refill, AllCancelled, AllDeleted, DeletePrefix, At
  <2> QED BY <1>0, <2>1, <2>2 DEF todo
<1>4. ASSUME NEW p \in Remover, Survivors(p)
      PROVE  scope'[q] = "sweep" /\ artifactIds'[q] = {} /\ blobIds'[q] = {}
  <2>1. q # p
    BY <1>4 DEF Survivors, At
  <2> QED BY <1>0, <1>4, <2>1 DEF Survivors, At
<1>5. ASSUME NEW p \in Remover, DeleteArtifact(p) \/ DeleteBlob(p) \/ CancelNext(p)
      PROVE  scope'[q] = "sweep" /\ artifactIds'[q] = {} /\ blobIds'[q] = {}
  <2>1. UNCHANGED <<rpc, scope>>
    BY <1>5 DEF DeleteArtifact, DeleteBlob, CancelNext
  <2>2. artifactIds'[q] \subseteq artifactIds[q] /\ blobIds'[q] \subseteq blobIds[q]
    BY <1>5 DEF DeleteArtifact, DeleteBlob, CancelNext, todo
  <2> QED BY <1>0, <2>1, <2>2
<1>6. ASSUME NEW p \in Remover, PinsAgain(p) \/ Entomb(p) \/ Purge(p) \/ Interrupt(p)
      PROVE  scope'[q] = "sweep" /\ artifactIds'[q] = {} /\ blobIds'[q] = {}
  <2>1. Done(p) \/ (UNCHANGED <<scope, todo>> /\ (At(p, "survivors") \/ At(p, "purge")))
    BY <1>6 DEF PinsAgain, Entomb, Purge, Interrupt, AfterError
  <2>2. CASE UNCHANGED <<scope, todo>> /\ (At(p, "survivors") \/ At(p, "purge"))
    <3>1. rpc'[q] = rpc[q] \/ rpc'[q] # "idle"
      BY <2>2 DEF At
    <3> QED BY <1>0, <2>2, <3>1 DEF todo
  <2> QED BY <1>1, <2>1, <2>2
<1>7. ASSUME NEW p \in Remover, NEW s \in Erasable, Erase(p, s)
      PROVE  scope'[q] = "sweep" /\ artifactIds'[q] = {} /\ blobIds'[q] = {}
  <2>1. q # p
    BY <1>7 DEF Erase, At
  <2> QED BY <1>0, <1>7, <2>1 DEF Erase, At, todo
<1> QED BY <1>2, <1>3, <1>4, <1>5, <1>6, <1>7, RemovalWriters

LEMMA RemovalsBegin ==
  ASSUME TypeOK, Next, NEW q \in Remover, rpc[q] = "idle", rpc'[q] # "idle"
  PROVE  UnderWay \subseteq exposed'
<1> USE DEF TypeOK, RemovalOK
<1>1. ASSUME NEW p \in Remover,
             \/ Pins(p) \/ Refill(p) \/ PinsAgain(p) \/ Survivors(p) \/ DeleteArtifact(p)
             \/ DeleteBlob(p) \/ DeletePrefix(p) \/ AllDeleted(p) \/ Entomb(p)
             \/ CancelNext(p) \/ AllCancelled(p) \/ Purge(p) \/ Interrupt(p)
      PROVE  FALSE
  <2>1. rpc[p] # "idle"
    BY <1>1 DEF Pins, Refill, PinsAgain, Survivors, DeleteArtifact, DeleteBlob,
                DeletePrefix, AllDeleted, Entomb, CancelNext, AllCancelled, Purge, Interrupt
  <2>2. rpc'[q] = rpc[q]
    BY <1>1, <2>1 DEF Pins, Refill, PinsAgain, Survivors, DeleteArtifact, DeleteBlob,
                DeletePrefix, AllDeleted, Entomb, CancelNext, AllCancelled, Purge, Interrupt,
                AfterError, Done, At
  <2> QED BY <2>2
<1>2. ASSUME NEW p \in Remover, Sweep(p) PROVE UnderWay \subseteq exposed'
  BY <1>2 DEF Sweep
<1>3. ASSUME NEW p \in Remover, NEW s \in Erasable, Erase(p, s)
      PROVE  UnderWay \subseteq exposed'
  BY <1>3 DEF Erase
<1>4. ~ UNCHANGED removal
  BY DEF removal
<1> QED BY <1>1, <1>2, <1>3, <1>4, RemovalWriters

LEMMA RunsBegin ==
  ASSUME TypeOK, Next, NEW r \in UnderWay'
  PROVE  r \in UnderWay \/ FindDocument(r) \/ \E w \in Worker : Claim(w, r)
<1>1. CASE r \in submitting'
  BY <1>1, AroundWriters
     DEF UnderWay, clients, Upload, ExtractOutside, FindDocument, Submit, AdmitCheck,
         RecordCheck, Tick, Stage, DeleteArtifact, DeleteBlob, DeletePrefix, Purge
<1>2. ASSUME NEW w \in Worker, job'[w] = r, r # None
      PROVE  r \in UnderWay \/ \E v \in Worker : Claim(v, r)
  <2>1. CASE job[w] = r
    BY <1>2, <2>1 DEF UnderWay
  <2>2. CASE job[w] # r
    <3>1. \/ UNCHANGED job
          \/ \E v \in Worker : Leave(v)
          \/ \E v \in Worker, q \in Run : Claim(v, q)
      BY AttemptWriters
         DEF attempt, Fetch, Boundary, Stage, StageFails, Check, Finish, Release, Stop
    <3>2. ASSUME NEW v \in Worker, Leave(v) PROVE FALSE
      BY <1>2, <2>2, <3>2 DEF Leave, TypeOK, AttemptOK
    <3>3. ASSUME NEW v \in Worker, NEW q \in Run, Claim(v, q) PROVE q = r
      BY <1>2, <2>2, <3>3 DEF Claim, TypeOK, AttemptOK
    <3> QED BY <1>2, <2>2, <3>1, <3>2, <3>3
  <2> QED BY <2>1, <2>2
<1>3. r \in submitting' \/ \E w \in Worker : job'[w] = r /\ r # None
  BY DEF UnderWay
<1> QED BY <1>1, <1>2, <1>3

LEMMA QuietStep ==
  ASSUME TypeOK, BeginningsAreQuiet, Next
  PROVE  BeginningsAreQuiet'
<1> SUFFICES ASSUME NEW r \in UnderWay' \ exposed', NEW q \in Remover, rpc'[q] # "idle"
             PROVE  FALSE
  BY DEF BeginningsAreQuiet
<1>1. CASE r \in UnderWay
  <2>1. rpc[q] = "idle"
    BY <1>1, SafeShrinks DEF BeginningsAreQuiet
  <2> QED BY <1>1, <2>1, RemovalsBegin
<1>2. CASE FindDocument(r) \/ \E w \in Worker : Claim(w, r)
  <2>1. ~ Removing /\ UNCHANGED rpc
    BY <1>2 DEF FindDocument, Claim, Begins, removal
  <2> QED BY <2>1 DEF Removing
<1> QED BY <1>1, <1>2, RunsBegin

LEMMA ScopesStep ==
  ASSUME TypeOK, Next, NEW q \in Remover, scope'[q] = "tenant", scope[q] # "tenant"
  PROVE  \A r \in Run : row'[r] \notin {"none", "gone"} => r \in condemned'
<1> USE DEF TypeOK, RemovalOK
<1>1. ASSUME NEW p \in Remover, Done(p) PROVE FALSE
  BY <1>1 DEF Done
<1>2. ASSUME NEW p \in Remover,
             Sweep(p) \/ Pins(p) \/ Refill(p) \/ PinsAgain(p) \/ Entomb(p) \/ Purge(p) \/ Interrupt(p)
      PROVE  FALSE
  <2>1. UNCHANGED scope \/ Done(p)
    BY <1>2 DEF Sweep, Pins, Refill, PinsAgain, Entomb, Purge, Interrupt, AfterError
  <2> QED BY <1>1, <2>1
<1>3. ASSUME NEW p \in Remover, NEW s \in Erasable, Erase(p, s)
      PROVE  \A r \in Run : row'[r] \notin {"none", "gone"} => r \in condemned'
  <2>1. s = "tenant"
    BY <1>3 DEF Erase
  <2>2. /\ UNCHANGED row
        /\ condemned' = condemned \union {r \in Run : InTable(r) /\ s \in Tenant \union {Document[r]}}
    BY <1>3 DEF Erase, table
  <2> QED BY <2>1, <2>2 DEF InTable, Tenant
<1> QED BY <1>2, <1>3, PlanWriters

LEMMA TenantsStep ==
  ASSUME TypeOK, RestIsClean, BeginningsAreQuiet, WholeTenantsAreCondemned, Next
  PROVE  WholeTenantsAreCondemned'
<1> SUFFICES ASSUME NEW q \in Remover, scope'[q] = "tenant",
                    NEW r \in Safe', row'[r] \notin {"none", "gone"}
             PROVE  FALSE
  BY DEF WholeTenantsAreCondemned
<1>1. r \in Safe /\ r \in Run /\ r \notin condemned'
  BY SafeShrinks DEF Safe
<1>2. CASE scope[q] = "tenant"
  <2>1. row[r] \in {"none", "gone"}
    BY <1>1, <1>2 DEF WholeTenantsAreCondemned
  <2>2. row[r] = "none" /\ Submit(r)
    BY <1>1, <2>1, RowsAreSubmitted, EndedRunsStay
  <2>3. r \in UnderWay \ exposed
    BY <1>1, <2>2 DEF Submit, UnderWay, Safe
  <2> QED BY <1>2, <2>3 DEF BeginningsAreQuiet, RestIsClean
<1>3. CASE scope[q] # "tenant"
  BY <1>1, <1>3, ScopesStep
<1> QED BY <1>2, <1>3

\* What a removal means to delete grows only where it subtracts the survivors.
LEMMA TodoStep ==
  ASSUME TypeOK, Next, NEW q \in Remover
  PROVE  \/ artifactIds'[q] \subseteq artifactIds[q] /\ blobIds'[q] \subseteq blobIds[q]
         \/ Survivors(q)
<1> USE DEF TypeOK, RemovalOK
<1>1. ASSUME NEW p \in Remover, Done(p)
      PROVE  artifactIds'[q] \subseteq artifactIds[q] /\ blobIds'[q] \subseteq blobIds[q]
  BY <1>1 DEF Done
<1>2. ASSUME NEW p \in Remover, DeleteArtifact(p) \/ DeleteBlob(p)
      PROVE  artifactIds'[q] \subseteq artifactIds[q] /\ blobIds'[q] \subseteq blobIds[q]
  BY <1>2 DEF DeleteArtifact, DeleteBlob
<1>3. ASSUME NEW p \in Remover, Survivors(p), p # q
      PROVE  artifactIds'[q] \subseteq artifactIds[q] /\ blobIds'[q] \subseteq blobIds[q]
  BY <1>3 DEF Survivors
<1>4. ASSUME NEW p \in Remover, Entomb(p) \/ Purge(p) \/ Interrupt(p) \/ PinsAgain(p)
      PROVE  artifactIds'[q] \subseteq artifactIds[q] /\ blobIds'[q] \subseteq blobIds[q]
  <2>1. UNCHANGED todo \/ Done(p)
    BY <1>4 DEF Entomb, Purge, Interrupt, PinsAgain, AfterError
  <2> QED BY <1>1, <2>1 DEF todo
<1> QED
  BY <1>2, <1>3, <1>4, RemovalWriters
     DEF removal, todo, Sweep, Pins, Refill, DeletePrefix, AllDeleted, Erase, CancelNext,
         AllCancelled

\* A run under way when no removal is, so that nothing is being deleted.
LEMMA NothingIsDeleted ==
  ASSUME TypeOK, RestIsClean, BeginningsAreQuiet, Next, NEW r \in UnderWay \ exposed
  PROVE  /\ \A p \in Remover : artifactIds[p] = {} /\ blobIds[p] = {} /\ rpc[p] = "idle"
         /\ artifacts \subseteq artifacts' /\ blobs \subseteq blobs'
         /\ \A p \in Remover : artifactIds'[p] = {} /\ blobIds'[p] = {}
<1>1. \A p \in Remover : artifactIds[p] = {} /\ blobIds[p] = {} /\ rpc[p] = "idle"
  BY DEF BeginningsAreQuiet, RestIsClean
<1>2. ASSUME NEW p \in Remover,
             \/ DeleteArtifact(p) \/ DeleteBlob(p) \/ DeletePrefix(p) \/ Purge(p) \/ Survivors(p)
      PROVE  FALSE
  BY <1>1, <1>2 DEF DeleteArtifact, DeleteBlob, DeletePrefix, Purge, Survivors
<1>3. ASSUME NEW w \in Worker, Stage(w) PROVE artifacts \subseteq artifacts' /\ blobs \subseteq blobs'
  BY <1>3 DEF Stage
<1>4. artifacts \subseteq artifacts' /\ blobs \subseteq blobs'
  BY <1>2, <1>3, AroundWriters
     DEF stores, Upload, ExtractOutside, FindDocument, Submit, AdmitCheck, RecordCheck, Tick
<1>5. ASSUME NEW p \in Remover PROVE artifactIds'[p] = {} /\ blobIds'[p] = {}
  BY <1>1, <1>2, TodoStep
<1> QED BY <1>1, <1>4, <1>5

LEMMA DocumentsStep ==
  ASSUME TypeOK, RestIsClean, BeginningsAreQuiet, WholeTenantsAreCondemned, DocumentsStay, Next
  PROVE  DocumentsStay'
<1> SUFFICES ASSUME NEW r \in Safe', r \in submitting' \/ row'[r] \in {"queued", "running"}
             PROVE  Document[r] \in blobs' /\ \A p \in Remover : Document[r] \notin blobIds'[p]
  BY DEF DocumentsStay
<1>1. r \in Safe /\ r \in Run /\ r \notin exposed' \union condemned'
  BY SafeShrinks DEF Safe
<1>2. CASE r \in submitting \/ row[r] \in {"queued", "running"}
  <2>1. Document[r] \in blobs /\ \A p \in Remover : Document[r] \notin blobIds[p]
    BY <1>1, <1>2 DEF DocumentsStay
  <2>2. CASE r \in submitting
    <3>1. r \in UnderWay \ exposed
      BY <1>1, <2>2 DEF UnderWay, Safe
    <3> QED BY <2>1, <3>1, NothingIsDeleted
  <2>3. CASE row[r] \in {"queued", "running"}
    <3>1. Document[r] \in blobs'
      <4>1. ASSUME NEW p \in Remover, DeleteBlob(p) PROVE Document[r] \in blobs'
        BY <2>1, <4>1 DEF DeleteBlob
      <4>2. ASSUME NEW p \in Remover, DeletePrefix(p) PROVE FALSE
        BY <1>1, <2>3, <4>2 DEF DeletePrefix, ByPrefix, WholeTenantsAreCondemned
      <4> QED
        BY <2>1, <4>1, <4>2, AroundWriters
           DEF stores, Upload, ExtractOutside, FindDocument, Submit, AdmitCheck,
               RecordCheck, Tick, Stage, DeleteArtifact, Purge
    <3>2. ASSUME NEW p \in Remover PROVE Document[r] \notin blobIds'[p]
      <4>1. CASE Survivors(p)
        <5>1. r \in Survivor(p)
          BY <1>1, <2>3, <4>1 DEF Survivors, Survivor, InTable
        <5> QED BY <4>1, <5>1 DEF Survivors, TypeOK, RemovalOK
      <4>2. CASE ~ Survivors(p)
        BY <2>1, <4>2, TodoStep
      <4> QED BY <4>1, <4>2
    <3> QED BY <3>1, <3>2
  <2> QED BY <1>2, <2>2, <2>3
<1>3. CASE r \notin submitting /\ row[r] \notin {"queued", "running"}
  <2>1. FindDocument(r)
    <3>1. row[r] \in {"none", "gone"} \union Ended
      BY <1>1, <1>3 DEF TypeOK, TableOK, Status
    <3>2. ~ Submit(r)
      BY <1>3 DEF Submit
    <3>3. row'[r] \notin {"queued", "running"}
      BY <1>1, <3>1, <3>2, RowsAreSubmitted, EndedRunsStay DEF Ended
    <3>4. r \in submitting'
      BY <3>3
    <3> QED
      BY <1>3, <3>4, AroundWriters
         DEF clients, Upload, ExtractOutside, FindDocument, Submit, AdmitCheck,
             RecordCheck, Tick, Stage, DeleteArtifact, DeleteBlob, DeletePrefix, Purge
  <2>2. ~ Removing
    BY <1>1, <2>1 DEF FindDocument, Begins
  <2>3. \A p \in Remover : blobIds[p] = {}
    BY <2>2 DEF Removing, RestIsClean
  <2>4. Document[r] \in blobs /\ UNCHANGED <<blobs, blobIds>>
    BY <2>1 DEF FindDocument, stores, removal, todo
  <2> QED BY <2>3, <2>4
<1> QED BY <1>2, <1>3

LEMMA RunsSucceed ==
  ASSUME TypeOK, Next, NEW r \in Run, row'[r] = "succeeded", row[r] # "succeeded"
  PROVE  \E w \in Worker : /\ Finish(w) /\ job[w] = r /\ verdict[w] = "succeeded"
                           /\ outcomes'[r] = Named(w)
<1> USE DEF TypeOK, TableOK
<1>1. ASSUME NEW w \in Worker, Finish(w)
      PROVE  job[w] = r /\ verdict[w] = "succeeded" /\ outcomes'[r] = Named(w)
  <2>1. Holds(w)
    BY <1>1 DEF Finish
  <2>2. row' = [row EXCEPT ![job[w]] = verdict[w]] /\ outcomes' = [outcomes EXCEPT ![job[w]] = Named(w)]
    BY <1>1, <2>1 DEF Finish
  <2> QED BY <2>2
<1>2. ASSUME NEW q \in Run, Submit(q) \/ Cancel(q) \/ Abandon(q) PROVE FALSE
  BY <1>2 DEF Submit, Cancel, Cancelled, Abandon
<1>3. ASSUME NEW w \in Worker, NEW q \in Run, Claim(w, q) PROVE FALSE
  BY <1>3 DEF Claim
<1>4. ASSUME NEW w \in Worker, Release(w) PROVE FALSE
  BY <1>4 DEF Release
<1>5. ASSUME NEW p \in Remover, Entomb(p) PROVE FALSE
  BY <1>5 DEF Entomb
<1>6. ASSUME NEW p \in Remover, CancelNext(p) PROVE FALSE
  BY <1>6 DEF CancelNext, Cancelled
<1> QED BY <1>1, <1>2, <1>3, <1>4, <1>5, <1>6, TableWriters DEF table

LEMMA ResultsStep ==
  ASSUME TypeOK, OutcomesAreFinal, RestIsClean, BeginningsAreQuiet, WholeTenantsAreCondemned,
         ResultsStay, VerdictsAreBased, Next
  PROVE  ResultsStay'
<1> SUFFICES ASSUME NEW r \in Safe', row'[r] = "succeeded"
             PROVE  /\ Last(r) \in outcomes'[r] /\ Last(r) \in artifacts'
                    /\ \A p \in Remover : Last(r) \notin artifactIds'[p]
  BY DEF ResultsStay, Last
<1>1. r \in Safe /\ r \in Run /\ r \notin exposed' \union condemned'
  BY SafeShrinks DEF Safe
<1>2. CASE row[r] = "succeeded"
  <2>1. /\ Last(r) \in outcomes[r] /\ Last(r) \in artifacts
        /\ \A p \in Remover : Last(r) \notin artifactIds[p]
    BY <1>1, <1>2 DEF ResultsStay
  <2>2. Last(r) \in outcomes'[r]
    BY <1>1, <2>1, OutcomesStep
  <2>3. Last(r) \in artifacts'
    <3>1. ASSUME NEW p \in Remover, DeleteArtifact(p) PROVE Last(r) \in artifacts'
      BY <2>1, <3>1 DEF DeleteArtifact
    <3>2. ASSUME NEW p \in Remover, DeletePrefix(p) PROVE FALSE
      BY <1>1, <1>2, <3>2 DEF DeletePrefix, ByPrefix, WholeTenantsAreCondemned
    <3>3. ASSUME NEW w \in Worker, Stage(w) PROVE artifacts \subseteq artifacts'
      BY <3>3 DEF Stage
    <3> QED
      BY <2>1, <3>1, <3>2, <3>3, AroundWriters
         DEF stores, Upload, ExtractOutside, FindDocument, Submit, AdmitCheck,
             RecordCheck, Tick, DeleteBlob, Purge
  <2>4. ASSUME NEW p \in Remover PROVE Last(r) \notin artifactIds'[p]
    <3>1. CASE Survivors(p)
      <4>1. r \in Survivor(p)
        BY <1>1, <1>2, <3>1 DEF Survivors, Survivor, InTable
      <4>2. Last(r) \in Kept(p)
        BY <2>1, <4>1 DEF Kept
      <4> QED BY <3>1, <4>2 DEF Survivors, TypeOK, RemovalOK
    <3>2. CASE ~ Survivors(p)
      BY <2>1, <3>2, TodoStep
    <3> QED BY <3>1, <3>2
  <2> QED BY <2>2, <2>3, <2>4
<1>3. CASE row[r] # "succeeded"
  <2>1. PICK w \in Worker : /\ Finish(w) /\ job[w] = r /\ verdict[w] = "succeeded"
                            /\ outcomes'[r] = Named(w)
    BY <1>1, <1>3, RunsSucceed
  <2>2. stage[w] = Len(Chain[r]) /\ Last(r) \in artifacts
    BY <1>1, <2>1 DEF VerdictsAreBased, Finish
  <2>3. Last(r) \in Named(w)
    <3>1. Len(Chain[r]) \in Nat \ {0}
      BY <1>1, RunsHaveChains
    <3> QED BY <2>1, <2>2, <3>1 DEF Named, Last
  <2>4. r \in UnderWay \ exposed
    <3>1. job[w] # None
      BY <2>1 DEF Finish, TypeOK, AttemptOK
    <3> QED BY <1>1, <2>1, <3>1 DEF UnderWay, Safe
  <2> QED BY <2>1, <2>2, <2>3, <2>4, NothingIsDeleted
<1> QED BY <1>2, <1>3

LEMMA VerdictsStep ==
  ASSUME TypeOK, RestIsClean, BeginningsAreQuiet, VerdictsAreBased, Next
  PROVE  VerdictsAreBased'
<1> USE DEF TypeOK, AttemptOK
<1> SUFFICES ASSUME NEW w \in Worker
             PROVE  /\ pc'[w] = "check" => stage'[w] = Len(Chain[job'[w]])
                    /\ pc'[w] = "finish" /\ verdict'[w] = "succeeded" =>
                         /\ stage'[w] = Len(Chain[job'[w]])
                         /\ job'[w] \in Safe' => Last(job'[w]) \in artifacts'
  BY DEF VerdictsAreBased, Last
<1>0. CASE pc'[w] = pc[w] /\ stage'[w] = stage[w] /\ job'[w] = job[w] /\ verdict'[w] = verdict[w]
  <2>1. ASSUME pc[w] = "finish", verdict[w] = "succeeded", job[w] \in Safe'
        PROVE  Last(job[w]) \in artifacts'
    <3>1. job[w] \in Safe /\ Last(job[w]) \in artifacts
      BY <2>1, SafeShrinks DEF VerdictsAreBased
    <3>2. job[w] \in UnderWay \ exposed
      BY <2>1, <3>1 DEF UnderWay, Safe
    <3> QED BY <3>1, <3>2, NothingIsDeleted
  <2> QED BY <1>0, <2>1 DEF VerdictsAreBased
<1>1. CASE pc'[w] \notin {"check", "finish"} \/ (pc'[w] = "finish" /\ verdict'[w] # "succeeded")
  BY <1>1
<1>2. CASE Stage(w)
  <2>1. pc'[w] = "check" => stage[w] + 1 = Len(Chain[job[w]])
    BY <1>2 DEF Stage, To
  <2>2. pc'[w] \in {"check", "boundary"} /\ stage'[w] = stage[w] + 1 /\ job' = job
    BY <1>2 DEF Stage, To
  <2> QED BY <2>1, <2>2
<1>3. CASE Check(w)
  <2>1. /\ pc[w] = "check" /\ UNCHANGED <<job, stage, artifacts>>
        /\ Retrievable(Last(job[w])) \/ Report(w, "failed")
    BY <1>3 DEF Check, stores
  <2>2. stage[w] = Len(Chain[job[w]])
    BY <2>1 DEF VerdictsAreBased
  <2>3. CASE Report(w, "failed")
    BY <2>3 DEF Report, To
  <2>4. CASE Retrievable(Last(job[w])) /\ ~ Report(w, "failed")
    <3>1. Report(w, "succeeded")
      BY <1>3, <2>4 DEF Check
    <3>2. pc'[w] = "finish"
      BY <3>1 DEF Report, To
    <3> QED BY <2>1, <2>2, <2>4, <3>2 DEF Retrievable
  <2> QED BY <2>1, <2>3, <2>4
<1>4. CASE Fetch(w) \/ Boundary(w) \/ StageFails(w)
  BY <1>1, <1>4 DEF Fetch, Boundary, StageFails, Report, To
<1>5. CASE Leave(w)
  BY <1>1, <1>5 DEF Leave, To
<1>6. ASSUME NEW r \in Run, Claim(w, r) PROVE pc'[w] = "fetch"
  BY <1>6 DEF Claim, To
<1>7. ASSUME NEW v \in Worker, v # w,
             \/ Fetch(v) \/ Boundary(v) \/ Stage(v) \/ StageFails(v) \/ Check(v)
             \/ Finish(v) \/ Release(v) \/ Stop(v) \/ \E r \in Run : Claim(v, r)
      PROVE  pc'[w] = pc[w] /\ stage'[w] = stage[w] /\ job'[w] = job[w] /\ verdict'[w] = verdict[w]
  BY <1>7 DEF Fetch, Boundary, Stage, StageFails, Check, Finish, Release, Stop, Claim,
              Report, Leave, To
<1>8. CASE UNCHANGED attempt
  BY <1>0, <1>8 DEF attempt
<1>9. Finish(w) \/ Release(w) \/ Stop(w) => Leave(w)
  BY DEF Finish, Release, Stop
<1>10. \/ UNCHANGED attempt
       \/ \E v \in Worker : \/ Fetch(v) \/ Boundary(v) \/ Stage(v) \/ StageFails(v) \/ Check(v)
                            \/ Finish(v) \/ Release(v) \/ Stop(v) \/ \E r \in Run : Claim(v, r)
  BY AttemptWriters
<1> QED BY <1>0, <1>1, <1>2, <1>3, <1>4, <1>5, <1>6, <1>7, <1>8, <1>9, <1>10

-----------------------------------------------------------------------------
(* The theorem                                                             *)

LEMMA ContentStart == Init => ContentInv
<1> SUFFICES ASSUME Init PROVE ContentInv
  OBVIOUS
<1>1. RestIsClean /\ BeginningsAreQuiet /\ WholeTenantsAreCondemned
  BY DEF Init, RestIsClean, BeginningsAreQuiet, WholeTenantsAreCondemned
<1>2. DocumentsStay /\ ResultsStay /\ VerdictsAreBased
  BY DEF Init, DocumentsStay, ResultsStay, VerdictsAreBased, Safe
<1> QED BY <1>1, <1>2 DEF ContentInv

LEMMA ContentStep == IInv /\ ContentInv /\ [Next]_vars => ContentInv'
<1> SUFFICES ASSUME IInv, ContentInv, [Next]_vars PROVE ContentInv'
  OBVIOUS
<1> USE DEF ContentInv
<1>1. CASE Next
  <2>1. RestIsClean' /\ BeginningsAreQuiet' /\ WholeTenantsAreCondemned'
    BY <1>1, RestStep, QuietStep, TenantsStep DEF IInv
  <2>2. DocumentsStay' /\ ResultsStay' /\ VerdictsAreBased'
    BY <1>1, DocumentsStep, ResultsStep, VerdictsStep DEF IInv
  <2> QED BY <2>1, <2>2
<1>2. CASE UNCHANGED vars
  BY <1>2 DEF vars, table, stores, clients, attempt, removal, plan, todo, history,
     RestIsClean, BeginningsAreQuiet, WholeTenantsAreCondemned, DocumentsStay,
     ResultsStay, VerdictsAreBased, Safe, UnderWay, Last
<1> QED BY <1>1, <1>2

\* A run no removal set out to remove keeps its document while it may execute
\* and its result once it succeeded, unless it was being submitted or executed
\* while a removal was under way (sweep and _erase, retention.py).
THEOREM ContentIsSafe == Spec => []ContentOutlivesRemovals
<1>1. ContentInv => ContentOutlivesRemovals
  BY DEF ContentInv, DocumentsStay, ResultsStay, Safe, ContentOutlivesRemovals
<1>2. Spec => []ContentInv
  BY ContentStart, ContentStep, Invariance, PTL DEF Spec
<1> QED BY <1>1, <1>2, PTL

-----------------------------------------------------------------------------
(***************************************************************************)
(* Where one process removes, sweeps leave nothing behind, however often   *)
(* they are cut short: of what a swept run named, every artifact has been  *)
(* deleted or is still named by a run that a later sweep can find.         *)
(***************************************************************************)

\* Some run that no sweep has removed, other than those S, names the artifact.
NamedBeside(a, S) == \E q \in Run \ S : tombstone[q] # "retention" /\ a \in outcomes[q]

\* A sweep has read all that the runs it is to remove name: they had ended.
CopiesAreWhole ==
  \A p \in Remover : scope[p] = "sweep" =>
    \A r \in doomed[p] \union more[p] : outcomes[r] \subseteq copy[p][r]

\* It passes from artifacts to documents when no artifact is left to delete.
ArtifactsFirst ==
  \A p \in Remover : rpc[p] \in {"blobs", "entomb"} /\ scope[p] = "sweep" => artifactIds[p] = {}

\* Between the difference and the tombstones nothing a sweep took on is lost.
SweepsAccountForAll ==
  \A p \in Remover : rpc[p] \in {"artifacts", "blobs", "entomb"} /\ scope[p] = "sweep" =>
    \A a \in Candidates(p) : a \in artifactIds[p] \union deleted \/ NamedBeside(a, doomed[p])

\* Whether an artifact is in the store does not matter: it may be computed anew.
SweptAreAccountedFor ==
  \A r \in Run : tombstone[r] = "retention" =>
    \A a \in outcomes[r] : a \in deleted \/ NamedBeside(a, {})

\* Inductive, together with IInv and RestIsClean.
SweepInv ==
  RestIsClean /\ CopiesAreWhole /\ ArtifactsFirst /\ SweepsAccountForAll /\ SweptAreAccountedFor

-----------------------------------------------------------------------------
(* What a step leaves alone                                                *)

LEMMA EndedOutcomesStay ==
  ASSUME TypeOK, Next, NEW r \in Run, row[r] \in Ended \union {"gone"}
  PROVE  outcomes'[r] = outcomes[r]
<1>1. \/ UNCHANGED outcomes
      \/ \E w \in Worker : Finish(w) /\ Holds(w)
  BY TableWriters DEF table, Submit, Cancel, Abandon, Claim, Finish, Release, Entomb,
                      CancelNext
<1>2. ASSUME NEW w \in Worker, Finish(w), Holds(w) PROVE outcomes'[r] = outcomes[r]
  <2>1. r # job[w]
    BY <1>2 DEF Holds, Ended
  <2> QED BY <1>2, <2>1 DEF Finish, TypeOK, TableOK
<1> QED BY <1>1, <1>2

LEMMA DeletedGrows ==
  ASSUME TypeOK, Next
  PROVE  deleted \subseteq deleted'
BY HistoryWriters
   DEF TypeOK, HistoryOK, history, ExtractOutside, FindDocument, RecordCheck, Claim, Sweep,
       Survivors, DeleteArtifact, DeletePrefix, Erase, Purge

LEMMA EntombWrites ==
  ASSUME Next, NEW r \in Run, tombstone'[r] # tombstone[r]
  PROVE  \E p \in Remover : Entomb(p) /\ r \in doomed[p] /\ InTable(r)
<1>1. PICK p \in Remover : Entomb(p)
  BY TableWriters DEF table, Submit, Cancel, Abandon, Claim, Finish, Release, CancelNext
<1> QED BY <1>1 DEF Entomb

\* A run names what it named, and is out of reach of a sweep not meant for it.
LEMMA NamedStays ==
  ASSUME TypeOK, OutcomesAreFinal, Next, NEW a, NEW S, NamedBeside(a, S),
         \A p \in Remover : Entomb(p) => doomed[p] \subseteq S
  PROVE  NamedBeside(a, S)'
<1>1. PICK q \in Run \ S : tombstone[q] # "retention" /\ a \in outcomes[q]
  BY DEF NamedBeside
<1>2. a \in outcomes'[q]
  BY <1>1, OutcomesStep
<1>3. tombstone'[q] = tombstone[q]
  BY <1>1, EntombWrites
<1> QED BY <1>1, <1>2, <1>3 DEF NamedBeside

-----------------------------------------------------------------------------
(* What a sweep has read                                                   *)

LEMMA ReadsCopy ==
  ASSUME TypeOK, NEW p \in Remover, NEW S, Reads(p, S), NEW q \in Remover, NEW r \in Run
  PROVE  copy'[q][r] = IF q = p /\ r \in S THEN outcomes[r] ELSE copy[q][r]
<1> DEFINE read == [x \in Run |-> IF x \in S THEN outcomes[x] ELSE copy[p][x]]
<1>1. copy' = [copy EXCEPT ![p] = read]
  BY DEF Reads
<1>2. read[r] = IF r \in S THEN outcomes[r] ELSE copy[p][r]
  OBVIOUS
<1> HIDE DEF read
<1>3. copy'[q] = IF q = p THEN read ELSE copy[q]
  BY <1>1 DEF TypeOK, RemovalOK
<1> QED BY <1>2, <1>3

LEMMA WholeStep ==
  ASSUME TypeOK, SweptRunsEnded, RestIsClean, CopiesAreWhole, Next
  PROVE  CopiesAreWhole'
<1> USE DEF TypeOK, RemovalOK
<1> SUFFICES ASSUME NEW q \in Remover, scope'[q] = "sweep",
                    NEW r \in doomed'[q] \union more'[q]
             PROVE  outcomes'[r] \subseteq copy'[q][r]
  BY DEF CopiesAreWhole
<1>0. r \in Run
  BY RemovalStep
<1>1. outcomes'[r] = outcomes[r]
  <2>1. row[r] \in Ended \union {"gone"}
    BY PlansStep, RemovableIsDue DEF SweptRunsEnded
  <2> QED BY <1>0, <2>1, EndedOutcomesStay
<1>2. CASE /\ scope[q] = "sweep" /\ r \in doomed[q] \union more[q]
           /\ copy'[q][r] = copy[q][r] \/ copy'[q][r] = outcomes[r]
  BY <1>1, <1>2 DEF CopiesAreWhole
<1>3. ASSUME NEW p \in Remover, Done(p) PROVE outcomes'[r] \subseteq copy'[q][r]
  <2>1. q # p
    BY <1>3, DoneEmpties
  <2>2. /\ scope[q] = "sweep" /\ r \in doomed[q] \union more[q]
    BY <1>3, <2>1, DoneEmpties
  <2>3. copy'[q] = copy[q]
    BY <1>3, <2>1 DEF Done
  <2> QED BY <1>2, <2>2, <2>3
<1>4. ASSUME NEW p \in Remover, Sweep(p) PROVE outcomes'[r] \subseteq copy'[q][r]
  <2>1. PICK e \in Oldest(Removable, Batch) : doomed' = [doomed EXCEPT ![p] = e] /\ Reads(p, e)
    BY <1>4 DEF Sweep
  <2>2. UNCHANGED <<scope, more>>
    BY <1>4 DEF Sweep
  <2>3. copy'[q][r] = IF q = p /\ r \in e THEN outcomes[r] ELSE copy[q][r]
    BY <1>0, <2>1, ReadsCopy
  <2>4. CASE q = p /\ r \in e
    BY <1>1, <2>3, <2>4
  <2>5. CASE ~ (q = p /\ r \in e)
    <3>1. r \in doomed[q] \union more[q]
      BY <2>1, <2>2, <2>5
    <3> QED BY <1>2, <2>2, <2>3, <3>1
  <2> QED BY <2>4, <2>5
<1>5. ASSUME NEW p \in Remover, Refill(p) PROVE outcomes'[r] \subseteq copy'[q][r]
  <2>1. PICK e \in Oldest(Others(p), Batch - Cardinality(doomed[p])) :
          more' = [more EXCEPT ![p] = e] /\ Reads(p, e)
    BY <1>5 DEF Refill
  <2>2. UNCHANGED <<scope, doomed>>
    BY <1>5 DEF Refill
  <2>3. copy'[q][r] = IF q = p /\ r \in e THEN outcomes[r] ELSE copy[q][r]
    BY <1>0, <2>1, ReadsCopy
  <2>4. CASE q = p /\ r \in e
    BY <1>1, <2>3, <2>4
  <2>5. CASE ~ (q = p /\ r \in e)
    <3>1. r \in doomed[q] \union more[q]
      BY <2>1, <2>2, <2>5
    <3> QED BY <1>2, <2>2, <2>3, <3>1
  <2> QED BY <2>4, <2>5
<1>6. ASSUME NEW p \in Remover, PinsAgain(p) PROVE outcomes'[r] \subseteq copy'[q][r]
  <2> DEFINE all == doomed[p] \union Admitted(more[p])
  <2>1. CASE all = {}
    BY <1>3, <1>6, <2>1 DEF PinsAgain
  <2>2. CASE all # {}
    <3>1. doomed' = [doomed EXCEPT ![p] = all] /\ UNCHANGED <<scope, more, copy>>
      BY <1>6, <2>2 DEF PinsAgain
    <3>2. all \subseteq doomed[p] \union more[p]
      BY DEF Admitted
    <3> HIDE DEF all
    <3>3. r \in doomed[q] \union more[q]
      BY <3>1, <3>2
    <3> QED BY <1>2, <3>1, <3>3
  <2> QED BY <2>1, <2>2
<1>7. ASSUME NEW p \in Remover, NEW s \in Erasable, Erase(p, s)
      PROVE  outcomes'[r] \subseteq copy'[q][r]
  <2> DEFINE runs == {x \in Run : InTable(x) /\ s \in Tenant \union {Document[x]}}
  <2>0. s # "sweep"
    BY ConstantAssumption DEF Tenant
  <2>1. scope' = [scope EXCEPT ![p] = s] /\ UNCHANGED more
    BY <1>7 DEF Erase
  <2>2. q # p
    BY <2>0, <2>1
  <2>3. Reads(p, runs) /\ doomed'[q] = doomed[q]
    BY <1>7, <2>2 DEF Erase
  <2> HIDE DEF runs
  <2>4. copy'[q][r] = copy[q][r]
    BY <1>0, <2>2, <2>3, ReadsCopy
  <2> QED BY <1>2, <2>1, <2>2, <2>3, <2>4
<1>8. ASSUME NEW p \in Remover, Pins(p) PROVE outcomes'[r] \subseteq copy'[q][r]
  <2>1. UNCHANGED <<scope, more, copy>> /\ doomed' = [doomed EXCEPT ![p] = @ \ Pinned(@)]
    BY <1>8 DEF Pins
  <2>2. r \in doomed[q] \union more[q]
    BY <2>1
  <2> QED BY <1>2, <2>1, <2>2
<1>9. ASSUME NEW p \in Remover, Entomb(p) \/ Purge(p) \/ Interrupt(p)
      PROVE  outcomes'[r] \subseteq copy'[q][r]
  <2>1. Done(p) \/ UNCHANGED <<scope, doomed, more, copy>>
    BY <1>9 DEF Entomb, Purge, Interrupt, AfterError, plan
  <2>2. CASE UNCHANGED <<scope, doomed, more, copy>>
    BY <1>2, <2>2
  <2> QED BY <2>1, <2>2, <1>3
<1>10. CASE UNCHANGED <<scope, doomed, more, copy>>
  BY <1>2, <1>10
<1>11. UNCHANGED <<scope, doomed, more>> /\ ~ UNCHANGED copy =>
         \E p \in Remover :
           \/ Sweep(p) \/ Refill(p) \/ PinsAgain(p) \/ Entomb(p) \/ Purge(p) \/ Interrupt(p)
           \/ \E s \in Erasable : Erase(p, s)
  BY CopyWriters
<1> QED
  BY <1>4, <1>5, <1>6, <1>7, <1>8, <1>9, <1>10, <1>11, PlanWriters

-----------------------------------------------------------------------------
(* What a sweep deletes                                                    *)

Acting(p) == rpc[p] \in {"artifacts", "blobs", "entomb"} /\ scope[p] = "sweep"

\* A sweep comes to its deletions by the difference alone, and crosses off what
\* it has deleted; it goes on to the documents when nothing is left.
LEMMA ActingStep ==
  ASSUME TypeOK, Next, NEW q \in Remover, Acting(q)', ~ Survivors(q)
  PROVE  /\ Acting(q) /\ doomed'[q] = doomed[q] /\ copy'[q] = copy[q]
         /\ artifactIds'[q] \subseteq artifactIds[q]
         /\ artifactIds[q] \subseteq artifactIds'[q] \union deleted'
         /\ rpc'[q] # "artifacts" => rpc[q] # "artifacts" \/ artifactIds[q] = {}
<1> DEFINE Goal == /\ Acting(q) /\ doomed'[q] = doomed[q] /\ copy'[q] = copy[q]
                   /\ artifactIds'[q] \subseteq artifactIds[q]
                   /\ artifactIds[q] \subseteq artifactIds'[q] \union deleted'
                   /\ rpc'[q] # "artifacts" => rpc[q] # "artifacts" \/ artifactIds[q] = {}
<1> USE DEF TypeOK, RemovalOK
<1>0. CASE /\ rpc'[q] = rpc[q] /\ scope'[q] = scope[q] /\ doomed'[q] = doomed[q]
           /\ copy'[q] = copy[q] /\ artifactIds'[q] = artifactIds[q]
  BY <1>0 DEF Acting
<1>1. CASE UNCHANGED removal
  BY <1>0, <1>1 DEF removal, plan, todo
<1>2. ASSUME NEW p \in Remover, Done(p) PROVE Goal
  <2>1. q # p
    BY <1>2 DEF Done, At, Acting
  <2> QED BY <1>0, <1>2, <2>1 DEF Done, At
<1>3. ASSUME NEW p \in Remover, Sweep(p) \/ Pins(p) \/ Refill(p) \/ CancelNext(p)
      PROVE  Goal
  <2>1. q # p
    BY <1>3 DEF Sweep, Pins, Refill, CancelNext, At, Acting
  <2> QED BY <1>0, <1>3, <2>1 DEF Sweep, Pins, Refill, CancelNext, At, Reads, todo
<1>4. ASSUME NEW p \in Remover, NEW s \in Erasable, Erase(p, s) PROVE Goal
  <2>1. q # p
    BY <1>4 DEF Erase, At, Acting
  <2> QED BY <1>0, <1>4, <2>1 DEF Erase, At, Reads, todo
<1>5. ASSUME NEW p \in Remover, PinsAgain(p) PROVE Goal
  <2>1. CASE Done(p)
    BY <1>2, <2>1
  <2>2. CASE ~ Done(p)
    <3> DEFINE all == doomed[p] \union Admitted(more[p])
    <3>1. /\ doomed' = [doomed EXCEPT ![p] = all] /\ At(p, "survivors")
          /\ UNCHANGED <<scope, copy, todo>>
      BY <1>5, <2>2 DEF PinsAgain
    <3> HIDE DEF all
    <3>2. q # p
      BY <3>1 DEF At, Acting
    <3> QED BY <1>0, <3>1, <3>2 DEF At, todo
  <2> QED BY <2>1, <2>2
<1>6. ASSUME NEW p \in Remover, Survivors(p) PROVE Goal
  <2>1. q # p
    BY <1>6
  <2> QED BY <1>0, <1>6, <2>1 DEF Survivors, At, plan
<1>7. ASSUME NEW p \in Remover, DeleteArtifact(p) PROVE Goal
  <2>1. PICK a \in artifactIds[p] : /\ artifactIds' = [artifactIds EXCEPT ![p] = @ \ {a}]
                                    /\ deleted' = deleted \union {a}
    BY <1>7 DEF DeleteArtifact
  <2>2. UNCHANGED <<rpc, scope, doomed, copy>>
    BY <1>7 DEF DeleteArtifact, plan
  <2> QED BY <2>1, <2>2 DEF Acting
<1>8. ASSUME NEW p \in Remover, DeleteBlob(p) PROVE Goal
  BY <1>0, <1>8 DEF DeleteBlob, plan
<1>9. ASSUME NEW p \in Remover, DeletePrefix(p) PROVE Goal
  <2>1. scope[p] = "tenant" /\ UNCHANGED <<scope, doomed, copy, artifactIds>>
    BY <1>9 DEF DeletePrefix, ByPrefix, plan, todo
  <2>2. q # p
    BY <2>1 DEF Acting
  <2>3. rpc'[q] = rpc[q]
    BY <1>9, <2>2 DEF DeletePrefix, At
  <2> QED BY <1>0, <2>1, <2>3
<1>10. ASSUME NEW p \in Remover, AllCancelled(p) PROVE Goal
  <2>1. UNCHANGED <<scope, doomed, copy, artifactIds>>
    BY <1>10 DEF AllCancelled, plan, todo
  <2>2. q # p
    BY <1>10, <2>1 DEF AllCancelled, At, ByPrefix, Acting
  <2> QED BY <1>0, <1>10, <2>1, <2>2 DEF AllCancelled, At
<1>11. ASSUME NEW p \in Remover, AllDeleted(p) PROVE Goal
  <2>1. UNCHANGED <<scope, doomed, copy, artifactIds>>
    BY <1>11 DEF AllDeleted, plan, todo
  <2>2. CASE q # p
    BY <1>0, <1>11, <2>1, <2>2 DEF AllDeleted, At
  <2>3. CASE q = p
    BY <1>11, <2>1, <2>3 DEF AllDeleted, At, Acting
  <2> QED BY <2>2, <2>3
<1>12. ASSUME NEW p \in Remover, Entomb(p) \/ Purge(p) \/ Interrupt(p) PROVE Goal
  <2>1. Done(p) \/ (At(p, "purge") /\ UNCHANGED <<scope, plan, todo>>)
    BY <1>12 DEF Entomb, Purge, Interrupt, AfterError
  <2>2. CASE At(p, "purge") /\ UNCHANGED <<scope, plan, todo>>
    <3>1. q # p
      BY <2>2 DEF At, Acting
    <3> QED BY <1>0, <2>2, <3>1 DEF At, plan, todo
  <2> QED BY <1>2, <2>1, <2>2
<1> HIDE DEF Goal
<1>13. Goal
  BY <1>1, <1>3, <1>4, <1>5, <1>6, <1>7, <1>8, <1>9, <1>10, <1>11, <1>12, RemovalWriters
     DEF Goal
<1> QED BY <1>13 DEF Goal

LEMMA FirstStep ==
  ASSUME TypeOK, ArtifactsFirst, Next
  PROVE  ArtifactsFirst'
<1> SUFFICES ASSUME NEW q \in Remover, rpc'[q] \in {"blobs", "entomb"}, scope'[q] = "sweep"
             PROVE  artifactIds'[q] = {}
  BY DEF ArtifactsFirst
<1>1. ~ Survivors(q)
  BY DEF Survivors, At, TypeOK, RemovalOK
<1>2. /\ Acting(q) /\ artifactIds'[q] \subseteq artifactIds[q]
      /\ rpc[q] # "artifacts" \/ artifactIds[q] = {}
  BY <1>1, ActingStep DEF Acting
<1> QED BY <1>2 DEF Acting, ArtifactsFirst

-----------------------------------------------------------------------------
(* One process that removes                                                *)

\* What survivors subtracts is named by a run the sweep is not to remove; what
\* it does not subtract is deleted before it goes on.
LEMMA AccountStep ==
  ASSUME TypeOK, OutcomesAreFinal, SweepsAccountForAll, Next, NEW q, Remover = {q}
  PROVE  SweepsAccountForAll'
<1> SUFFICES ASSUME Acting(q)', NEW a \in Candidates(q)'
             PROVE  a \in artifactIds'[q] \union deleted' \/ NamedBeside(a, doomed[q])'
  BY DEF SweepsAccountForAll, Acting
<1>1. CASE Survivors(q)
  <2>1. UNCHANGED <<doomed, copy, outcomes, tombstone>>
    BY <1>1 DEF Survivors, plan, table
  <2>2. a \in Candidates(q) /\ artifactIds'[q] = Candidates(q) \ Kept(q)
    BY <1>1, <2>1 DEF Survivors, Candidates, TypeOK, RemovalOK
  <2>3. CASE a \in Kept(q)
    <3>1. PICK r \in Survivor(q) : a \in outcomes[r]
      BY <2>3 DEF Kept
    <3>2. r \in Run \ doomed[q] /\ tombstone[r] # "retention"
      BY <3>1 DEF Survivor, InTable, TypeOK, TableOK
    <3> QED BY <2>1, <3>1, <3>2 DEF NamedBeside
  <2> QED BY <2>2, <2>3
<1>2. CASE ~ Survivors(q)
  <2>1. /\ Acting(q) /\ doomed'[q] = doomed[q] /\ copy'[q] = copy[q]
        /\ artifactIds[q] \subseteq artifactIds'[q] \union deleted'
    BY <1>2, ActingStep
  <2>2. a \in Candidates(q)
    BY <2>1 DEF Candidates
  <2>3. a \in artifactIds[q] \union deleted \/ NamedBeside(a, doomed[q])
    BY <2>1, <2>2 DEF SweepsAccountForAll, Acting
  <2>4. CASE NamedBeside(a, doomed[q])
    <3>1. PICK S : S = doomed[q]
      OBVIOUS
    <3>2. NamedBeside(a, S)'
      BY <2>4, <3>1, NamedStays
    <3> QED BY <2>1, <3>1, <3>2 DEF NamedBeside
  <2> QED BY <2>1, <2>3, <2>4, DeletedGrows
<1> QED BY <1>1, <1>2

\* What the runs a sweep is about to entomb name has been seen to.
LEMMA NothingIsLeft ==
  ASSUME CopiesAreWhole, ArtifactsFirst, SweepsAccountForAll,
         NEW q \in Remover, Entomb(q), scope[q] = "sweep",
         NEW r \in doomed[q], NEW a \in outcomes[r]
  PROVE  a \in deleted \/ NamedBeside(a, doomed[q])
<1>1. rpc[q] = "entomb"
  BY DEF Entomb
<1>2. a \in Candidates(q)
  BY DEF CopiesAreWhole, Candidates
<1> QED BY <1>1, <1>2 DEF ArtifactsFirst, SweepsAccountForAll

LEMMA SweptNamesStep ==
  ASSUME TypeOK, OutcomesAreFinal, SweptRunsEnded, CopiesAreWhole, ArtifactsFirst,
         SweepsAccountForAll, SweptAreAccountedFor, Next, NEW q, Remover = {q}
  PROVE  SweptAreAccountedFor'
<1> SUFFICES ASSUME NEW r \in Run, tombstone'[r] = "retention", NEW a \in outcomes'[r]
             PROVE  a \in deleted' \/ NamedBeside(a, {})'
  BY DEF SweptAreAccountedFor
<1>1. tombstone[r] = "retention" \/ (Entomb(q) /\ scope[q] = "sweep" /\ r \in doomed[q])
  BY SweepsEntombTheDue
<1>2. a \in outcomes[r]
  <2>1. row[r] \in Ended \union {"gone"}
    BY SweepsEntombTheDue DEF TypeOK, TableOK
  <2> QED BY <2>1, EndedOutcomesStay
<1>3. CASE Entomb(q) /\ scope[q] = "sweep"
  <2>1. a \in deleted \/ NamedBeside(a, doomed[q])
    <3>1. CASE r \in doomed[q]
      BY <1>2, <1>3, <3>1, NothingIsLeft
    <3>2. CASE tombstone[r] = "retention" /\ a \notin deleted
      <4>1. PICK x \in Run : tombstone[x] # "retention" /\ a \in outcomes[x]
        BY <1>2, <3>2 DEF SweptAreAccountedFor, NamedBeside
      <4>2. CASE x \in doomed[q]
        BY <1>3, <4>1, <4>2, NothingIsLeft
      <4>3. CASE x \notin doomed[q]
        BY <4>1, <4>3 DEF NamedBeside
      <4> QED BY <4>2, <4>3
    <3> QED BY <1>1, <3>1, <3>2
  <2>2. PICK S : S = doomed[q]
    OBVIOUS
  <2>3. NamedBeside(a, doomed[q]) => NamedBeside(a, S)'
    BY <2>2, NamedStays
  <2>4. NamedBeside(a, S)' => NamedBeside(a, {})'
    BY DEF NamedBeside
  <2> QED BY <2>1, <2>3, <2>4, DeletedGrows
<1>4. CASE ~ (Entomb(q) /\ scope[q] = "sweep")
  <2>1. a \in deleted \/ NamedBeside(a, {})
    BY <1>1, <1>2, <1>4 DEF SweptAreAccountedFor
  <2>2. ASSUME NEW x \in Run, tombstone[x] # "retention", a \in outcomes[x]
        PROVE  NamedBeside(a, {})'
    <3>1. tombstone'[x] # "retention"
      BY <1>4, <2>2, SweepsEntombTheDue
    <3> QED BY <2>2, <3>1, OutcomesStep DEF NamedBeside
  <2> QED BY <2>1, <2>2, DeletedGrows DEF NamedBeside
<1> QED BY <1>3, <1>4

LEMMA SweepInvStart == Init => SweepInv
<1> SUFFICES ASSUME Init PROVE SweepInv
  OBVIOUS
<1>1. RestIsClean
  BY ContentStart DEF ContentInv
<1>2. CopiesAreWhole /\ ArtifactsFirst /\ SweepsAccountForAll /\ SweptAreAccountedFor
  BY DEF Init, CopiesAreWhole, ArtifactsFirst, SweepsAccountForAll, SweptAreAccountedFor
<1> QED BY <1>1, <1>2 DEF SweepInv

LEMMA SweepInvStep ==
  ASSUME NEW p, Remover = {p}, IInv, SweepInv, [Next]_vars
  PROVE  SweepInv'
<1> USE DEF SweepInv
<1>1. CASE Next
  <2>1. RestIsClean' /\ CopiesAreWhole' /\ ArtifactsFirst'
    BY <1>1, RestStep, WholeStep, FirstStep DEF IInv
  <2>2. SweepsAccountForAll' /\ SweptAreAccountedFor'
    BY <1>1, AccountStep, SweptNamesStep DEF IInv
  <2> QED BY <2>1, <2>2
<1>2. CASE UNCHANGED vars
  <2>1. RestIsClean' /\ CopiesAreWhole' /\ ArtifactsFirst'
    BY <1>2 DEF vars, table, removal, plan, todo, RestIsClean, CopiesAreWhole, ArtifactsFirst
  <2>2. SweepsAccountForAll' /\ SweptAreAccountedFor'
    BY <1>2 DEF vars, table, removal, plan, todo, history, SweepsAccountForAll,
       SweptAreAccountedFor, NamedBeside, Candidates
  <2> QED BY <2>1, <2>2
<1> QED BY <1>1, <1>2

\* With one process that removes, of the runs that were swept no artifact is
\* left that no other run names, unless somebody computed it anew: _remove
\* (retention.py) deletes content before rows, and a sweep that was cut short
\* leaves the rows it was to remove, from which the next one starts.
THEOREM NothingIsEverStranded ==
  ASSUME NEW p, Remover = {p}
  PROVE  Spec => []NothingIsStranded
<1>1. SweepInv => NothingIsStranded
  BY DEF SweepInv, SweptAreAccountedFor, NamedBeside, NothingIsStranded
<1>2. IInv /\ SweepInv /\ [Next]_vars => SweepInv'
  BY SweepInvStep
<1>3. Spec => []SweepInv
  BY <1>2, SweepInvStart, Invariance, PTL DEF Spec
<1> QED BY <1>1, <1>3, PTL

=============================================================================
