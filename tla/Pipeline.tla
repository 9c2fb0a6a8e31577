------------------------------- MODULE Pipeline -------------------------------
(***************************************************************************)
(* The four stages over one document (src/docdoc/pipeline/runner.py), as   *)
(* several attempts make them at once over one artifact store: reuse, the  *)
(* degradation of a store that cannot be reached, verification, a model    *)
(* that is not the one asked for, cancellation between stages.             *)
(***************************************************************************)
EXTENDS Naturals, Sequences, FiniteSets, Functions

CONSTANTS
  Attempt,
  Reading,   \* what a parser may make of the bytes: an OCR host need not repeat itself
  Reply,     \* what a model may answer about a document
  Model,     \* models that may answer
  Asked,     \* the one asked for
  Mode,      \* what is asked: "run", "verify" or "ocr", the parse alone
  MaxFaults, \* bound: store faults, failures and cancellations
  Nothing

VARIABLES
  store,     \* what each artifact id names
  attempts,
  removed,   \* history: ids something was ever removed under
  faults
pipelineVars == <<store, attempts, removed, faults>>

Stage == <<"parse", "extract", "ground", "validate">>
Stages == Range(Stage)
Later(s) == {Stage[i] : i \in {j \in 1 .. 4 : \E k \in 1 .. j - 1 : Stage[k] = s}}
Following(s) == Stage[1 + CHOOSE i \in 1 .. 3 : Stage[i] = s]

\* An id folds what went into a stage, never what came out of it: two replies of
\* one model about one document are filed under one id.
Named(s, model) == <<s, IF s \in {"parse", "angles"} THEN Nothing ELSE model>>
Id == {Named(s, model) : s \in Stages \union {"angles"}, model \in Model}

\* A stage's result is what it was made from.
Extracted(reading, reply, model) == [of |-> reading, reply |-> reply, by |-> model]
Grounded(reading, extraction) == [of |-> reading, grounds |-> extraction]
Validated(extraction, grounding) == [of |-> extraction, weighs |-> grounding]
Extraction == [of: Reading, reply: Reply, by: Model]
Grounding == [of: Reading, grounds: Extraction]
Result == Reading \union Extraction \union Grounding \union [of: Extraction, weighs: Grounding]

Verdict == {"running", "complete", "failed", "cancelled", "raised"}
Run == [stage: Stages, doing: {"boundary", "work", "file", "angles", "over"}, mode: Mode, degraded: BOOLEAN,
        model: Model, made: [Stages -> Result \union {Nothing}],
        outcomes: Seq(Stages \X {"executed", "reused", "skipped", "failed"}),
        failed: Stages \union {Nothing}, blamed: Stages \union {Nothing}, verdict: Verdict]
Idle == [doing |-> "idle"]

TypeOK ==
  /\ store \in [Id -> Result \union {Nothing}]
  /\ attempts \in [Attempt -> Run \union {Idle}]
  /\ removed \subseteq Id /\ faults \in 0 .. MaxFaults

Init ==
  /\ store = [i \in Id |-> Nothing]
  /\ attempts = [a \in Attempt |-> Idle]
  /\ removed = {} /\ faults = 0

Begun(mode) ==
  [stage |-> "parse", doing |-> "boundary", mode |-> mode, degraded |-> FALSE, model |-> Asked,
   made |-> [s \in Stages |-> Nothing], outcomes |-> <<>>, failed |-> Nothing, blamed |-> Nothing, verdict |-> "running"]
Begin(a) ==
  /\ attempts[a] = Idle
  /\ \E mode \in Mode : attempts' = [attempts EXCEPT ![a] = Begun(mode)]
  /\ UNCHANGED <<store, removed, faults>>

Become(a, run) == attempts' = [attempts EXCEPT ![a] = run]
Fault == faults < MaxFaults /\ faults' = faults + 1
NoFault == UNCHANGED faults

\* A stage passed: the next one, or the end of the run.
Passed(run, result, status) ==
  LET now == [run EXCEPT !.made[run.stage] = result, !.outcomes = Append(@, <<run.stage, status>>)] IN
  IF run.stage = "validate" \/ run.mode = "ocr" THEN [now EXCEPT !.doing = "over", !.verdict = "complete"]
  ELSE [now EXCEPT !.stage = Following(run.stage), !.doing = "boundary"]
Raised(run) == [run EXCEPT !.doing = "over", !.verdict = "raised"]
Skipped(stages) == [i \in 1 .. Cardinality(stages) |-> <<Stage[4 - Cardinality(stages) + i], "skipped">>]

-----------------------------------------------------------------------------
(* A boundary: cancellation, then the store                                *)

StopAtBoundary(a) ==
  /\ attempts[a].doing = "boundary" /\ Fault
  /\ Become(a, [attempts[a] EXCEPT !.doing = "over", !.verdict = "cancelled",
       !.outcomes = @ \o Skipped({attempts[a].stage} \union Later(attempts[a].stage))])
  /\ UNCHANGED <<store, removed>>

\* The extraction's id is a prediction, of the model asked for.
Expected(run) == Named(run.stage, IF run.stage = "extract" THEN Asked ELSE run.model)

\* Mutant: the next operation tries again.
DegradedOnce(run) == run
\* A degraded store is not tried again, for reading or for writing.
Degraded(run) == [run EXCEPT !.degraded = TRUE]

\* The ids that follow are derived from the extraction found.
Answered(run, found) == IF run.stage = "extract" THEN [run EXCEPT !.model = found.by] ELSE run

Look(a) ==
  LET run == attempts[a] found == store[Expected(run)] work == [run EXCEPT !.doing = "work"] IN
  /\ run.doing = "boundary"
  /\ \/ (run.mode = "verify" \/ run.degraded) /\ Become(a, work) /\ NoFault
     \/ /\ run.mode # "verify" /\ ~run.degraded
        /\ \/ found = Nothing /\ Become(a, work) /\ NoFault
           \/ found # Nothing /\ Become(a, Passed(Answered(run, found), found, "reused")) /\ NoFault
           \/ Become(a, Degraded(work)) /\ Fault     \* unreadable
           \/ found # Nothing /\ Become(a, Raised(run)) /\ Fault  \* corrupt
  /\ UNCHANGED <<store, removed>>

-----------------------------------------------------------------------------
(* A stage                                                                 *)

Outputs(run) ==
  CASE run.stage = "parse" -> Reading
    [] run.stage = "extract" -> {Extracted(run.made["parse"], reply, model) : reply \in Reply, model \in Model}
    [] run.stage = "ground" -> {Grounded(run.made["parse"], run.made["extract"])}
    [] run.stage = "validate" -> {Validated(run.made["extract"], run.made["ground"])}

Execute(a) ==
  LET run == attempts[a] IN
  /\ run.doing = "work"
  /\ \E out \in Outputs(run) :
       Become(a, [Answered(run, out) EXCEPT !.doing = "file", !.made[run.stage] = out])
  /\ UNCHANGED <<store, removed, faults>>

\* Which stage is to blame is read off the layer that declares the exception's
\* class; a class of no layer, an SDK's or the interpreter's, is validation's.
Layer(s) == IF s \in {"parse", "extract"} THEN {s, "validate"} ELSE {s}

\* The parsers translate what they catch; the adapters only what their SDK declares.
Raises(s) == IF s = "extract" THEN Layer(s) ELSE {s}

FailStage(a) ==
  LET run == attempts[a] IN
  /\ run.doing = "work" /\ Fault
  /\ \E blamed \in Raises(run.stage) :
       Become(a, [run EXCEPT !.doing = "over", !.verdict = "failed", !.failed = run.stage, !.blamed = blamed,
                    !.outcomes = @ \o <<<<blamed, "failed">>>> \o Skipped(Later(blamed))])
  /\ UNCHANGED <<store, removed>>

\* What put does: nothing, the write, an ArtifactError, or a degradation.
Files(id, result) == store' = [store EXCEPT ![id] = result]
Agrees(id, result) == store[id] \in {Nothing, result}
\* Mutant: the last write wins.
Overwrites(id, result) == FALSE
ConflictRaises(id, result) == ~Agrees(id, result)
\* Mutant: under the id looked up, whatever model answered.
FilableAlways(run) == TRUE
\* Filed only under the id somebody who asks for this will look up.
Filable(run) == run.stage # "extract" \/ run.model = Asked

\* The parse has its pages' angles filed beside it.
AfterPut(run) ==
  IF run.stage = "parse" THEN [run EXCEPT !.doing = "angles"] ELSE Passed(run, run.made[run.stage], "executed")

File(a) ==
  LET run == attempts[a] result == run.made[run.stage]
      id == IF run.stage = "extract" THEN Named("extract", Asked) ELSE Named(run.stage, run.model) IN
  /\ run.doing = "file"
  /\ \/ (run.degraded \/ ~Filable(run)) /\ Become(a, AfterPut(run)) /\ NoFault /\ UNCHANGED store
     \/ /\ ~run.degraded /\ Filable(run)
        /\ \/ ConflictRaises(id, result) /\ Become(a, Raised(run)) /\ NoFault /\ UNCHANGED store
           \/ ~ConflictRaises(id, result) /\ Files(id, result) /\ Become(a, AfterPut(run)) /\ NoFault
           \/ Become(a, AfterPut(Degraded(run))) /\ Fault /\ UNCHANGED store   \* unwritable
  /\ UNCHANGED removed

\* A conflict over the angles costs the viewer its turn and the run nothing.
FileAngles(a) ==
  LET run == attempts[a] result == run.made["parse"] id == Named("angles", Asked)
      next == Passed(run, result, "executed") IN
  /\ run.doing = "angles"
  /\ \/ Become(a, next) /\ NoFault
        /\ IF run.degraded \/ ~Agrees(id, result) THEN UNCHANGED store ELSE Files(id, result)
     \/ ~run.degraded /\ Become(a, Degraded(next)) /\ Fault /\ UNCHANGED store
  /\ UNCHANGED removed

\* A sweep or an erasure, and a clearing of what was corrupt.
Sweep(id) ==
  /\ store[id] # Nothing /\ Fault
  /\ store' = [store EXCEPT ![id] = Nothing] /\ removed' = removed \union {id}
  /\ UNCHANGED attempts

Next ==
  \/ \E a \in Attempt :
       Begin(a) \/ StopAtBoundary(a) \/ Look(a) \/ Execute(a) \/ FailStage(a) \/ File(a) \/ FileAngles(a)
  \/ \E id \in Id : Sweep(id)
Spec == Init /\ [][Next]_pipelineVars

-----------------------------------------------------------------------------
(* Properties                                                              *)

Ended(a, verdicts) == attempts[a] # Idle /\ attempts[a].verdict \in verdicts
Together(made) ==
  made["extract"] # Nothing =>
    /\ made["extract"].of = made["parse"]
    /\ made["ground"] = Grounded(made["parse"], made["extract"])
    /\ made["validate"] = Validated(made["extract"], made["ground"])

\* A reused stage returns what this run would have made by executing it
\* (StageStatus.REUSED): the parts of a result belong together.
ReuseIsIndistinguishable == \A a \in Attempt : Ended(a, {"complete"}) => Together(attempts[a].made)

\* So it is while the model answers as it was asked to and nothing is removed
\* between two stages, whatever faults, conflicts and verification come in between;
\* and a run whose store was there throughout returned what its ids name.
ReuseAgrees ==
  \A a \in Attempt : Ended(a, {"complete"}) /\ attempts[a].model = Asked /\ removed = {} =>
    /\ Together(attempts[a].made)
    /\ ~attempts[a].degraded =>
         \A s \in Stages : attempts[a].made[s] \in {Nothing, store[Named(s, Asked)]}

\* An extraction is filed under the model that made it, or not at all: what is
\* found under an id agrees with the artifact it was derived from.
StoredChainsAgree ==
  removed = {} =>
    \A m \in Model :
      LET e == store[Named("extract", m)] g == store[Named("ground", m)] d == store[Named("parse", m)] IN
      /\ e # Nothing => e.by = m /\ e.of = d
      /\ (g # Nothing /\ e # Nothing) => g.grounds = e

\* A failed run names the stage that failed.
FailuresNameTheirStage == \A a \in Attempt : Ended(a, {"failed"}) => attempts[a].blamed = attempts[a].failed

\* Every stage has its outcome, in order, once the run has one.
StagesAreAccountedFor ==
  \A a \in Attempt : Ended(a, {"complete", "failed", "cancelled"}) /\ attempts[a].mode # "ocr" =>
    [i \in 1 .. Len(attempts[a].outcomes) |-> attempts[a].outcomes[i][1]] = Stage

-----------------------------------------------------------------------------
(* What makes the properties inductive                                       *)

\* A result is one of its stage.
ResultOf(s) == CASE s \in {"parse", "angles"} -> Reading [] s = "extract" -> Extraction
                 [] s = "ground" -> Grounding [] s = "validate" -> [of: Extraction, weighs: Grounding]
ResultsAreOfTheirStage ==
  /\ \A id \in Id : store[id] \in ResultOf(id[1]) \union {Nothing}
  /\ \A a \in Attempt : attempts[a] # Idle => \A s \in Stages : attempts[a].made[s] \in ResultOf(s) \union {Nothing}

\* The stages that are behind a run, and those whose result it has.
Earlier(s) == CASE s = "parse" -> {} [] s = "extract" -> {"parse"} [] s = "ground" -> {"parse", "extract"}
                [] s = "validate" -> {"parse", "extract", "ground"}
Settled(run) == Earlier(run.stage) \union (IF run.doing = "angles" \/ run.verdict = "complete" THEN {run.stage} ELSE {})
Made(run) == Settled(run) \union (IF run.doing = "file" THEN {run.stage} ELSE {})
OnCourse(run) == run # Idle /\ (run.doing # "over" \/ run.verdict = "complete")

\* What was made of what, as far as the chain goes.
Chained(made) ==
  /\ made["extract"] # Nothing => made["extract"].of = made["parse"] /\ made["extract"].by = Asked
  /\ made["ground"] # Nothing => made["ground"] = Grounded(made["parse"], made["extract"])
  /\ made["validate"] # Nothing => made["validate"] = Validated(made["extract"], made["ground"])

InOrder(run) ==
  /\ \A s \in Stages : run.made[s] # Nothing <=> s \in Made(run)
  /\ run.verdict = IF run.doing = "over" THEN "complete" ELSE "running"
  /\ run.verdict = "complete" => run.stage = "validate" \/ run.mode = "ocr"
  /\ run.mode = "ocr" => run.stage = "parse"
  /\ run.doing = "angles" => run.stage = "parse"
  /\ "extract" \notin Made(run) => run.model = Asked
RunsAreInOrder == \A a \in Attempt : OnCourse(attempts[a]) => InOrder(attempts[a])

\* What a run of the model asked for has belongs together, and is what its store holds.
Consistent(run) ==
  /\ Chained(run.made)
  /\ ~run.degraded => \A s \in Settled(run) : run.made[s] = store[Named(s, Asked)]
RunsAgree == removed = {} =>
  \A a \in Attempt : OnCourse(attempts[a]) /\ attempts[a].model = Asked => Consistent(attempts[a])

\* So does what is stored: nothing is filed before what it was made from.
Stored == [s \in Stages |-> store[Named(s, Asked)]]
StoreAgrees == removed = {} =>
  /\ Chained(Stored)
  /\ \A s \in Stages : Stored[s] # Nothing => \A t \in Earlier(s) : Stored[t] # Nothing
  /\ \A m \in Model \ {Asked} : store[Named("extract", m)] = Nothing

PipelineInv == TypeOK /\ ResultsAreOfTheirStage /\ RunsAreInOrder /\ RunsAgree /\ StoreAgrees
=============================================================================
