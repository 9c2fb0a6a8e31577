--------------------------- MODULE ComponentProofs ---------------------------
(* The theorems of Components, for every value of its parameters. Whichever    *)
(* component runs, its invariant holds: each is shown to begin and to be kept  *)
(* in RecordsProofs, StagesProofs, RequestsProofs or GroundingProofs, and what *)
(* is promised of the component follows from it.                               *)
EXTENDS Components, RecordsProofs, StagesProofs, RequestsProofs, GroundingProofs

Holding ==
  /\ which \in Parts
  /\ which = "store" => ArtifactStore!StoreInv
  /\ which = "accounts" => Accounts!AccountInv
  /\ which = "keys" => Keys!KeyInv /\ Keys!IssueInv
  /\ which = "evaluations" => Evaluations!EvaluationInv
  /\ which = "limits" => Limits!LimitInv
  /\ which = "claims" => ClaimInv
  /\ which = "pipeline" => Pipeline!PipelineInv
  /\ which = "api" => Api!ApiInv
  /\ which = "schemas" => Schemas!SchemaInv
  /\ which = "providers" => Providers!ProviderInv
  /\ which = "ingest" => Ingest!IngestInv
  /\ which = "validation" => Validation!ValidationInv
  /\ which = "extraction" => Extraction!ExtractionInv
  /\ which = "grounding" => GroundingInv

LEMMA HoldingBegins == Init => Holding
<1>1. ArtifactStore!Init => ArtifactStore!StoreInv
  BY StoreStarts
<1>2. Accounts!Init => Accounts!AccountInv
  BY AccountsStart
<1>3. Keys!Init => Keys!KeyInv /\ Keys!IssueInv
  BY KeysStart, IssueStart
<1>4. Evaluations!Init => Evaluations!EvaluationInv
  BY EvaluationsStart
<1>5. Limits!Init => Limits!LimitInv
  BY LimitsBegin
<1>6. Claiming!Init => ClaimInv
  BY ClaimsBegin
<1>7. Pipeline!Init => Pipeline!PipelineInv
  BY PipelineStarts
<1>8. Api!Init => Api!ApiInv
  BY ApiStarts
<1>9. Schemas!Init => Schemas!SchemaInv
  BY SchemasStart
<1>10. Providers!Init => Providers!ProviderInv
  BY ProvidersStart
<1>11. Ingest!Init => Ingest!IngestInv
  BY IngestStarts
<1>12. Validation!Init => Validation!ValidationInv
  BY ValidationStart
<1>13. Extraction!Init => Extraction!ExtractionInv
  BY ExtractionStart
<1>14. Grounding!Init => GroundingInv
  BY GroundingBegins
<1> QED BY <1>1, <1>2, <1>3, <1>4, <1>5, <1>6, <1>7, <1>8, <1>9, <1>10, <1>11, <1>12, <1>13, <1>14
        DEF Init, Start, Holding

(* A step is one of the component that runs, or leaves it alone.             *)
LEMMA OnlyOneRuns ==
  ASSUME [Next]_slots
  PROVE  /\ which' = which
         /\ which = "store" => [ArtifactStore!Next]_(ArtifactStore!storeVars)
         /\ which = "accounts" => [Accounts!Next]_(Accounts!accountVars)
         /\ which = "keys" => [Keys!Next]_(Keys!keyVars)
         /\ which = "evaluations" => [Evaluations!Next]_(Evaluations!evaluationVars)
         /\ which = "limits" => [Limits!Next]_(Limits!limitVars)
         /\ which = "claims" => [Claiming!Next]_(Claiming!claimVars)
         /\ which = "pipeline" => [Pipeline!Next]_(Pipeline!pipelineVars)
         /\ which = "api" => [Api!Next]_(Api!vars)
         /\ which = "schemas" => [Schemas!Next]_(Schemas!schemaVars)
         /\ which = "providers" => [Providers!Next]_(Providers!providerVars)
         /\ which = "ingest" => [Ingest!Next]_(Ingest!ingestVars)
         /\ which = "validation" => [Validation!Next]_(Validation!validationVars)
         /\ which = "extraction" => [Extraction!Next]_(Extraction!extractionVars)
         /\ which = "grounding" => [Grounding!Next]_(Grounding!groundingVars)
<1>1. CASE UNCHANGED slots
  BY <1>1 DEF slots, ArtifactStore!storeVars, Accounts!accountVars, Keys!keyVars, Evaluations!evaluationVars,
     Limits!limitVars, Claiming!claimVars, Pipeline!pipelineVars, Api!vars, Schemas!schemaVars, Providers!providerVars,
     Ingest!ingestVars, Validation!validationVars, Extraction!extractionVars, Grounding!groundingVars
<1>2. CASE Next
  BY <1>2 DEF Next
<1> QED BY <1>1, <1>2

LEMMA HoldingStays == ASSUME Holding, [Next]_slots PROVE Holding'
<1>1. which' = which /\ which' \in Parts
  BY OnlyOneRuns DEF Holding
<1>2. which = "store" => ArtifactStore!StoreInv'
  BY OnlyOneRuns, StoreStep DEF Holding
<1>3. which = "accounts" => Accounts!AccountInv'
  BY OnlyOneRuns, AccountsStep DEF Holding
<1>4. which = "keys" => Keys!KeyInv' /\ Keys!IssueInv'
  BY OnlyOneRuns, KeysStep, IssueStep DEF Holding
<1>5. which = "evaluations" => Evaluations!EvaluationInv'
  BY OnlyOneRuns, EvaluationsStep DEF Holding
<1>6. which = "limits" => Limits!LimitInv'
  BY OnlyOneRuns, LimitsStep DEF Holding
<1>7. which = "claims" => ClaimInv'
  BY OnlyOneRuns, ClaimStep DEF Holding
<1>8. which = "pipeline" => Pipeline!PipelineInv'
  BY OnlyOneRuns, PipelineStep DEF Holding
<1>9. which = "api" => Api!ApiInv'
  BY OnlyOneRuns, ApiStep DEF Holding
<1>10. which = "schemas" => Schemas!SchemaInv'
  BY OnlyOneRuns, SchemasStep DEF Holding
<1>11. which = "providers" => Providers!ProviderInv'
  BY OnlyOneRuns, ProvidersStep DEF Holding
<1>12. which = "ingest" => Ingest!IngestInv'
  BY OnlyOneRuns, IngestStep DEF Holding
<1>13. which = "validation" => Validation!ValidationInv'
  BY OnlyOneRuns, ValidationStep DEF Holding
<1>14. which = "extraction" => Extraction!ExtractionInv'
  BY OnlyOneRuns, ExtractionStep DEF Holding
<1>15. which = "grounding" => GroundingInv'
  BY OnlyOneRuns, GroundingStep DEF Holding
<1> QED BY <1>1, <1>2, <1>3, <1>4, <1>5, <1>6, <1>7, <1>8, <1>9, <1>10, <1>11, <1>12, <1>13, <1>14, <1>15 DEF Holding

LEMMA ComponentsHold == Spec => []Holding
BY HoldingBegins, HoldingStays, PTL DEF Spec

-----------------------------------------------------------------------------
(* Theorems                                                                  *)

(* Every component keeps to its types: for the queue of claims that is to    *)
(* say that the line holds each waiting or running row once and in no row    *)
(* more, whatever workers lock, execute and lose (postgres.py, claim).       *)
THEOREM ComponentsAreAlwaysTyped == Spec => []TypeOK
<1>1. ASSUME Holding PROVE TypeOK
  <2>1. which = "claims" => Claiming!TypeOK
    BY <1>1, ClaimsAreTyped DEF Holding
  <2>2. which = "grounding" => Grounding!TypeOK
    BY <1>1 DEF Holding, GroundingInv
  <2> QED BY <1>1, <2>1, <2>2 DEF Holding, TypeOK, ArtifactStore!StoreInv, Accounts!AccountInv, Keys!KeyInv,
        Evaluations!EvaluationInv, Limits!LimitInv, Pipeline!PipelineInv, Api!ApiInv, Schemas!SchemaInv,
        Providers!ProviderInv, Ingest!IngestInv, Validation!ValidationInv, Extraction!ExtractionInv
<1> QED BY <1>1, ComponentsHold, PTL

(* However many requests guess at once, what a lock costs is bounded, and no *)
(* session outlives the password it was opened with (console_accounts.py).   *)
THEOREM AccountsAreAlwaysGuarded == Spec => []AccountsAreGuarded
<1>1. Holding => AccountsAreGuarded
  BY GuessesStayBounded DEF Holding, AccountsAreGuarded, Accounts!AccountInv
<1> QED BY <1>1, ComponentsHold, PTL

(* A revoked key is refused everywhere within one cache lifetime, wherever it *)
(* was revoked and whatever resolution was in flight, and a key issued is     *)
(* admitted at once (CachedKeyStore.principal_for).                           *)
THEOREM RevocationsPropagate == Spec => []RevocationPropagates
<1>1. Holding => RevocationPropagates
  BY DEF Holding, RevocationPropagates, Keys!KeyInv, Keys!IssueInv, Keys!Admissions, Keys!RevocationPropagates
<1> QED BY <1>1, ComponentsHold, PTL

(* A key that is there from the first statement of a reader to its last is   *)
(* used, or the adapter is unavailable; and a key stays until its removal is *)
(* asked for, whatever is written beside it (runs/providers.py).             *)
THEOREM KeysAreNeverPassedOver == Spec => []KeysAreNotPassedOver
<1>1. Holding => KeysAreNotPassedOver
  BY DEF Holding, KeysAreNotPassedOver, Providers!ProviderInv
<1> QED BY <1>1, ComponentsHold, PTL

(* No evaluation but one that began before names an erased document, and a   *)
(* run is waited for by somebody (runs/evaluations.py).                      *)
THEOREM ErasedDocumentsStayForgotten == Spec => []ErasedDocumentsAreForgotten
<1>1. Holding => ErasedDocumentsAreForgotten
  BY DEF Holding, ErasedDocumentsAreForgotten, Evaluations!EvaluationInv
<1> QED BY <1>1, ComponentsHold, PTL

(* Two contents filed under one identity are both told so at most where a    *)
(* writer of objects could not have seen the other, no temporary file        *)
(* outlives its operation, and a removal's word holds (artifacts/).          *)
THEOREM ArtifactsAreAlwaysSafe == Spec => []ArtifactsAreSafe
<1>1. Holding => ArtifactsAreSafe
  BY OneContentIsAccepted DEF Holding, ArtifactsAreSafe, ArtifactStore!StoreInv
<1> QED BY <1>1, ComponentsHold, PTL

(* A lock in force, a verdict once written and damage once found: no step     *)
(* takes them back but the one that may (console_accounts.py, evaluations.py, *)
(* artifacts/store.py).                                                       *)
THEOREM SettledFactsAlwaysStay == Spec => SettledFactsStay
<1> DEFINE Kept == /\ which = "accounts" => Accounts!HoldsLocks
                   /\ which = "evaluations" => Evaluations!KeepsVerdicts
                   /\ which = "store" => ArtifactStore!KeepsEvidence
<1>1. Holding /\ [Next]_slots => [Kept]_slots
  <2>1. ASSUME Holding, Next PROVE Kept
    BY <2>1, LocksAreHeld, VerdictsAreKept, DamageIsKept DEF Holding, Next
  <2> QED BY <2>1
<1> QED BY <1>1, ComponentsHold, PTL DEF Spec, SettledFactsStay

(* A result stands for one answer, a model is called again only after what   *)
(* may pass, within attempts and before the deadline (extraction/retry.py).  *)
THEOREM CallsAreAlwaysBounded == Spec => []CallsAreBounded
<1>1. Holding => CallsAreBounded
  BY DEF Holding, CallsAreBounded, Extraction!ExtractionInv
<1> QED BY <1>1, ComponentsHold, PTL

(* What an operator was told is saved is what the identity names from then   *)
(* on, and what runs are executed with, whatever a worker had loaded         *)
(* (runs/console_schemas.py, extraction/registry.py).                        *)
THEOREM SavedVersionsAlwaysServe == Spec => []SavedVersionsServe
<1>1. Holding => SavedVersionsServe
  BY SavedVersionsHold DEF Holding, SavedVersionsServe
<1> QED BY <1>1, ComponentsHold, PTL

(* A stage that is not run again gives a run what it would have made (reuse  *)
(* in pipeline/runner.py): as long as the model asked for answers and        *)
(* nothing is removed, the parts of a result belong together, they are what  *)
(* the run's ids name, and so is everything filed.                           *)
THEOREM ReuseAlwaysAgrees == Spec => []ReuseAgrees
<1>1. Holding => ReuseAgrees
  BY ReuseHolds DEF Holding, ReuseAgrees
<1> QED BY <1>1, ComponentsHold, PTL

(* A result judged valid has every value an author asked for, crosses no     *)
(* bound as the code reads it and adds up, whatever the forms its values     *)
(* have; and it is judged the same when it is read back, unless a float in   *)
(* it is not finite: that one is read back as null (validation/, conform.py, *)
(* artifacts/store.py).                                                      *)
THEOREM VerdictsAreAlwaysSound == Spec => []VerdictsAreSound
<1>1. Holding => VerdictsAreSound
  BY DEF Holding, VerdictsAreSound, Validation!ValidationInv
<1> QED BY <1>1, ComponentsHold, PTL

(* A document stands for all of its file, as the file was routed: pages in   *)
(* order and within the limit, words where a service must find some, and a   *)
(* parser that was asked for and is there. And the service gets no more of   *)
(* the caller's time than the deadline, save for the start of an analysis by *)
(* Azure, which waits as long as its SDK does: the two halves of one         *)
(* invariant (ingest/).                                                      *)
THEOREM DocumentsAreAlwaysWhole == Spec => []DocumentsAreWhole
<1>1. Holding => DocumentsAreWhole
  BY DEF Holding, DocumentsAreWhole, Ingest!IngestInv
<1> QED BY <1>1, ComponentsHold, PTL

(* For every number of tenants, requests, runs and pages: an answer is about *)
(* the caller's own run and takes back nothing an earlier one said, a        *)
(* request repeated under its key is about the same run, and a walk over the *)
(* listing misses no run that is there throughout.                           *)
THEOREM AnswersAlwaysStandUp == Spec => []AnswersStandUp
<1>1. Holding => AnswersStandUp
  BY AnswersHold DEF Holding, AnswersStandUp
<1> QED BY <1>1, ComponentsHold, PTL

(* For every number of tenants, requests and minutes and every limit: a      *)
(* counter that a check can still read holds one for every run that was      *)
(* created, save for counts under way and counts that were lost, and what    *)
(* requests overshoot a limit or a queue by is less than what may be         *)
(* submitted at once. So it is whether or not the worker counts tokens; that *)
(* it may do without is part of what is proved (runs/limits.py).             *)
THEOREM LimitsAlwaysHold == Spec => []LimitsHold
<1>1. Holding => LimitsHold
  BY OvershootFollows DEF Holding, LimitsHold, Limits!LimitInv
<1> QED BY <1>1, ComponentsHold, PTL

(* No run is in the hands of two workers, a run that is executed runs under  *)
(* a fresh lease, and one that is locked may be claimed: SKIP LOCKED and the *)
(* order of claim's two statements see to it (postgres.py, claim).           *)
THEOREM ClaimsAreAlwaysExclusive == Spec => [](which = "claims" => HandsAgree)
<1>1. Holding => (which = "claims" => HandsAgree)
  BY DEF Holding, ClaimInv
<1> QED BY <1>1, ComponentsHold, PTL

(* Whatever folding deletes, joins or expands, the range reported for a value *)
(* lies in the document and shows what was found for it, the claim itself     *)
(* where it was found exactly; no two entries of a repeating group have one   *)
(* range; and a claim is reported without evidence only if no window of the   *)
(* document is similar enough, tried one by one, or each that is has the one  *)
(* edit that rounding loses: the blocks the filter of candidates looks for    *)
(* cannot all be edited. So it is for every threshold and every way floats    *)
(* round it (grounding/offsets.py, candidates.py, resolve.py).                *)
THEOREM EvidenceIsAlwaysGenuine == Spec => []EvidenceIsGenuine
<1>1. Holding => EvidenceIsGenuine
  BY DEF Holding, EvidenceIsGenuine, GroundingInv
<1> QED BY <1>1, ComponentsHold, PTL
==============================================================================
