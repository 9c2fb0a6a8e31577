------------------------------ MODULE Components ------------------------------
(* The components that share no state with the run queue, side by side: one   *)
(* behaviour of one of them at a time, in the variables of Slots; those it    *)
(* does not use stay empty. Each component is what Records, Stages, Requests  *)
(* or Evidence make of its module.                                            *)
EXTENDS Records, Stages, Requests, Evidence

-----------------------------------------------------------------------------
\* the variables from the n-th on
From13 == <<v13, v14>>
From12 == <<v12, From13>>
From11 == <<v11, From12>>
From9  == <<v9, v10, From11>>
From8  == <<v8, From9>>
From7  == <<v7, From8>>
From5  == <<v5, v6, From7>>

Empty13 == v13 = None /\ v14 = None
Empty12 == v12 = None /\ Empty13
Empty11 == v11 = None /\ Empty12
Empty9  == v9 = None /\ v10 = None /\ Empty11
Empty8  == v8 = None /\ Empty9
Empty7  == v7 = None /\ Empty8
Empty5  == v5 = None /\ v6 = None /\ Empty7

Start ==
  \/ which = "store" /\ ArtifactStore!Init
  \/ which = "accounts" /\ Accounts!Init /\ Empty9
  \/ which = "keys" /\ Keys!Init /\ Empty11
  \/ which = "evaluations" /\ Evaluations!Init /\ Empty11
  \/ which = "limits" /\ Limits!Init /\ Empty12
  \/ which = "claims" /\ Claiming!Init /\ Empty7
  \/ which = "pipeline" /\ Pipeline!Init /\ Empty5
  \/ which = "api" /\ Api!Init /\ Empty13
  \/ which = "schemas" /\ Schemas!Init /\ Empty8
  \/ which = "providers" /\ Providers!Init /\ Empty9
  \/ which = "ingest" /\ Ingest!Init /\ Empty12
  \/ which = "validation" /\ Validation!Init /\ Empty9
  \/ which = "extraction" /\ Extraction!Init /\ Empty8
  \/ which = "grounding" /\ Grounding!Init /\ Empty7

Init == which \in Parts /\ Start

Next ==
  \/ which = "store" /\ ArtifactStore!Next /\ UNCHANGED <<which>>
  \/ which = "accounts" /\ Accounts!Next /\ UNCHANGED <<which, From9>>
  \/ which = "keys" /\ Keys!Next /\ UNCHANGED <<which, From11>>
  \/ which = "evaluations" /\ Evaluations!Next /\ UNCHANGED <<which, From11>>
  \/ which = "limits" /\ Limits!Next /\ UNCHANGED <<which, From12>>
  \/ which = "claims" /\ Claiming!Next /\ UNCHANGED <<which, From7>>
  \/ which = "pipeline" /\ Pipeline!Next /\ UNCHANGED <<which, From5>>
  \/ which = "api" /\ Api!Next /\ UNCHANGED <<which, From13>>
  \/ which = "schemas" /\ Schemas!Next /\ UNCHANGED <<which, From8>>
  \/ which = "providers" /\ Providers!Next /\ UNCHANGED <<which, From9>>
  \/ which = "ingest" /\ Ingest!Next /\ UNCHANGED <<which, From12>>
  \/ which = "validation" /\ Validation!Next /\ UNCHANGED <<which, From9>>
  \/ which = "extraction" /\ Extraction!Next /\ UNCHANGED <<which, From8>>
  \/ which = "grounding" /\ Grounding!Next /\ UNCHANGED <<which, From7>>

Spec == Init /\ [][Next]_slots

\* The fairness Evaluations and Claims state for themselves.
OfEvaluations(A) == which = "evaluations" /\ A /\ UNCHANGED <<which, From11>>
OfClaims(A) == which = "claims" /\ A /\ UNCHANGED <<which, From7>>

FairEvaluations ==
  /\ \A x \in Evaluation \X SourceDocument : WF_slots(OfEvaluations(Evaluations!EndRun(x)))
  /\ \A h \in Handler : WF_slots(OfEvaluations(
       Evaluations!Start(h) \/ Evaluations!Evaluate(h) \/ Evaluations!Forgetting(h)))
  /\ \A e \in Evaluation : SF_slots(OfEvaluations(\E h \in Handler : Evaluations!Look(h, e)))
FairClaims ==
  /\ \A w \in Worker : WF_slots(OfClaims(Claiming!Work(w))) /\ WF_slots(OfClaims(Claiming!Maintain(w)))
  /\ WF_slots(OfClaims(Claiming!Tick))

LiveSpec == Spec /\ FairEvaluations /\ FairClaims

-----------------------------------------------------------------------------
(* Properties, each stated and named in the module it is about             *)

\* Every component keeps to its types.
TypeOK ==
  /\ which \in Parts
  /\ which = "store" => ArtifactStore!TypeOK
  /\ which = "accounts" => Accounts!TypeOK
  /\ which = "keys" => Keys!TypeOK
  /\ which = "evaluations" => Evaluations!TypeOK
  /\ which = "limits" => Limits!TypeOK
  /\ which = "claims" => Claiming!TypeOK
  /\ which = "pipeline" => Pipeline!TypeOK
  /\ which = "api" => Api!TypeOK
  /\ which = "schemas" => Schemas!TypeOK
  /\ which = "providers" => Providers!TypeOK
  /\ which = "ingest" => Ingest!TypeOK
  /\ which = "validation" => Validation!TypeOK
  /\ which = "extraction" => Extraction!TypeOK
  /\ which = "grounding" => Grounding!TypeOK

\* What is filed under an identity is not replaced by something else unseen,
\* no temporary file outlives its operation, and what a removal of objects said
\* is gone is gone (artifacts/store.py, s3.py).
ArtifactsAreSafe == which = "store" =>
  ArtifactStore!DivergenceIsSeen /\ ArtifactStore!TemporariesAreTransient /\ ArtifactStore!RemovedIsGone

\* Wrong passwords are counted however they are tried at once, and a session
\* ends with the password it was opened with (console_accounts.py).
AccountsAreGuarded == which = "accounts" =>
  Accounts!GuessesAreBounded /\ Accounts!SessionsAreCurrent

\* A revoked key is refused everywhere within a cache lifetime, a new one
\* admitted at once (keys.py).
RevocationPropagates == which = "keys" =>
  Keys!RevocationPropagates /\ Keys!IssuanceIsImmediate

\* No evaluation names an erased document, and none leaves runs nobody waits
\* for (evaluations.py).
ErasedDocumentsAreForgotten == which = "evaluations" =>
  Evaluations!ErasedDocumentsAreForgotten /\ Evaluations!RunsAreAccountedFor

\* A lock in force, a verdict once written and an envelope found damaged are not
\* changed by any step but the one that may (console_accounts.py,
\* evaluations.py, artifacts/store.py).
SettledFactsStay == [][
  /\ which = "accounts" => Accounts!HoldsLocks
  /\ which = "evaluations" => Evaluations!KeepsVerdicts
  /\ which = "store" => ArtifactStore!KeepsEvidence]_slots

\* An evaluation that somebody goes on looking at ends (evaluations.py).
EvaluationsFinish == \A e \in Evaluation :
  (which = "evaluations" /\ e \in Evaluations!Unfinished) ~> (which = "evaluations" /\ e \notin Evaluations!Unfinished)

\* A limit counts every run that was created, once, and is overshot at most by
\* the requests under way; so it does tokens where the worker was given a
\* limiter, which docdoc worker does not do (limits.py).
LimitsHold == which = "limits" => Limits!CountsAreKept /\ Limits!OvershootIsBounded

\* No queued run waits for ever while no priority is granted (postgres.py, claim).
EveryRunIsServed == \A r \in QueueRow :
  (which = "claims" /\ Claiming!Queued(r)) ~> (which = "claims" /\ ~Claiming!Queued(r))

\* The parts of a result belong together, reused or not, and so do the
\* artifacts stored (pipeline/runner.py).
ReuseAgrees == which = "pipeline" => Pipeline!ReuseAgrees /\ Pipeline!StoredChainsAgree

\* No answer of the API is about another tenant's run, takes back an earlier
\* one, gives a repeated request another run or leaves a run out of a listing
\* (api/runs.py, postgres.py).
AnswersStandUp == which = "api" =>
  Api!StrangersLearnNothing /\ Api!AnswersStandUp /\ Api!ReplaysAgree /\ Api!PagesMissNothing

\* What an operator was told is saved is what runs are executed with
\* (console_schemas.py, registry.py, worker.py).
SavedVersionsServe == which = "schemas" => Schemas!SavedVersionsServe

\* A stored provider key is not passed over for one of a wider scope (providers.py).
KeysAreNotPassedOver == which = "providers" => Providers!KeysAreNotPassedOver

\* A parsed document is all of its file, and a service gets no more than the
\* deadline, Azure that and the start of an analysis (ingest/).
DocumentsAreWhole == which = "ingest" => Ingest!DocumentsAreWhole /\ Ingest!DeadlineHolds

\* A result judged valid obeys its schema, and so it is judged when its numbers
\* are finite and it is read back (validation/).
VerdictsAreSound == which = "validation" => Validation!VerdictsAreSound

\* Calls to a model stay within attempts and deadline (extraction/).
CallsAreBounded == which = "extraction" => Extraction!CallsAreBounded

\* The range given as evidence shows the value claimed, and a value without one
\* has no evidence but what rounding loses (grounding/).
EvidenceIsGenuine == which = "grounding" => Grounding!EvidenceIsGenuine
===============================================================================
