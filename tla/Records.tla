------------------------------- MODULE Records -------------------------------
(* The components that keep records of who may do what and of what was done,   *)
(* and what the theorems about them need of their parameters.                  *)
EXTENDS Slots

Accounts == INSTANCE Accounts WITH
  accounts <- v1, sessions <- v2, time <- v3, tokens <- v4, request <- v5, command <- v6,
  guesses <- v7, interrupted <- v8, Browser <- Handler, Idle <- IdleLimit, NoAccount <- None

ASSUME AccountAssumption ==
  /\ IsFiniteSet(Handler) /\ None \notin User /\ None \notin Accounts!Account
  /\ MaxFailedLogins \in Nat \ {0} /\ Lockout \in Nat \ {0} /\ IdleLimit \in Nat
  /\ MaxSessions \in Nat /\ MaxTime \in Nat

Keys == INSTANCE Keys WITH
  credentials <- v1, keyFile <- v2, ring <- v3, cached <- v4, loop <- v5, forgetting <- v6,
  clock <- v7, revokedAt <- v8, done <- v9, verdict <- v10

ASSUME KeyAssumption == CacheTTL \in Nat \ {0} /\ MaxClock \in Nat

Providers == INSTANCE Providers WITH
  priority <- v1, setting <- v2, env <- v3, reader <- v4, resets <- v5, steady <- v6,
  kept <- v7, faults <- v8, Model <- Configured

ASSUME ProviderAssumption ==
  /\ Priorities \subseteq Seq(Providers!Adapter) /\ MaxFaults \in Nat
  /\ None \notin Providers!Resolved \union Providers!Reading \union [scope: Providers!Scope, by: Master]
  /\ None \notin Providers!Scope \union {"env"} \union Providers!Adapter \union Master \union Configured \union {Shipped}

Evaluations == INSTANCE Evaluations WITH
  answered <- v1, rows <- v2, runs <- v3, fresh <- v4, handlers <- v5, schema <- v6,
  outages <- v7, erased <- v8, behind <- v9, lost <- v10, Doc <- SourceDocument,
  MaxOutages <- MaxFaults, NoRow <- None

ASSUME EvaluationAssumption ==
  IsFiniteSet(SourceDocument) /\ MaxFaults \in Nat /\ None \notin Evaluations!Row

ArtifactStore == INSTANCE ArtifactStore WITH
  backend <- v1, rooted <- v2, entries <- v3, documents <- v4, temporaries <- v5, pc <- v6,
  op <- v7, todo <- v8, answer <- v9, faults <- v10, listed <- v11, cleared <- v12,
  accepted <- v13, unseen <- v14, Key <- Artifact, Document <- SourceDocument, Process <- Handler, Absent <- None

ASSUME StoreAssumption ==
  /\ Content # {} /\ Format # {} /\ MaxFaults \in Nat
  /\ None \notin ArtifactStore!Envelope \union ArtifactStore!Operation
==============================================================================
