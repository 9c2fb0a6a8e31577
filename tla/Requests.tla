------------------------------- MODULE Requests -------------------------------
(* The components that answer requests and admit and claim runs, and what the  *)
(* theorems about them need of their parameters.                               *)
EXTENDS Slots

Api == INSTANCE Api WITH
  scene <- v1, clock <- v2, row <- v3, stone <- v4, stored <- v5, result <- v6,
  checks <- v7, callback <- v8, handler <- v9, told <- v10, held <- v11, walk <- v12,
  Operator <- Administrator, Run <- ApiRun, Nobody <- None, Key <- RequestKey

ASSUME ApiAssumption ==
  /\ IsFiniteSet(ApiRun) /\ ApiRun \subseteq Nat /\ PageSize \in Nat \ {0}
  /\ None \notin Tenant \union {Administrator} \union ApiRun \union RequestKey \union Callback
  /\ None \notin Api!Cursor /\ Administrator \notin Tenant
  /\ Scenes \subseteq [op: SUBSET Api!Operation, run: (SUBSET ApiRun) \ {{}}, handler: SUBSET Handler, key: SUBSET RequestKey,
                       callback: SUBSET Callback, owner: SUBSET (Tenant \union {None}), until: Nat, work: BOOLEAN]

Limits == INSTANCE Limits WITH
  scenario <- v1, active <- v2, usedKeys <- v3, counters <- v4, requests <- v5,
  submitted <- v6, unspent <- v7, minute <- v8, failures <- v9, accepted <- v10,
  unwritten <- v11, Tenant <- Limited, Checked <- Reruns, NoKey <- None, MaxFailures <- MaxFaults

ASSUME LimitAssumption ==
  /\ IsFiniteSet(Handler) /\ IsFiniteSet(Limited) /\ Handler # {} /\ Reruns \in Nat \ {0} /\ Period \in Nat \ {0}
  /\ {SubmissionLimit, RunLimit, TokenLimit, ConcurrencyLimit, OcrTotal, OcrLimit, MaxMinutes, MaxFaults} \subseteq Nat
  /\ Scenarios \subseteq [policy: SUBSET (Limits!Window \union {"concurrent"}), minutes: 0 .. MaxMinutes, runs: Nat,
                          asked: SUBSET {"run", "evaluation", "retry", "ocr"}]

Claiming == INSTANCE Claims WITH
  runs <- v1, line <- v2, ended <- v3, workers <- v4, idle <- v5, crashes <- v6,
  Row <- QueueRow, Priority <- RunPriority, Window <- ServiceWindow,
  MaxAttempts <- MaxClaims, Interval <- TickInterval,
  MaxCrashes <- MaxFaults, NoRun <- None

ASSUME ClaimAssumption ==
  /\ IsFiniteSet(QueueRow) /\ {Starvation, ServiceWindow, MaxClaims, TickInterval, MaxFaults} \subseteq Nat
  /\ Lease \in Nat \ {0} /\ RunPriority \subseteq Nat /\ None \notin Claiming!RunRow
===============================================================================
