------------------------------- MODULE Evidence -------------------------------
(* Grounding, and what the theorems about it need of its parameters.           *)
EXTENDS Slots

Grounding == INSTANCE Grounding WITH
  document <- v1, claims <- v2, foreign <- v3, at <- v4, taken <- v5, outcomes <- v6

ASSUME GroundingAssumption ==
  /\ Documents \subseteq Seq(Grounding!Character) /\ Claims \subseteq Seq(Grounding!Claim)
  /\ Num \in Nat \ {0} /\ Den \in Nat /\ Num <= Den /\ Budget \in Nat /\ None \notin Nat \X Nat
  \* a quotient just below a whole number is that of one above 0
  /\ \A m \in Short : m \in Nat /\ (Den - Num) * m >= Num
===============================================================================
