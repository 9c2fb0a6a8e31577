------------------------------ MODULE MCRunQueue ------------------------------
(* RunQueue on small instances. Two boundaries stand for extraction's four:  *)
(* one before the first stage, one with work already done.                   *)
EXTENDS RunQueue, TLC

CONSTANTS r1, r2, w1, w2, c1

MCFloor == -1

MCStageCount == "extraction" :> 2 @@ "ocr" :> 1

\* every worker claims everything, one clock
AnyKind == [w \in Worker |-> Kinds]
OneClock == [w \in Worker |-> 0]

\* w1 runs with --kind extraction and its clock is ahead of w2's by one tick
ExtractionOnW1 == [w \in Worker |-> IF w = w1 THEN {"extraction"} ELSE Kinds]
W1Ahead == [w \in Worker |-> IF w = w1 THEN 1 ELSE 0]
=============================================================================
