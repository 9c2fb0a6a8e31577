----------------------------- MODULE MCRetention -----------------------------
(* Retention on small instances.                                             *)
EXTENDS Retention, TLC

CONSTANTS
  r1, r2, b1, parsed, extracted,
  Scenarios     \* what the removing process does in this run

VARIABLE scenario

OneDocument == [r \in Run |-> b1]

\* an OCR run and an extraction over one document: the parse of the one is the
\* first stage of the other
SharedParse == [r \in Run |-> IF r = r1 THEN <<parsed>> ELSE <<parsed, extracted>>]

\* two extractions of one document with one schema
Twins == [r \in Run |-> <<parsed, extracted>>]

InTurn == [r \in Run |-> IF r = r1 THEN 1 ELSE 2]

-----------------------------------------------------------------------------
\* One process removes: it sweeps, and either runs are cancelled meanwhile or
\* it may stop anywhere; or it erases one thing, over and over, while no run
\* expires and nobody checks one, which an erasure does not read, and it alone
\* asks runs to stop.
Environment ==
  \/ \E b \in Blob : Upload(b)
  \/ \E a \in Artifact : ExtractOutside(a)
  \/ \E r \in Run : FindDocument(r) \/ Submit(r) \/ Abandon(r)
  \/ \E w \in Worker : Execute(w)

Sweeping == \/ Tick
            \/ \E r \in Run : AdmitCheck(r) \/ RecordCheck(r)
            \/ \E p \in Sweeper : SweepStep(p)

Cancelling == \E r \in Run : Cancel(r)
Stopping   == \E p \in Remover : Interrupt(p)
Erasing    == \E p \in Eraser : EraseStep(p) /\ (rpc'[p] # "idle" => scope'[p] = scenario)

MCInit == Init /\ scenario \in Scenarios

MCNext == /\ UNCHANGED scenario
          /\ \/ Environment
             \/ scenario \in {"cancels", "stops"} /\ Sweeping
             \/ scenario = "cancels" /\ Cancelling
             \/ scenario = "stops" /\ Stopping
             \/ scenario \in Erasable /\ Erasing

MCSpec == MCInit /\ [][MCNext]_<<vars, scenario>>
=============================================================================
