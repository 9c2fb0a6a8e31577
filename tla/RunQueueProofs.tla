---------------------------- MODULE RunQueueProofs ----------------------------
(***************************************************************************)
(* What RunQueue guarantees for every number of runs, workers and clients, *)
(* every lease, attempt limit and clock skew: IInv is an inductive         *)
(* invariant, and the safety properties follow from it.                    *)
(*                                                                         *)
(* One lemma per action (per group of actions, where they disturb the same *)
(* conjuncts) shows that it preserves IInv, one step per conjunct.         *)
(***************************************************************************)
EXTENDS RunQueue, FiniteSetTheorems, TLAPS

USE IdentityAssumption, BoundAssumption, KindAssumption, ClockAssumption

-----------------------------------------------------------------------------
(* Initial states.                                                         *)

LEMMA InitTypeOK == Init => TypeOK
BY DEF Init, TypeOK, Status, RunSpec, Kinds, WorkerPc, Verdict, Request, NoRequest

LEMMA InitIInv == Init => IInv
<1> SUFFICES ASSUME Init PROVE IInv
  OBVIOUS
<1>1. TypeOK
  BY InitTypeOK
<1>2. ControlInv
  BY DEF Init, ControlInv, NoRequest, Attending
<1>3. OwnershipIsCurrent /\ NoRunBecomesInvisible
  BY DEF Init, OwnershipIsCurrent, NoRunBecomesInvisible
<1>4. CancelInv /\ WithdrawnInv
  BY DEF Init, CancelInv, CancelledWasAsked, WithdrawnInv, WithdrawnNeverSucceeds
<1>5. DeliveryMatchesVerdict
  BY DEF Init, DeliveryMatchesVerdict, Terminal
<1>q. QED
  BY <1>1, <1>2, <1>3, <1>4, <1>5 DEF IInv

-----------------------------------------------------------------------------
(* Shapes that several steps share.                                        *)

(* The end of an attempt resets what the worker remembers of it.           *)
LEMMA EndShape ==
  ASSUME TypeOK, NEW w \in Worker, NEW to \in WorkerPc, EndAttempt(w, to)
  PROVE  /\ pc' \in [Worker -> WorkerPc] /\ job' \in [Worker -> Run \union {None}]
         /\ stage' \in [Worker -> Nat] /\ outcome' \in [Worker -> Verdict]
         /\ doomed' \in [Worker -> SUBSET Run] /\ beating' \in SUBSET Worker
         /\ pc'[w] = to /\ job'[w] = None /\ outcome'[w] = "none" /\ doomed'[w] = {}
         /\ w \notin beating' /\ beating' \subseteq beating
         /\ \A v \in Worker \ {w} : /\ pc'[v] = pc[v] /\ job'[v] = job[v]
                                    /\ outcome'[v] = outcome[v] /\ doomed'[v] = doomed[v]
BY DEF TypeOK, EndAttempt, Verdict

(* The one transaction of finish, on a run r.                              *)
LEMMA VerdictShape ==
  ASSUME TypeOK, NEW r \in Run, NEW v \in Terminal, WriteVerdict(r, v)
  PROVE  /\ status' \in [Run -> Status] /\ owner' \in [Run -> Worker \union {None}]
         /\ lease' \in [Run -> Int] /\ deliveries' \in SUBSET Run
         /\ UNCHANGED <<spec, attempts, asked, abandoned>>
         /\ status'[r] = v /\ owner'[r] = None
         /\ \A q \in Run \ {r} : status'[q] = status[q] /\ owner'[q] = owner[q]
         /\ deliveries' = IF spec[r].callback THEN deliveries \union {r} ELSE deliveries
BY DEF TypeOK, WriteVerdict, Notified, Status, Terminal

(* A decision taken between two statements touches pc, outcome and stage.  *)
Decision(w) ==
  \/ Prepare(w) \/ StopAtBoundary(w) \/ CancelAtBoundary(w) \/ EnterStage(w)
  \/ EnterStageBlind(w) \/ FailStage(w) \/ PassStage(w) \/ PassLastStage(w)
  \/ HaltedByCaller(w) \/ HaltedByShutdown(w) \/ HaltedBlind(w)

LEMMA DecisionShape ==
  ASSUME TypeOK, ControlInv, NEW w \in Worker, Decision(w)
  PROVE  /\ NoStatement
         /\ pc[w] \in Attending /\ pc[w] # "conclude"
         /\ \/ /\ pc'[w] \in Attending \ {"conclude"}
               /\ UNCHANGED outcome
            \/ /\ pc'[w] = "conclude"
               /\ outcome'[w] \in Terminal
         /\ \A v \in Worker \ {w} : pc'[v] = pc[v] /\ outcome'[v] = outcome[v]
         /\ pc' \in [Worker -> WorkerPc] /\ outcome' \in [Worker -> Verdict]
         /\ stage' \in [Worker -> Nat]
         /\ outcome'[w] = "cancelled" => job[w] \in asked
         /\ withdrawn' \subseteq withdrawn
         /\ disruptions' \in 0 .. MaxDisruptions
         /\ (pc'[w] = "stage" \/ outcome'[w] = "succeeded")
              => pc[w] = "stage" \/ job[w] \notin asked \/ job[w] \notin withdrawn'
<1> USE DEF TypeOK, ControlInv, Proceed, Decide, Attending, WorkerPc, Terminal, Verdict
<1>1. CASE Prepare(w)
  BY <1>1 DEF Prepare
<1>2. CASE StopAtBoundary(w)
  BY <1>2 DEF StopAtBoundary
<1>3. CASE CancelAtBoundary(w)
  BY <1>3 DEF CancelAtBoundary
<1>4. CASE EnterStage(w)
  BY <1>4 DEF EnterStage
<1>5. CASE EnterStageBlind(w)
  BY <1>5 DEF EnterStageBlind, Disrupt
<1>6. CASE FailStage(w)
  BY <1>6 DEF FailStage
<1>7. CASE PassStage(w)
  BY <1>7 DEF PassStage
<1>8. CASE PassLastStage(w)
  BY <1>8 DEF PassLastStage
<1>9. CASE HaltedByCaller(w)
  BY <1>9 DEF HaltedByCaller
<1>10. CASE HaltedByShutdown(w)
  BY <1>10 DEF HaltedByShutdown
<1>11. CASE HaltedBlind(w)
  BY <1>11 DEF HaltedBlind, Disrupt
<1>q. QED
  BY <1>1, <1>2, <1>3, <1>4, <1>5, <1>6, <1>7, <1>8, <1>9, <1>10, <1>11 DEF Decision

-----------------------------------------------------------------------------
(* Each step preserves IInv.                                               *)

LEMMA StepDecision ==
  ASSUME IInv, NEW w \in Worker, Decision(w)
  PROVE  IInv'
<1>1. TypeOK /\ ControlInv
  BY DEF IInv
<1> USE <1>1, DecisionShape
<1>2. /\ UNCHANGED <<status, spec, attempts, owner, lease, asked, abandoned, deliveries>>
      /\ UNCHANGED <<job, doomed, beating, stopping, request, lost, crashes>>
  BY DEF NoStatement, table
<1>3. TypeOK'
  BY <1>2 DEF TypeOK
<1>4. ControlInv'
  BY <1>2 DEF ControlInv, Attending, TypeOK, Terminal
<1>5. OwnershipIsCurrent' /\ NoRunBecomesInvisible'
  BY <1>2 DEF IInv, OwnershipIsCurrent, NoRunBecomesInvisible, Owns
<1>6. CancelInv'
  BY <1>2 DEF IInv, CancelInv, CancelledWasAsked
<1>7. WithdrawnInv'
  <2>1. WithdrawnNeverSucceeds' /\ withdrawn' \subseteq asked'
    BY <1>2 DEF IInv, WithdrawnInv, WithdrawnNeverSucceeds
  <2>2. ASSUME NEW v \in Worker, v \notin lost', job'[v] \in withdrawn'
        PROVE  pc'[v] # "stage" /\ outcome'[v] # "succeeded"
    <3>1. job[v] \in withdrawn /\ v \notin lost
      BY <1>2, <2>2
    <3>2. pc[v] # "stage" /\ outcome[v] # "succeeded"
      BY <3>1 DEF IInv, WithdrawnInv
    <3>3. CASE v = w
      BY <1>2, <2>1, <2>2, <3>2, <3>3
    <3>4. CASE v # w
      BY <3>2, <3>4
    <3>q. QED
      BY <3>3, <3>4
  <2>q. QED
    BY <2>1, <2>2 DEF WithdrawnInv
<1>8. DeliveryMatchesVerdict'
  BY <1>2 DEF IInv, DeliveryMatchesVerdict
<1>q. QED
  BY <1>3, <1>4, <1>5, <1>6, <1>7, <1>8 DEF IInv

LEMMA StepSubmit ==
  ASSUME IInv, NEW r \in Run, NEW k \in Kinds, NEW b \in BOOLEAN, Submit(r, k, b)
  PROVE  IInv'
<1>1. /\ status[r] = "absent" /\ status' = [status EXCEPT ![r] = "queued"]
      /\ spec' = [spec EXCEPT ![r] = [kind |-> k, callback |-> b]]
      /\ UNCHANGED <<attempts, owner, lease, asked, abandoned, deliveries>>
      /\ UNCHANGED <<pc, job, stage, outcome, doomed, beating, stopping, request>>
      /\ UNCHANGED <<lost, withdrawn, crashes, disruptions>>
  BY DEF Submit, attempt, history
<1>2. TypeOK'
  BY <1>1 DEF IInv, TypeOK, RunSpec, Status, Unsettled
<1>3. ControlInv'
  BY <1>1 DEF IInv, TypeOK, ControlInv
<1>4. OwnershipIsCurrent'
  BY <1>1 DEF IInv, TypeOK, OwnershipIsCurrent, Owns
<1>5. NoRunBecomesInvisible'
  BY <1>1 DEF IInv, TypeOK, NoRunBecomesInvisible, ControlInv
<1>6. CancelInv' /\ WithdrawnInv'
  BY <1>1 DEF IInv, TypeOK, CancelInv, CancelledWasAsked, WithdrawnInv, WithdrawnNeverSucceeds
<1>7. DeliveryMatchesVerdict'
  BY <1>1 DEF IInv, TypeOK, DeliveryMatchesVerdict, Terminal
<1>q. QED
  BY <1>2, <1>3, <1>4, <1>5, <1>6, <1>7 DEF IInv

LEMMA StepCancelRead ==
  ASSUME IInv, NEW c \in Client, NEW r \in Run, CancelRead(c, r)
  PROVE  IInv'
<1>1. /\ status[r] \in Unsettled
      /\ request' = [request EXCEPT ![c] = [pc |-> "flag", run |-> r, read |-> status[r]]]
      /\ UNCHANGED <<status, spec, attempts, owner, lease, asked, abandoned, deliveries>>
      /\ UNCHANGED <<pc, job, stage, outcome, doomed, beating, stopping>>
      /\ UNCHANGED <<lost, withdrawn, crashes, disruptions>>
  BY DEF CancelRead, table, attempt, history
<1>2. TypeOK'
  BY <1>1 DEF IInv, TypeOK, Request
<1>3. ControlInv'
  BY <1>1 DEF IInv, TypeOK, ControlInv, Unsettled, Request
<1>q. QED
  BY <1>1, <1>2, <1>3 DEF IInv, OwnershipIsCurrent, Owns, NoRunBecomesInvisible, CancelInv,
     CancelledWasAsked, WithdrawnInv, WithdrawnNeverSucceeds, DeliveryMatchesVerdict

LEMMA StepCancelFlag ==
  ASSUME IInv, NEW c \in Client, CancelFlag(c)
  PROVE  IInv'
<1> DEFINE r == request[c].run
<1>1. r \in Run /\ status[r] # "absent"
  BY DEF IInv, ControlInv, CancelFlag
<1>2. /\ asked' = asked \union {r}
      /\ withdrawn' = IF status[r] = "queued" THEN withdrawn \union {r} ELSE withdrawn
      /\ request' = [request EXCEPT ![c] = IF request[c].read = "queued"
                                           THEN [pc |-> "finish", run |-> r, read |-> "queued"]
                                           ELSE NoRequest]
      /\ UNCHANGED <<status, spec, attempts, owner, lease, abandoned, deliveries>>
      /\ UNCHANGED <<pc, job, stage, outcome, doomed, beating, stopping>>
      /\ UNCHANGED <<lost, crashes, disruptions>>
  BY DEF CancelFlag, attempt
<1>3. TypeOK'
  BY <1>1, <1>2 DEF IInv, TypeOK, Request, NoRequest, Status, Unsettled
<1>4. ControlInv'
  BY <1>1, <1>2 DEF IInv, TypeOK, ControlInv, Request, NoRequest
<1>5. OwnershipIsCurrent' /\ NoRunBecomesInvisible' /\ DeliveryMatchesVerdict'
  BY <1>2 DEF IInv, OwnershipIsCurrent, Owns, NoRunBecomesInvisible, DeliveryMatchesVerdict
<1>6. CancelInv'
  BY <1>2 DEF IInv, CancelInv, CancelledWasAsked
<1>7. WithdrawnInv'
  <2>1. WithdrawnNeverSucceeds' /\ withdrawn' \subseteq asked'
    BY <1>1, <1>2 DEF IInv, WithdrawnInv, WithdrawnNeverSucceeds
  <2>2. ASSUME NEW w \in Worker, w \notin lost, job[w] \in withdrawn'
        PROVE  job[w] \in withdrawn
    BY <1>1, <1>2, <2>2 DEF IInv, TypeOK, OwnershipIsCurrent, Owns
  <2>q. QED
    BY <1>2, <2>1, <2>2 DEF IInv, WithdrawnInv
<1>q. QED
  BY <1>3, <1>4, <1>5, <1>6, <1>7 DEF IInv

LEMMA StepCancelFinish ==
  ASSUME IInv, NEW c \in Client, CancelFinish(c)
  PROVE  IInv'
<1> DEFINE r == request[c].run
<1>1. r \in Run /\ r \in asked
  BY DEF IInv, ControlInv, CancelFinish
<1>2. /\ request' = [request EXCEPT ![c] = NoRequest]
      /\ UNCHANGED <<pc, job, stage, outcome, doomed, beating, stopping>>
      /\ UNCHANGED <<lost, withdrawn, crashes, disruptions>>
  BY DEF CancelFinish, attempt, history
<1>3. request' \in [Client -> Request]
  BY <1>2 DEF IInv, TypeOK, Request, NoRequest, Status
<1>4. CASE UNCHANGED <<table, deliveries>>
  <2>1. UNCHANGED <<status, spec, attempts, owner, lease, asked, abandoned, deliveries>>
    BY <1>4 DEF table
  <2>2. TypeOK'
    BY <1>2, <1>3, <2>1 DEF IInv, TypeOK
  <2>3. ControlInv'
    BY <1>2, <2>1 DEF IInv, TypeOK, ControlInv, Request, NoRequest
  <2>q. QED
    BY <1>2, <2>1, <2>2, <2>3 DEF IInv, OwnershipIsCurrent, Owns, NoRunBecomesInvisible,
       CancelInv, CancelledWasAsked, WithdrawnInv, WithdrawnNeverSucceeds,
       DeliveryMatchesVerdict
<1>5. CASE status[r] = "queued" /\ WriteVerdict(r, "cancelled")
  <2> USE VerdictShape
  <2>0. TypeOK /\ "cancelled" \in Terminal
    BY DEF IInv, Terminal
  <2>1. /\ status'[r] = "cancelled" /\ owner'[r] = None
        /\ \A q \in Run \ {r} : status'[q] = status[q] /\ owner'[q] = owner[q]
        /\ UNCHANGED <<spec, attempts, asked, abandoned>>
        /\ deliveries' = IF spec[r].callback THEN deliveries \union {r} ELSE deliveries
    BY <1>1, <1>5, <2>0
  <2>2. TypeOK'
    <3>1. /\ status' \in [Run -> Status] /\ owner' \in [Run -> Worker \union {None}]
          /\ lease' \in [Run -> Int] /\ deliveries' \in SUBSET Run
      BY <1>1, <1>5, <2>0
    <3>q. QED
      BY <1>2, <1>3, <2>1, <3>1 DEF IInv, TypeOK
  <2>3. ControlInv'
    BY <1>1, <1>2, <1>5, <2>1 DEF IInv, TypeOK, ControlInv, Request, NoRequest
  <2>4. OwnershipIsCurrent'
    BY <1>1, <1>2, <1>5, <2>1 DEF IInv, TypeOK, OwnershipIsCurrent, Owns
  <2>5. NoRunBecomesInvisible' /\ CancelInv'
    BY <1>1, <1>2, <2>1 DEF IInv, TypeOK, NoRunBecomesInvisible, CancelInv, CancelledWasAsked
  <2>6. WithdrawnInv'
    BY <1>1, <1>2, <2>1 DEF IInv, TypeOK, WithdrawnInv, WithdrawnNeverSucceeds
  <2>7. DeliveryMatchesVerdict'
    BY <1>1, <1>5, <2>1 DEF IInv, TypeOK, DeliveryMatchesVerdict, Terminal
  <2>q. QED
    BY <2>2, <2>3, <2>4, <2>5, <2>6, <2>7 DEF IInv
<1>q. QED
  BY <1>4, <1>5 DEF CancelFinish, StillQueued

LEMMA StepAbandonScan ==
  ASSUME IInv, NEW w \in Worker, AbandonScan(w)
  PROVE  IInv'
<1> DEFINE S == {r \in Run : Doomed(r, w)}
<1>1. /\ pc[w] = "idle" /\ pc' = [pc EXCEPT ![w] = "sweep"]
      /\ doomed' = [doomed EXCEPT ![w] = S]
      /\ UNCHANGED <<status, spec, attempts, owner, lease, asked, abandoned, deliveries>>
      /\ UNCHANGED <<job, stage, outcome, beating, stopping, request>>
      /\ UNCHANGED <<lost, withdrawn, crashes, disruptions>>
  BY DEF AbandonScan, table, history
<1>2. S \in SUBSET Run
  OBVIOUS
<1>3. \A r \in S : status[r] # "absent"
  BY DEF Doomed
<1> HIDE DEF S
<1>4. TypeOK'
  BY <1>1, <1>2 DEF IInv, TypeOK, WorkerPc
<1>5. ControlInv'
  BY <1>1, <1>3 DEF IInv, TypeOK, ControlInv, Attending
<1>6. OwnershipIsCurrent' /\ NoRunBecomesInvisible' /\ CancelInv' /\ DeliveryMatchesVerdict'
  BY <1>1 DEF IInv, OwnershipIsCurrent, Owns, NoRunBecomesInvisible, CancelInv,
     CancelledWasAsked, DeliveryMatchesVerdict
<1>7. WithdrawnInv'
  BY <1>1 DEF IInv, TypeOK, WithdrawnInv, WithdrawnNeverSucceeds
<1>q. QED
  BY <1>4, <1>5, <1>6, <1>7 DEF IInv

(* The abandoning UPDATE fails the runs of its snapshot, whatever they are by
   then, and revokes every attempt on them.                                *)
LEMMA StepAbandonApply ==
  ASSUME IInv, NEW w \in Worker, AbandonApply(w)
  PROVE  IInv'
<1> DEFINE S == doomed[w]
           L == {v \in Worker : job[v] \in S}
<1>1. TypeOK /\ "claim" \in WorkerPc /\ pc[w] = "sweep" /\ EndAttempt(w, "claim")
  BY DEF IInv, AbandonApply, WorkerPc
<1>2. /\ S \in SUBSET Run
      /\ \A r \in S : status[r] \notin {"absent", "succeeded"}
  BY <1>1 DEF IInv, TypeOK, ControlInv, AbandonApply, RespectsSuccess
<1>3. job[w] = None /\ w \notin lost /\ outcome[w] = "none" /\ w \notin beating
  BY <1>1 DEF IInv, ControlInv, Attending
<1>4. L \in SUBSET Worker /\ (\A v \in Worker : v \in L <=> job[v] \in S)
  OBVIOUS
<1> HIDE DEF L
<1>5. /\ lost' = lost \union L
      /\ abandoned' = abandoned \union S
      /\ UNCHANGED <<spec, attempts, asked, deliveries, stopping, request>>
      /\ UNCHANGED <<withdrawn, crashes, disruptions>>
  BY DEF AbandonApply, L
<1>6. \A r \in Run : /\ status'[r] = IF r \in S THEN "failed" ELSE status[r]
                     /\ owner'[r] = IF r \in S THEN None ELSE owner[r]
  BY DEF AbandonApply
<1>7. /\ status' = [r \in Run |-> IF r \in S THEN "failed" ELSE status[r]]
      /\ owner' = [r \in Run |-> IF r \in S THEN None ELSE owner[r]]
      /\ lease' = [r \in Run |-> IF r \in S THEN Floor ELSE lease[r]]
  BY DEF AbandonApply
<1>8. \A r \in Run : status[r] \in Status /\ owner[r] \in Worker \union {None}
                     /\ lease[r] \in Int
  BY <1>1 DEF TypeOK
<1>9. /\ status' \in [Run -> Status] /\ owner' \in [Run -> Worker \union {None}]
      /\ lease' \in [Run -> Int]
  <2>1. "failed" \in Status
    BY DEF Status, Terminal
  <2>2. status' \in [Run -> Status]
    BY <1>7, <1>8, <2>1
  <2>3. owner' \in [Run -> Worker \union {None}]
    BY <1>7, <1>8
  <2>4. lease' \in [Run -> Int]
    BY <1>7, <1>8
  <2>q. QED
    BY <2>2, <2>3, <2>4
<1>10. /\ pc' \in [Worker -> WorkerPc] /\ job' \in [Worker -> Run \union {None}]
       /\ stage' \in [Worker -> Nat] /\ outcome' \in [Worker -> Verdict]
       /\ doomed' \in [Worker -> SUBSET Run] /\ beating' \in SUBSET Worker
       /\ pc'[w] = "claim" /\ job'[w] = None /\ outcome'[w] = "none" /\ doomed'[w] = {}
       /\ w \notin beating' /\ beating' \subseteq beating
       /\ \A v \in Worker \ {w} : /\ pc'[v] = pc[v] /\ job'[v] = job[v]
                                  /\ outcome'[v] = outcome[v] /\ doomed'[v] = doomed[v]
  BY <1>1, EndShape
<1> HIDE DEF S
<1>11. \A v \in Worker : job'[v] = job[v] /\ outcome'[v] = outcome[v]
  BY <1>3, <1>10
<1>12. TypeOK'
  BY <1>1, <1>2, <1>4, <1>5, <1>9, <1>10 DEF TypeOK
<1>13. ControlInv'
  <2>1. ASSUME NEW v \in Worker
        PROVE  /\ job'[v] # None <=> pc'[v] \in Attending
               /\ outcome'[v] # "none" <=> pc'[v] = "conclude"
               /\ v \in beating' \union lost' => job'[v] # None
               /\ \A r \in doomed'[v] : status'[r] # "absent"
    <3>1. /\ job'[v] # None <=> pc'[v] \in Attending
          /\ outcome'[v] # "none" <=> pc'[v] = "conclude"
      BY <1>10 DEF IInv, ControlInv, Attending
    <3>2. v \in beating' \union lost' => job'[v] # None
      BY <1>2, <1>4, <1>5, <1>10, <1>11 DEF IInv, ControlInv
    <3>3. \A r \in doomed'[v] : status'[r] # "absent"
      <4>1. \A r \in Run : status[r] # "absent" => status'[r] # "absent"
        BY <1>6
      <4>2. doomed'[v] \subseteq Run
        BY <1>10
      <4>3. \A r \in doomed'[v] : status[r] # "absent"
        BY <1>10 DEF IInv, ControlInv
      <4>q. QED
        BY <4>1, <4>2, <4>3
    <3>q. QED
      BY <3>1, <3>2, <3>3
  <2>2. ASSUME NEW c \in Client, request[c].pc # "idle"
        PROVE  request[c].run \in Run /\ status'[request[c].run] # "absent"
    BY <1>6, <2>2 DEF IInv, ControlInv
  <2>3. \A r \in Run : status'[r] = "absent" => attempts[r] = 0
    BY <1>6 DEF IInv, ControlInv
  <2>4. \A c \in Client : request[c].pc = "finish" => request[c].run \in asked
    BY DEF IInv, ControlInv
  <2>q. QED
    BY <1>5, <2>1, <2>2, <2>3, <2>4 DEF ControlInv
<1>14. OwnershipIsCurrent'
  <2>1. ASSUME NEW v \in Worker, job[v] # None
        PROVE  v \notin lost' <=> owner'[job[v]] = v
    BY <1>1, <1>4, <1>5, <1>6, <2>1 DEF IInv, TypeOK, OwnershipIsCurrent, Owns
  <2>2. \A r \in Run : owner'[r] # None <=> status'[r] = "running"
    BY <1>6 DEF IInv, OwnershipIsCurrent
  <2>q. QED
    BY <1>11, <2>1, <2>2 DEF OwnershipIsCurrent, Owns
<1>15. NoRunBecomesInvisible' /\ CancelInv' /\ DeliveryMatchesVerdict'
  <2>1. NoRunBecomesInvisible'
    BY <1>5, <1>6 DEF IInv, NoRunBecomesInvisible
  <2>2. CancelInv'
    BY <1>5, <1>6, <1>11 DEF IInv, CancelInv, CancelledWasAsked
  <2>3. DeliveryMatchesVerdict'
    BY <1>1, <1>5, <1>6 DEF IInv, TypeOK, DeliveryMatchesVerdict, Terminal
  <2>q. QED
    BY <2>1, <2>2, <2>3
<1>16. WithdrawnInv'
  <2>1. WithdrawnNeverSucceeds' /\ withdrawn' \subseteq asked'
    BY <1>1, <1>5, <1>6 DEF IInv, TypeOK, WithdrawnInv, WithdrawnNeverSucceeds
  <2>2. ASSUME NEW v \in Worker, v \notin lost', job'[v] \in withdrawn'
        PROVE  pc'[v] # "stage" /\ outcome'[v] # "succeeded"
    BY <1>5, <1>10, <1>11, <2>2 DEF IInv, WithdrawnInv
  <2>q. QED
    BY <2>1, <2>2 DEF WithdrawnInv
<1>q. QED
  BY <1>12, <1>13, <1>14, <1>15, <1>16 DEF IInv

(* A new claim revokes every other attempt on the run, and only those.     *)
LEMMA StepClaim ==
  ASSUME IInv, NEW w \in Worker, NEW r \in Run, Claim(w, r)
  PROVE  IInv'
<1> DEFINE E == Executing(r)
<1>1. /\ pc[w] = "claim" /\ status[r] \in {"queued", "running"} /\ attempts[r] < MaxAttempts
      /\ status' = [status EXCEPT ![r] = "running"]
      /\ attempts' = [attempts EXCEPT ![r] = attempts[r] + 1]
      /\ owner' = [owner EXCEPT ![r] = w]
      /\ lease' = [lease EXCEPT ![r] = Lease + Skew[w]]
      /\ pc' = [pc EXCEPT ![w] = "claimed"]
      /\ job' = [job EXCEPT ![w] = r]
      /\ beating' = beating \union {w}
      /\ lost' = (lost \union E) \ {w}
      /\ UNCHANGED <<spec, asked, abandoned, deliveries, stage, outcome, doomed>>
      /\ UNCHANGED <<stopping, request, withdrawn, crashes, disruptions>>
  BY DEF Claim, Eligible, CountedClaim
<1>2. E \in SUBSET Worker /\ (\A v \in Worker : v \in E <=> job[v] = r)
  BY DEF Executing
<1> HIDE DEF E
<1>3. job[w] = None /\ outcome[w] = "none" /\ w \notin lost
  BY <1>1 DEF IInv, ControlInv, Attending
<1>4. TypeOK'
  <2>1. attempts' \in [Run -> 0 .. MaxAttempts]
    BY <1>1 DEF IInv, TypeOK
  <2>2. lease' \in [Run -> Int]
    BY <1>1 DEF IInv, TypeOK
  <2>3. status' \in [Run -> Status] /\ owner' \in [Run -> Worker \union {None}]
    BY <1>1 DEF IInv, TypeOK, Status, Unsettled
  <2>4. /\ pc' \in [Worker -> WorkerPc] /\ job' \in [Worker -> Run \union {None}]
        /\ beating' \in SUBSET Worker /\ lost' \in SUBSET Worker
    BY <1>1, <1>2 DEF IInv, TypeOK, WorkerPc
  <2>q. QED
    BY <1>1, <2>1, <2>2, <2>3, <2>4 DEF IInv, TypeOK
<1>5. \A q \in Run : status'[q] = IF q = r THEN "running" ELSE status[q]
  BY <1>1 DEF IInv, TypeOK
<1>6. \A v \in Worker : /\ job'[v] = IF v = w THEN r ELSE job[v]
                        /\ pc'[v] = IF v = w THEN "claimed" ELSE pc[v]
  BY <1>1 DEF IInv, TypeOK
<1>7. ControlInv'
  <2>1. ASSUME NEW v \in Worker
        PROVE  /\ job'[v] # None <=> pc'[v] \in Attending
               /\ outcome'[v] # "none" <=> pc'[v] = "conclude"
               /\ v \in beating' \union lost' => job'[v] # None
               /\ \A q \in doomed'[v] : status'[q] # "absent"
    <3>1. job'[v] # None <=> pc'[v] \in Attending
      BY <1>6 DEF IInv, ControlInv, Attending
    <3>2. outcome'[v] # "none" <=> pc'[v] = "conclude"
      BY <1>1, <1>3, <1>6 DEF IInv, ControlInv
    <3>3. v \in beating' \union lost' => job'[v] # None
      BY <1>1, <1>2, <1>6 DEF IInv, ControlInv
    <3>4. \A q \in doomed'[v] : status'[q] # "absent"
      BY <1>1, <1>5 DEF IInv, TypeOK, ControlInv
    <3>q. QED
      BY <3>1, <3>2, <3>3, <3>4
  <2>2. ASSUME NEW c \in Client, request[c].pc # "idle"
        PROVE  request[c].run \in Run /\ status'[request[c].run] # "absent"
    BY <1>5, <2>2 DEF IInv, ControlInv
  <2>3. \A q \in Run : status'[q] = "absent" => attempts'[q] = 0
    BY <1>1, <1>5 DEF IInv, TypeOK, ControlInv
  <2>4. \A c \in Client : request[c].pc = "finish" => request[c].run \in asked
    BY DEF IInv, ControlInv
  <2>q. QED
    BY <1>1, <2>1, <2>2, <2>3, <2>4 DEF ControlInv
<1>8. OwnershipIsCurrent'
  <2>1. ASSUME NEW v \in Worker, job'[v] # None
        PROVE  v \notin lost' <=> owner'[job'[v]] = v
    <3>1. CASE v = w
      BY <1>1, <1>6, <3>1 DEF IInv, TypeOK
    <3>2. CASE v # w /\ job[v] = r
      BY <1>1, <1>2, <1>6, <3>2 DEF IInv, TypeOK
    <3>3. CASE v # w /\ job[v] # r
      BY <1>1, <1>2, <1>6, <2>1, <3>3 DEF IInv, TypeOK, OwnershipIsCurrent, Owns
    <3>q. QED
      BY <3>1, <3>2, <3>3
  <2>2. \A q \in Run : owner'[q] # None <=> status'[q] = "running"
    BY <1>1, <1>5 DEF IInv, TypeOK, OwnershipIsCurrent
  <2>q. QED
    BY <2>1, <2>2 DEF OwnershipIsCurrent, Owns
<1>9. NoRunBecomesInvisible'
  BY <1>1, <1>5 DEF IInv, TypeOK, NoRunBecomesInvisible
<1>10. CancelInv'
  BY <1>1, <1>3, <1>5, <1>6 DEF IInv, CancelInv, CancelledWasAsked
<1>11. WithdrawnInv'
  <2>1. WithdrawnNeverSucceeds' /\ withdrawn' \subseteq asked'
    BY <1>1, <1>5 DEF IInv, TypeOK, WithdrawnInv, WithdrawnNeverSucceeds
  <2>2. ASSUME NEW v \in Worker, v \notin lost', job'[v] \in withdrawn'
        PROVE  pc'[v] # "stage" /\ outcome'[v] # "succeeded"
    <3>1. CASE v = w
      BY <1>1, <1>3, <1>6, <3>1
    <3>2. CASE v # w
      BY <1>1, <1>6, <2>2, <3>2 DEF IInv, WithdrawnInv
    <3>q. QED
      BY <3>1, <3>2
  <2>q. QED
    BY <2>1, <2>2 DEF WithdrawnInv
<1>12. DeliveryMatchesVerdict'
  BY <1>1, <1>5 DEF IInv, TypeOK, DeliveryMatchesVerdict, Terminal
<1>q. QED
  BY <1>4, <1>7, <1>8, <1>9, <1>10, <1>11, <1>12 DEF IInv

(* Steps that change nothing but where an idle worker is, or its stop flag. *)
LEMMA StepIdle ==
  ASSUME IInv, NEW w \in Worker, ClaimNothing(w) \/ Exit(w) \/ Restart(w) \/ Signal(w)
  PROVE  IInv'
<1>1. /\ UNCHANGED <<status, spec, attempts, owner, lease, asked, abandoned, deliveries>>
      /\ UNCHANGED <<job, stage, outcome, doomed, beating, request>>
      /\ UNCHANGED <<lost, withdrawn, crashes>>
  BY DEF ClaimNothing, Exit, Restart, Signal, table, attempt, history
<1>2. /\ stopping' \in SUBSET Worker
      /\ disruptions' \in 0 .. MaxDisruptions
      /\ \/ UNCHANGED pc
         \/ /\ pc[w] \notin Attending
            /\ \E to \in {"idle", "down"} : pc' = [pc EXCEPT ![w] = to]
  BY DEF IInv, TypeOK, ClaimNothing, Exit, Restart, Signal, Disrupt, Attending
<1>3. pc' \in [Worker -> WorkerPc]
  BY <1>2 DEF IInv, TypeOK, WorkerPc
<1>4. \A v \in Worker : /\ pc'[v] \in Attending <=> pc[v] \in Attending
                        /\ pc'[v] = "conclude" <=> pc[v] = "conclude"
                        /\ pc'[v] = "stage" <=> pc[v] = "stage"
  BY <1>2 DEF IInv, TypeOK, Attending
<1>5. TypeOK'
  BY <1>1, <1>2, <1>3 DEF IInv, TypeOK
<1>6. ControlInv'
  BY <1>1, <1>4 DEF IInv, ControlInv
<1>q. QED
  BY <1>1, <1>4, <1>5, <1>6 DEF IInv, OwnershipIsCurrent, Owns, NoRunBecomesInvisible,
     CancelInv, CancelledWasAsked, WithdrawnInv, WithdrawnNeverSucceeds,
     DeliveryMatchesVerdict

(* An attempt that vanishes leaves the table to say who owned the run. The
   worker forgets it: that OwnershipIsCurrent speaks of attempts in flight. *)
LEMMA StepVanish ==
  ASSUME IInv, NEW w \in Worker, Crash(w) \/ Outage(w)
  PROVE  IInv'
<1> DEFINE to == pc'[w]
<1>1. /\ to \in WorkerPc \ Attending /\ EndAttempt(w, to)
      /\ lost' = lost \ {w} /\ stopping' \in SUBSET Worker
      /\ disruptions' \in 0 .. MaxDisruptions
      /\ UNCHANGED <<status, spec, attempts, owner, lease, asked, abandoned, deliveries>>
      /\ UNCHANGED <<request, withdrawn>>
  BY DEF IInv, TypeOK, Crash, Outage, EndAttempt, Disrupt, table, Attending, WorkerPc
<1>2. crashes' \in [Run -> Nat]
  <2>1. \A r \in Run : crashes[r] \in Nat
    BY DEF IInv, TypeOK
  <2>2. CASE UNCHANGED crashes
    BY <2>2 DEF IInv, TypeOK
  <2>3. CASE crashes' = [r \in Run |-> IF job[w] = r THEN crashes[r] + 1 ELSE crashes[r]]
    BY <2>1, <2>3
  <2>q. QED
    BY <2>2, <2>3 DEF Crash, Outage
<1> HIDE DEF to
<1>3. TypeOK
  BY DEF IInv
<1>4. /\ pc' \in [Worker -> WorkerPc] /\ job' \in [Worker -> Run \union {None}]
      /\ stage' \in [Worker -> Nat] /\ outcome' \in [Worker -> Verdict]
      /\ doomed' \in [Worker -> SUBSET Run] /\ beating' \in SUBSET Worker
      /\ pc'[w] = to /\ job'[w] = None /\ outcome'[w] = "none" /\ doomed'[w] = {}
      /\ w \notin beating' /\ beating' \subseteq beating
      /\ \A v \in Worker \ {w} : /\ pc'[v] = pc[v] /\ job'[v] = job[v]
                                 /\ outcome'[v] = outcome[v] /\ doomed'[v] = doomed[v]
  BY <1>1, <1>3, EndShape
<1>5. TypeOK'
  BY <1>1, <1>2, <1>3, <1>4 DEF TypeOK
<1>6. ControlInv'
  BY <1>1, <1>4 DEF IInv, ControlInv, Attending
<1>7. OwnershipIsCurrent'
  BY <1>1, <1>4 DEF IInv, OwnershipIsCurrent, Owns
<1>8. NoRunBecomesInvisible' /\ DeliveryMatchesVerdict'
  BY <1>1 DEF IInv, NoRunBecomesInvisible, DeliveryMatchesVerdict
<1>9. CancelInv'
  BY <1>1, <1>4 DEF IInv, CancelInv, CancelledWasAsked
<1>10. WithdrawnInv'
  <2>1. WithdrawnNeverSucceeds' /\ withdrawn' \subseteq asked'
    BY <1>1 DEF IInv, WithdrawnInv, WithdrawnNeverSucceeds
  <2>2. ASSUME NEW v \in Worker, v \notin lost', job'[v] \in withdrawn'
        PROVE  pc'[v] # "stage" /\ outcome'[v] # "succeeded"
    <3>1. CASE v = w
      BY <1>1, <1>4, <3>1 DEF Attending
    <3>2. CASE v # w
      BY <1>1, <1>4, <2>2, <3>2 DEF IInv, WithdrawnInv
    <3>q. QED
      BY <3>1, <3>2
  <2>q. QED
    BY <2>1, <2>2 DEF WithdrawnInv
<1>q. QED
  BY <1>5, <1>6, <1>7, <1>8, <1>9, <1>10 DEF IInv

LEMMA StepBeat ==
  ASSUME IInv, NEW w \in Worker, Beat(w)
  PROVE  IInv'
<1>1. /\ job[w] \in Run
      /\ UNCHANGED <<status, spec, attempts, owner, asked, abandoned, deliveries>>
      /\ UNCHANGED <<pc, job, stage, outcome, doomed, stopping, request>>
      /\ UNCHANGED <<lost, withdrawn, crashes, disruptions>>
  BY DEF IInv, TypeOK, ControlInv, Beat, history
<1>2. lease' \in [Run -> Int] /\ beating' \in SUBSET Worker /\ beating' \subseteq beating
  BY <1>1 DEF IInv, TypeOK, Beat
<1>3. TypeOK'
  BY <1>1, <1>2 DEF IInv, TypeOK
<1>4. ControlInv'
  BY <1>1, <1>2 DEF IInv, ControlInv
<1>q. QED
  BY <1>1, <1>3, <1>4 DEF IInv, OwnershipIsCurrent, Owns, NoRunBecomesInvisible, CancelInv,
     CancelledWasAsked, WithdrawnInv, WithdrawnNeverSucceeds, DeliveryMatchesVerdict

LEMMA StepTick ==
  ASSUME IInv, Tick
  PROVE  IInv'
<1>1. /\ UNCHANGED <<status, spec, attempts, owner, asked, abandoned, deliveries>>
      /\ UNCHANGED <<pc, job, stage, outcome, doomed, beating, stopping, request>>
      /\ UNCHANGED <<lost, withdrawn, crashes, disruptions>>
  BY DEF Tick, attempt, history
<1>2. lease' \in [Run -> Int]
  <2>1. \A r \in Run : lease[r] \in Int
    BY DEF IInv, TypeOK
  <2>q. QED
    BY <2>1 DEF Tick
<1>3. TypeOK'
  BY <1>1, <1>2 DEF IInv, TypeOK
<1>q. QED
  BY <1>1, <1>3 DEF IInv, ControlInv, OwnershipIsCurrent, Owns, NoRunBecomesInvisible,
     CancelInv, CancelledWasAsked, WithdrawnInv, WithdrawnNeverSucceeds,
     DeliveryMatchesVerdict

(* Release puts the run back with its attempt refunded, if it is still the
   worker's; otherwise only the worker forgets it.                         *)
LEMMA StepRelease ==
  ASSUME IInv, NEW w \in Worker, Release(w)
  PROVE  IInv'
<1> DEFINE r == job[w]
<1>1. /\ TypeOK /\ r \in Run /\ pc[w] = "release" /\ EndAttempt(w, "idle")
      /\ "idle" \in WorkerPc
      /\ lost' = lost \ {w}
      /\ UNCHANGED <<spec, asked, abandoned, deliveries, stopping, request>>
      /\ UNCHANGED <<crashes, disruptions>>
  BY DEF IInv, TypeOK, ControlInv, Release, Attending, table, WorkerPc
<1>2. /\ pc' \in [Worker -> WorkerPc] /\ job' \in [Worker -> Run \union {None}]
      /\ stage' \in [Worker -> Nat] /\ outcome' \in [Worker -> Verdict]
      /\ doomed' \in [Worker -> SUBSET Run] /\ beating' \in SUBSET Worker
      /\ pc'[w] = "idle" /\ job'[w] = None /\ outcome'[w] = "none" /\ doomed'[w] = {}
      /\ w \notin beating' /\ beating' \subseteq beating
      /\ \A v \in Worker \ {w} : /\ pc'[v] = pc[v] /\ job'[v] = job[v]
                                 /\ outcome'[v] = outcome[v] /\ doomed'[v] = doomed[v]
  BY <1>1, EndShape
<1>3. CASE /\ status[r] = "running" /\ owner[r] = w
           /\ status' = [status EXCEPT ![r] = "queued"]
           /\ owner' = [owner EXCEPT ![r] = None]
           /\ lease' = [lease EXCEPT ![r] = Floor]
           /\ attempts' = [attempts EXCEPT ![r] = Refund(attempts[r])]
           /\ withdrawn' = IF r \in asked THEN withdrawn \union {r} ELSE withdrawn
  <2>1. attempts[r] \in 1 .. MaxAttempts /\ Refund(attempts[r]) = attempts[r] - 1
    BY <1>1, <1>3 DEF IInv, TypeOK, NoRunBecomesInvisible, Refund
  <2>2. TypeOK'
    <3>1. attempts' \in [Run -> 0 .. MaxAttempts]
      BY <1>1, <1>3, <2>1 DEF TypeOK
    <3>2. /\ status' \in [Run -> Status] /\ owner' \in [Run -> Worker \union {None}]
          /\ lease' \in [Run -> Int] /\ withdrawn' \in SUBSET Run
      BY <1>1, <1>3 DEF TypeOK, Status, Unsettled
    <3>q. QED
      BY <1>1, <1>2, <3>1, <3>2 DEF TypeOK
  <2>3. ControlInv'
    BY <1>1, <1>2, <1>3 DEF IInv, TypeOK, ControlInv, Attending
  <2>4. OwnershipIsCurrent'
    <3>1. ASSUME NEW v \in Worker, job'[v] # None
          PROVE  v \notin lost' <=> owner'[job'[v]] = v
      BY <1>1, <1>2, <1>3, <3>1 DEF IInv, TypeOK, OwnershipIsCurrent, Owns
    <3>2. \A q \in Run : owner'[q] # None <=> status'[q] = "running"
      BY <1>1, <1>3 DEF IInv, TypeOK, OwnershipIsCurrent
    <3>q. QED
      BY <3>1, <3>2 DEF OwnershipIsCurrent, Owns
  <2>5. NoRunBecomesInvisible'
    BY <1>1, <1>3, <2>1 DEF IInv, TypeOK, NoRunBecomesInvisible
  <2>6. CancelInv'
    BY <1>1, <1>2, <1>3 DEF IInv, TypeOK, CancelInv, CancelledWasAsked
  <2>7. WithdrawnInv'
    <3>1. WithdrawnNeverSucceeds' /\ withdrawn' \subseteq asked'
      BY <1>1, <1>3 DEF IInv, TypeOK, WithdrawnInv, WithdrawnNeverSucceeds
    <3>2. ASSUME NEW v \in Worker, v \notin lost', job'[v] \in withdrawn'
          PROVE  pc'[v] # "stage" /\ outcome'[v] # "succeeded"
      <4>1. CASE v = w
        BY <1>2, <4>1
      <4>2. CASE v # w
        <5>1. v \notin lost /\ job'[v] = job[v] /\ job[v] # r
          BY <1>1, <1>2, <1>3, <3>2, <4>2 DEF IInv, TypeOK, OwnershipIsCurrent, Owns
        <5>q. QED
          BY <1>2, <1>3, <3>2, <4>2, <5>1 DEF IInv, WithdrawnInv
      <4>q. QED
        BY <4>1, <4>2
    <3>q. QED
      BY <3>1, <3>2 DEF WithdrawnInv
  <2>8. DeliveryMatchesVerdict'
    BY <1>1, <1>3 DEF IInv, TypeOK, DeliveryMatchesVerdict, Terminal
  <2>q. QED
    BY <2>2, <2>3, <2>4, <2>5, <2>6, <2>7, <2>8 DEF IInv
<1>4. CASE UNCHANGED <<table, withdrawn>>
  <2>1. UNCHANGED <<status, attempts, owner, lease, withdrawn>>
    BY <1>4 DEF table
  <2>2. TypeOK'
    BY <1>1, <1>2, <2>1 DEF TypeOK
  <2>3. ControlInv'
    BY <1>1, <1>2, <2>1 DEF IInv, ControlInv, Attending
  <2>4. OwnershipIsCurrent'
    BY <1>1, <1>2, <2>1 DEF IInv, OwnershipIsCurrent, Owns
  <2>5. WithdrawnInv'
    BY <1>1, <1>2, <2>1 DEF IInv, WithdrawnInv, WithdrawnNeverSucceeds
  <2>q. QED
    BY <1>1, <1>2, <2>1, <2>2, <2>3, <2>4, <2>5 DEF IInv, NoRunBecomesInvisible,
       CancelInv, CancelledWasAsked, DeliveryMatchesVerdict
<1>q. QED
  BY <1>3, <1>4 DEF Release, Owns

(* Finish writes the verdict if the run is still the worker's.             *)
LEMMA StepConclude ==
  ASSUME IInv, NEW w \in Worker, Conclude(w)
  PROVE  IInv'
<1> DEFINE r == job[w]
<1>1. /\ TypeOK /\ r \in Run /\ pc[w] = "conclude" /\ EndAttempt(w, "idle")
      /\ "idle" \in WorkerPc /\ outcome[w] \in Terminal
      /\ lost' = lost \ {w}
      /\ UNCHANGED <<stopping, request, withdrawn, crashes, disruptions>>
  BY DEF IInv, TypeOK, ControlInv, Conclude, Attending, WorkerPc, Verdict
<1>2. /\ pc' \in [Worker -> WorkerPc] /\ job' \in [Worker -> Run \union {None}]
      /\ stage' \in [Worker -> Nat] /\ outcome' \in [Worker -> Verdict]
      /\ doomed' \in [Worker -> SUBSET Run] /\ beating' \in SUBSET Worker
      /\ pc'[w] = "idle" /\ job'[w] = None /\ outcome'[w] = "none" /\ doomed'[w] = {}
      /\ w \notin beating' /\ beating' \subseteq beating
      /\ \A v \in Worker \ {w} : /\ pc'[v] = pc[v] /\ job'[v] = job[v]
                                 /\ outcome'[v] = outcome[v] /\ doomed'[v] = doomed[v]
  BY <1>1, EndShape
<1>3. CASE owner[r] = w /\ WriteVerdict(r, outcome[w])
  <2>1. /\ status'[r] = outcome[w] /\ owner'[r] = None
        /\ \A q \in Run \ {r} : status'[q] = status[q] /\ owner'[q] = owner[q]
        /\ UNCHANGED <<spec, attempts, asked, abandoned>>
        /\ deliveries' = IF spec[r].callback THEN deliveries \union {r} ELSE deliveries
    BY <1>1, <1>3, VerdictShape
  <2>2. /\ status' \in [Run -> Status] /\ owner' \in [Run -> Worker \union {None}]
        /\ lease' \in [Run -> Int] /\ deliveries' \in SUBSET Run
    BY <1>1, <1>3, VerdictShape
  <2>3. TypeOK'
    BY <1>1, <1>2, <2>1, <2>2 DEF TypeOK
  <2>4. ControlInv'
    BY <1>1, <1>2, <2>1 DEF IInv, TypeOK, ControlInv, Attending, Terminal
  <2>5. OwnershipIsCurrent'
    <3>1. ASSUME NEW v \in Worker, job'[v] # None
          PROVE  v \notin lost' <=> owner'[job'[v]] = v
      BY <1>1, <1>2, <1>3, <2>1, <3>1 DEF IInv, TypeOK, OwnershipIsCurrent, Owns
    <3>2. \A q \in Run : owner'[q] # None <=> status'[q] = "running"
      BY <1>1, <2>1 DEF IInv, TypeOK, OwnershipIsCurrent, Terminal
    <3>q. QED
      BY <3>1, <3>2 DEF OwnershipIsCurrent, Owns
  <2>6. NoRunBecomesInvisible'
    BY <1>1, <2>1 DEF IInv, TypeOK, NoRunBecomesInvisible, Terminal
  <2>7. CancelInv'
    BY <1>1, <1>2, <2>1 DEF IInv, TypeOK, CancelInv, CancelledWasAsked
  <2>8. WithdrawnInv'
    <3>1. w \notin lost
      BY <1>1, <1>3 DEF IInv, TypeOK, OwnershipIsCurrent, Owns
    <3>2. WithdrawnNeverSucceeds' /\ withdrawn' \subseteq asked'
      BY <1>1, <2>1, <3>1 DEF IInv, TypeOK, WithdrawnInv, WithdrawnNeverSucceeds
    <3>3. ASSUME NEW v \in Worker, v \notin lost', job'[v] \in withdrawn'
          PROVE  pc'[v] # "stage" /\ outcome'[v] # "succeeded"
      <4>1. CASE v = w
        BY <1>2, <4>1
      <4>2. CASE v # w
        BY <1>1, <1>2, <3>3, <4>2 DEF IInv, WithdrawnInv
      <4>q. QED
        BY <4>1, <4>2
    <3>q. QED
      BY <3>2, <3>3 DEF WithdrawnInv
  <2>9. DeliveryMatchesVerdict'
    BY <1>1, <2>1 DEF IInv, TypeOK, DeliveryMatchesVerdict
  <2>q. QED
    BY <2>3, <2>4, <2>5, <2>6, <2>7, <2>8, <2>9 DEF IInv
<1>4. CASE UNCHANGED <<table, deliveries>>
  <2>1. UNCHANGED <<status, spec, attempts, owner, lease, asked, abandoned, deliveries>>
    BY <1>4 DEF table
  <2>2. TypeOK'
    BY <1>1, <1>2, <2>1 DEF TypeOK
  <2>3. ControlInv'
    BY <1>1, <1>2, <2>1 DEF IInv, ControlInv, Attending
  <2>4. OwnershipIsCurrent'
    BY <1>1, <1>2, <2>1 DEF IInv, OwnershipIsCurrent, Owns
  <2>5. WithdrawnInv'
    BY <1>1, <1>2, <2>1 DEF IInv, WithdrawnInv, WithdrawnNeverSucceeds
  <2>q. QED
    BY <1>1, <1>2, <2>1, <2>2, <2>3, <2>4, <2>5 DEF IInv, NoRunBecomesInvisible,
       CancelInv, CancelledWasAsked, DeliveryMatchesVerdict
<1>q. QED
  BY <1>3, <1>4 DEF Conclude, Owns

-----------------------------------------------------------------------------
(* The inductive invariant.                                                *)

LEMMA StepAbandonRefused ==
  ASSUME IInv, NEW w \in Worker, AbandonRefused(w)
  PROVE  IInv'
<1>1. /\ TypeOK /\ pc[w] = "sweep" /\ EndAttempt(w, "idle") /\ "idle" \in WorkerPc
      /\ UNCHANGED <<status, spec, attempts, owner, lease, asked, abandoned, deliveries>>
      /\ UNCHANGED <<stopping, request, lost, withdrawn, crashes, disruptions>>
  BY DEF IInv, AbandonRefused, table, history, WorkerPc
<1>2. /\ pc' \in [Worker -> WorkerPc] /\ job' \in [Worker -> Run \union {None}]
      /\ stage' \in [Worker -> Nat] /\ outcome' \in [Worker -> Verdict]
      /\ doomed' \in [Worker -> SUBSET Run] /\ beating' \in SUBSET Worker
      /\ pc'[w] = "idle" /\ job'[w] = None /\ outcome'[w] = "none" /\ doomed'[w] = {}
      /\ w \notin beating' /\ beating' \subseteq beating
      /\ \A v \in Worker \ {w} : /\ pc'[v] = pc[v] /\ job'[v] = job[v]
                                 /\ outcome'[v] = outcome[v] /\ doomed'[v] = doomed[v]
  BY <1>1, EndShape
<1>3. job[w] = None /\ w \notin lost
  BY <1>1 DEF IInv, ControlInv, Attending
<1>4. TypeOK'
  BY <1>1, <1>2 DEF TypeOK
<1>5. ControlInv'
  BY <1>1, <1>2, <1>3 DEF IInv, ControlInv, Attending
<1>6. OwnershipIsCurrent'
  BY <1>1, <1>2 DEF IInv, OwnershipIsCurrent, Owns
<1>7. WithdrawnInv'
  BY <1>1, <1>2 DEF IInv, WithdrawnInv, WithdrawnNeverSucceeds
<1>q. QED
  BY <1>1, <1>2, <1>4, <1>5, <1>6, <1>7 DEF IInv, NoRunBecomesInvisible, CancelInv,
     CancelledWasAsked, DeliveryMatchesVerdict

(* A step of any process, or a stutter, keeps IInv.                        *)
LEMMA IInvNext == IInv /\ [Next]_vars => IInv'
<1> SUFFICES ASSUME IInv, [Next]_vars PROVE IInv'
  OBVIOUS
<1>1. CASE UNCHANGED vars
  BY <1>1 DEF vars, table, attempt, history, IInv, TypeOK, ControlInv, OwnershipIsCurrent,
     Owns, NoRunBecomesInvisible, CancelInv, CancelledWasAsked, WithdrawnInv,
     WithdrawnNeverSucceeds, DeliveryMatchesVerdict
<1>2. CASE \E r \in Run, k \in Kinds, b \in BOOLEAN : Submit(r, k, b)
  BY <1>2, StepSubmit
<1>3. CASE \E c \in Client, r \in Run : CancelRead(c, r)
  BY <1>3, StepCancelRead
<1>4. CASE \E c \in Client : ClientStep(c)
  BY <1>4, StepCancelFlag, StepCancelFinish DEF ClientStep
<1>5. CASE Tick
  BY <1>5, StepTick
<1>6. ASSUME NEW w \in Worker, LoopStep(w)
      PROVE  IInv'
  BY <1>6, StepAbandonScan, StepAbandonApply, StepAbandonRefused, StepClaim, StepIdle
     DEF LoopStep
<1>7. ASSUME NEW w \in Worker, AttemptStep(w)
      PROVE  IInv'
  BY <1>7, StepDecision, StepRelease, StepConclude DEF AttemptStep, Decision
<1>8. ASSUME NEW w \in Worker, Fault(w)
      PROVE  IInv'
  BY <1>8, StepIdle, StepVanish, StepDecision DEF Fault, Decision
<1>q. QED
  BY <1>1, <1>2, <1>3, <1>4, <1>5, <1>6, <1>7, <1>8, StepBeat DEF Next

(* Everything IInv says holds in every reachable state.                    *)
THEOREM Invariance == Spec => []IInv
BY InitIInv, IInvNext, PTL DEF Spec

-----------------------------------------------------------------------------
(* What follows from it.                                                   *)

(* Every variable keeps its type, attempts within 0 .. MaxAttempts included. *)
THEOREM TypeCorrect == Spec => []TypeOK
<1>1. IInv => TypeOK
  BY DEF IInv
<1>q. QED
  BY <1>1, Invariance, PTL

(* The attempt whose worker_id the row carries is exactly the one nobody has
   superseded: the guard of heartbeat, release and finish is enough, however
   far apart the clocks of the workers are.                                *)
THEOREM OwnershipIsAlwaysCurrent == Spec => []OwnershipIsCurrent
<1>1. IInv => OwnershipIsCurrent
  BY DEF IInv
<1>q. QED
  BY <1>1, Invariance, PTL

(* A queued run is always eligible for a claim, however it got back into the
   queue: releases, redeliveries and abandonments never strand one.        *)
THEOREM RunsStayVisible == Spec => []NoRunBecomesInvisible
<1>1. IInv => NoRunBecomesInvisible
  BY DEF IInv
<1>q. QED
  BY <1>1, Invariance, PTL

(* A cancelled run had its cancel_requested flag set: no shutdown, lapsed
   lease or lost race is ever reported as a cancellation.                  *)
THEOREM CancelledRunsWereAsked == Spec => []CancelledWasAsked
<1>1. IInv => CancelledWasAsked
  BY DEF IInv, CancelInv
<1>q. QED
  BY <1>1, Invariance, PTL

(* A run cancelled while queued never succeeds, whatever redeliveries follow. *)
THEOREM WithdrawnRunsNeverSucceed == Spec => []WithdrawnNeverSucceeds
<1>1. IInv => WithdrawnNeverSucceeds
  BY DEF IInv, WithdrawnInv
<1>q. QED
  BY <1>1, Invariance, PTL

(* Deliveries exist for terminal runs with a callback only, and for every one
   of those that was not abandoned.                                        *)
THEOREM DeliveriesMatchVerdicts == Spec => []DeliveryMatchesVerdict
<1>1. IInv => DeliveryMatchesVerdict
  BY DEF IInv
<1>q. QED
  BY <1>1, Invariance, PTL

(* The action property of one step of a worker that lost its run.          *)
LEMMA LostStep ==
  ASSUME IInv, NEW w \in lost, Conclude(w) \/ Release(w) \/ Beat(w)
  PROVE  UNCHANGED <<table, deliveries>>
<1>1. w \in Worker /\ job[w] # None /\ owner[job[w]] # w
  BY DEF IInv, TypeOK, ControlInv, OwnershipIsCurrent, Owns
<1>2. CASE Conclude(w)
  BY <1>1, <1>2 DEF Conclude, Owns
<1>3. CASE Release(w)
  BY <1>1, <1>3 DEF Release, Owns
<1>4. CASE Beat(w)
  BY <1>1, <1>4 DEF Beat, Owns, table
<1>q. QED
  BY <1>2, <1>3, <1>4

(* A worker that was superseded or abandoned writes nothing any more: its
   verdict, its release and its heartbeat leave every row as it is.        *)
THEOREM LostAttemptsAreHarmless == Spec => LostAttemptsWriteNothing
<1>1. IInv => \A w \in lost : Conclude(w) \/ Release(w) \/ Beat(w)
                               => UNCHANGED <<table, deliveries>>
  BY LostStep
<1>q. QED
  BY <1>1, Invariance, PTL DEF LostAttemptsWriteNothing

(* No step takes a success back.                                           *)
LEMMA SuccessStep ==
  ASSUME IInv, [Next]_vars, NEW r \in Run, status[r] = "succeeded"
  PROVE  status'[r] = "succeeded"
<1>0. /\ TypeOK /\ r \in Run
      /\ \A w \in Worker : job[w] = r => ~Owns(w, r)
  BY DEF IInv, TypeOK, OwnershipIsCurrent, Owns
<1>1. CASE UNCHANGED vars
  BY <1>1 DEF vars, table
<1>2. ASSUME NEW q \in Run, NEW k \in Kinds, NEW b \in BOOLEAN, Submit(q, k, b)
      PROVE  status'[r] = "succeeded"
  BY <1>0, <1>2 DEF Submit, TypeOK
<1>3. ASSUME NEW c \in Client, NEW q \in Run, CancelRead(c, q)
      PROVE  status'[r] = "succeeded"
  BY <1>3 DEF CancelRead, table
<1>4. ASSUME NEW c \in Client, ClientStep(c)
      PROVE  status'[r] = "succeeded"
  <2>1. CASE CancelFlag(c)
    BY <2>1 DEF CancelFlag
  <2>2. CASE CancelFinish(c)
    BY <1>0, <2>2 DEF CancelFinish, StillQueued, WriteVerdict, TypeOK, table
  <2>q. QED
    BY <1>4, <2>1, <2>2 DEF ClientStep
<1>5. ASSUME NEW w \in Worker, LoopStep(w)
      PROVE  status'[r] = "succeeded"
  <2>1. CASE AbandonApply(w)
    BY <1>0, <2>1 DEF AbandonApply, RespectsSuccess
  <2>2. ASSUME NEW q \in Run, Claim(w, q)
        PROVE  status'[r] = "succeeded"
    BY <1>0, <2>2 DEF Claim, Eligible, TypeOK
  <2>3. CASE AbandonScan(w) \/ AbandonRefused(w) \/ ClaimNothing(w) \/ Exit(w) \/ Restart(w)
    BY <2>3 DEF AbandonScan, AbandonRefused, ClaimNothing, Exit, Restart, table
  <2>q. QED
    BY <1>5, <2>1, <2>2, <2>3 DEF LoopStep
<1>6. ASSUME NEW w \in Worker, Decision(w)
      PROVE  status'[r] = "succeeded"
  BY <1>6, DecisionShape DEF IInv, NoStatement, table
<1>7. ASSUME NEW w \in Worker, Release(w) \/ Conclude(w)
      PROVE  status'[r] = "succeeded"
  <2>1. CASE Release(w)
    BY <1>0, <2>1 DEF Release, table, TypeOK
  <2>2. CASE Conclude(w)
    BY <1>0, <2>2 DEF Conclude, WriteVerdict, table, TypeOK
  <2>q. QED
    BY <1>7, <2>1, <2>2
<1>8. ASSUME NEW w \in Worker, Beat(w) \/ Signal(w) \/ Crash(w) \/ Outage(w)
      PROVE  status'[r] = "succeeded"
  BY <1>8 DEF Beat, Signal, Crash, Outage, table
<1>9. CASE Tick
  BY <1>9 DEF Tick
<1>q. QED
  BY <1>1, <1>2, <1>3, <1>4, <1>5, <1>6, <1>7, <1>8, <1>9
     DEF Next, AttemptStep, Fault, Decision

(* A run that succeeded stays succeeded.                                   *)
THEOREM SuccessIsFinal == Spec => SucceededIsFinal
<1>1. IInv /\ [Next]_vars
        => \A r \in Run : status[r] = "succeeded" => status'[r] = "succeeded"
  BY SuccessStep
<1>q. QED
  BY <1>1, Invariance, PTL DEF Spec, SucceededIsFinal

LEMMA CancelStep ==
  ASSUME IInv, Next, NEW r \in Run, status[r] = "running", status'[r] = "cancelled"
  PROVE  \E w \in Executing(r) : Owns(w, r) /\ Conclude(w)
<1>0. TypeOK /\ (\A w \in Worker : status'[r] # status[r])
  BY DEF IInv
<1>1. ASSUME NEW q \in Run, NEW k \in Kinds, NEW b \in BOOLEAN, Submit(q, k, b) PROVE FALSE
  BY <1>0, <1>1 DEF Submit, TypeOK
<1>2. ASSUME NEW c \in Client, NEW q \in Run, CancelRead(c, q) PROVE FALSE
  BY <1>0, <1>2 DEF CancelRead, table
<1>3. ASSUME NEW c \in Client, ClientStep(c) PROVE FALSE
  <2>1. CASE CancelFlag(c)
    BY <1>0, <2>1 DEF CancelFlag
  <2>2. CASE CancelFinish(c)
    BY <1>0, <2>2 DEF CancelFinish, StillQueued, WriteVerdict, TypeOK, table
  <2>q. QED
    BY <1>3, <2>1, <2>2 DEF ClientStep
<1>4. ASSUME NEW w \in Worker, LoopStep(w) PROVE FALSE
  <2>1. CASE AbandonApply(w)
    BY <1>0, <2>1 DEF AbandonApply
  <2>2. ASSUME NEW q \in Run, Claim(w, q) PROVE FALSE
    BY <1>0, <2>2 DEF Claim, TypeOK
  <2>3. CASE AbandonScan(w) \/ AbandonRefused(w) \/ ClaimNothing(w) \/ Exit(w) \/ Restart(w)
    BY <1>0, <2>3 DEF AbandonScan, AbandonRefused, ClaimNothing, Exit, Restart, table
  <2>q. QED
    BY <1>4, <2>1, <2>2, <2>3 DEF LoopStep
<1>5. ASSUME NEW w \in Worker, Decision(w) PROVE FALSE
  BY <1>0, <1>5, DecisionShape DEF IInv, NoStatement, table
<1>6. ASSUME NEW w \in Worker, Release(w) PROVE FALSE
  BY <1>0, <1>6 DEF Release, table, TypeOK
<1>7. ASSUME NEW w \in Worker, Conclude(w) PROVE w \in Executing(r) /\ Owns(w, r)
  BY <1>0, <1>7 DEF Conclude, WriteVerdict, Executing, table, TypeOK
<1>8. ASSUME NEW w \in Worker, Beat(w) \/ Signal(w) \/ Crash(w) \/ Outage(w) PROVE FALSE
  BY <1>0, <1>8 DEF Beat, Signal, Crash, Outage, table
<1>9. CASE Tick
  BY <1>0, <1>9 DEF Tick
<1>q. QED
  BY <1>1, <1>2, <1>3, <1>4, <1>5, <1>6, <1>7, <1>8, <1>9
     DEF Next, AttemptStep, Fault, Decision

(* A running run is cancelled by the attempt that owns it, and by nobody else:
   a request's finish asks for a queued row (only_from), the abandoning
   statement only ever fails rows.                                          *)
THEOREM OnlyOwnersCancelRunning == Spec => CancelNeverStopsALiveAttempt
<1>1. IInv /\ [Next]_vars
        => [\A r \in Run : status[r] = "running" /\ status'[r] = "cancelled"
              => \E w \in Executing(r) : Owns(w, r) /\ Conclude(w)]_vars
  BY CancelStep
<1>q. QED
  BY <1>1, Invariance, PTL DEF Spec, CancelNeverStopsALiveAttempt

-----------------------------------------------------------------------------
(***************************************************************************)
(* PoisonIsBounded for every number of runs, workers and clients. It is    *)
(* not inductive: what bounds the deaths is that each of them, and each    *)
(* attempt still in flight, was charged to the run by the claim that began *)
(* it, and that only the attempt that owns the run gives its charge back.  *)
(***************************************************************************)

USE WorkerAssumption

LEMMA ExecutingFinite ==
  ASSUME NEW r \in Run
  PROVE  IsFiniteSet(Executing(r)) /\ Cardinality(Executing(r)) \in Nat
BY FS_Subset, FS_CardinalityType DEF Executing

LEMMA InitCharged == Init => AttemptsAreCharged
<1> SUFFICES ASSUME Init, NEW r \in Run
             PROVE  crashes[r] + Cardinality(Executing(r)) <= attempts[r]
  BY DEF AttemptsAreCharged
<1>1. Executing(r) = {}
  BY DEF Init, Executing
<1>q. QED
  BY <1>1, FS_EmptySet DEF Init

(* A step that begins and ends no attempt.                                 *)
LEMMA ChargedSame ==
  ASSUME AttemptsAreCharged, UNCHANGED <<job, attempts, crashes>>
  PROVE  AttemptsAreCharged'
BY DEF AttemptsAreCharged, Executing

(* A claim charges the run for the attempt it begins.                      *)
LEMMA ChargedClaim ==
  ASSUME IInv, AttemptsAreCharged, NEW w \in Worker, NEW r \in Run, Claim(w, r)
  PROVE  AttemptsAreCharged'
<1>1. /\ attempts' = [attempts EXCEPT ![r] = attempts[r] + 1]
      /\ job' = [job EXCEPT ![w] = r]
      /\ crashes' = crashes
  BY DEF Claim, CountedClaim
<1>2. job[w] = None
  BY DEF IInv, ControlInv, Claim, Attending
<1>3. SUFFICES ASSUME NEW q \in Run
               PROVE  crashes'[q] + Cardinality(Executing(q)') <= attempts'[q]
  BY DEF AttemptsAreCharged
<1>4. /\ crashes[q] \in Nat /\ attempts[q] \in Nat
      /\ crashes[q] + Cardinality(Executing(q)) <= attempts[q]
  BY DEF IInv, TypeOK, AttemptsAreCharged
<1>5. CASE q = r
  <2>1. Executing(q)' = Executing(q) \union {w} /\ w \notin Executing(q)
    BY <1>1, <1>2, <1>5 DEF IInv, TypeOK, Executing
  <2>2. Cardinality(Executing(q) \union {w}) = Cardinality(Executing(q)) + 1
    BY <2>1, ExecutingFinite, FS_AddElement
  <2>3. attempts'[q] = attempts[q] + 1
    BY <1>1, <1>5 DEF IInv, TypeOK
  <2>q. QED
    BY <1>1, <1>4, <2>1, <2>2, <2>3, ExecutingFinite
<1>6. CASE q # r
  <2>1. Executing(q)' = Executing(q) /\ attempts'[q] = attempts[q]
    BY <1>1, <1>2, <1>6 DEF IInv, TypeOK, Executing
  <2>q. QED
    BY <1>1, <1>4, <2>1
<1>q. QED
  BY <1>5, <1>6

(* The end of an attempt takes it out of Executing, so the run can afford
   either a death or a refund of one attempt, not both.                    *)
LEMMA ChargedEnd ==
  ASSUME IInv, AttemptsAreCharged, NEW w \in Worker,
         job' = [job EXCEPT ![w] = None],
         \A q \in Run :
           \/ crashes'[q] = crashes[q] /\ attempts'[q] = attempts[q]
           \/ q = job[w] /\ crashes'[q] = crashes[q] + 1 /\ attempts'[q] = attempts[q]
           \/ q = job[w] /\ crashes'[q] = crashes[q] /\ attempts'[q] = attempts[q] - 1
  PROVE  AttemptsAreCharged'
<1>1. SUFFICES ASSUME NEW q \in Run
               PROVE  crashes'[q] + Cardinality(Executing(q)') <= attempts'[q]
  BY DEF AttemptsAreCharged
<1>2. /\ crashes[q] \in Nat /\ attempts[q] \in Nat
      /\ crashes[q] + Cardinality(Executing(q)) <= attempts[q]
  BY DEF IInv, TypeOK, AttemptsAreCharged
<1>3. Executing(q)' = Executing(q) \ {w}
  BY DEF IInv, TypeOK, Executing
<1>4. CASE job[w] = q
  <2>1. w \in Executing(q)
    BY <1>4 DEF Executing
  <2>2. Cardinality(Executing(q) \ {w}) = Cardinality(Executing(q)) - 1
    BY <2>1, ExecutingFinite, FS_RemoveElement
  <2>q. QED
    BY <1>2, <1>3, <2>2, ExecutingFinite
<1>5. CASE job[w] # q
  <2>1. Executing(q)' = Executing(q)
    BY <1>3, <1>5 DEF Executing
  <2>q. QED
    BY <1>2, <1>5, <2>1
<1>q. QED
  BY <1>4, <1>5

LEMMA ChargedRelease ==
  ASSUME IInv, AttemptsAreCharged, NEW w \in Worker, Release(w)
  PROVE  AttemptsAreCharged'
<1> DEFINE r == job[w]
<1>1. r \in Run /\ job' = [job EXCEPT ![w] = None] /\ crashes' = crashes
  BY DEF IInv, TypeOK, ControlInv, Release, EndAttempt, Attending
<1>2. \/ UNCHANGED attempts
      \/ attempts' = [attempts EXCEPT ![r] = attempts[r] - 1]
  <2>1. CASE status[r] = "running" /\ Owns(w, r)
    <3>1. attempts[r] > 0
      BY <1>1, <2>1 DEF IInv, NoRunBecomesInvisible
    <3>q. QED
      BY <2>1, <3>1 DEF Release, Refund
  <2>2. CASE ~(status[r] = "running" /\ Owns(w, r))
    BY <2>2 DEF Release, table
  <2>q. QED
    BY <2>1, <2>2
<1>3. \A q \in Run : \/ attempts'[q] = attempts[q]
                     \/ q = r /\ attempts'[q] = attempts[q] - 1
  BY <1>1, <1>2 DEF IInv, TypeOK
<1>q. QED
  BY <1>1, <1>3, ChargedEnd

LEMMA ChargedVanish ==
  ASSUME IInv, AttemptsAreCharged, NEW w \in Worker, Crash(w) \/ Outage(w) \/ Conclude(w)
  PROVE  AttemptsAreCharged'
<1>1. job' = [job EXCEPT ![w] = None]
  BY DEF Crash, Outage, Conclude, EndAttempt
<1>2. attempts' = attempts
  BY DEF Crash, Outage, Conclude, WriteVerdict, table
<1>3. \A q \in Run : \/ crashes'[q] = crashes[q]
                     \/ q = job[w] /\ crashes'[q] = crashes[q] + 1
  BY DEF Crash, Outage, Conclude
<1>q. QED
  BY <1>1, <1>2, <1>3, ChargedEnd

LEMMA ChargedNext == IInv /\ AttemptsAreCharged /\ [Next]_vars => AttemptsAreCharged'
<1> SUFFICES ASSUME IInv, AttemptsAreCharged, [Next]_vars PROVE AttemptsAreCharged'
  OBVIOUS
<1>1. CASE UNCHANGED vars
  BY <1>1, ChargedSame DEF vars, table, attempt, history
<1>2. CASE \E r \in Run, k \in Kinds, b \in BOOLEAN : Submit(r, k, b)
  BY <1>2, ChargedSame DEF Submit, attempt, history
<1>3. CASE \E c \in Client, r \in Run : CancelRead(c, r)
  BY <1>3, ChargedSame DEF CancelRead, table, attempt, history
<1>4. CASE \E c \in Client : ClientStep(c)
  BY <1>4, ChargedSame DEF ClientStep, CancelFlag, CancelFinish, WriteVerdict, table,
     attempt, history
<1>5. CASE Tick
  BY <1>5, ChargedSame DEF Tick, attempt, history
<1>6. ASSUME NEW w \in Worker, AbandonApply(w) \/ AbandonRefused(w)
      PROVE  AttemptsAreCharged'
  <2>1. job[w] = None
    BY <1>6 DEF IInv, ControlInv, AbandonApply, AbandonRefused, Attending
  <2>2. job' = job
    BY <1>6, <2>1 DEF IInv, TypeOK, AbandonApply, AbandonRefused, EndAttempt
  <2>q. QED
    BY <1>6, <2>2, ChargedSame DEF AbandonApply, AbandonRefused, table, history
<1>7. ASSUME NEW w \in Worker, LoopStep(w)
      PROVE  AttemptsAreCharged'
  <2>1. CASE AbandonScan(w) \/ ClaimNothing(w) \/ Exit(w) \/ Restart(w)
    BY <2>1, ChargedSame DEF AbandonScan, ClaimNothing, Exit, Restart, table, attempt, history
  <2>q. QED
    BY <1>6, <1>7, <2>1, ChargedClaim DEF LoopStep
<1>8. ASSUME NEW w \in Worker, Decision(w)
      PROVE  AttemptsAreCharged'
  BY <1>8, DecisionShape, ChargedSame DEF IInv, NoStatement, table
<1>9. ASSUME NEW w \in Worker, Beat(w) \/ Signal(w)
      PROVE  AttemptsAreCharged'
  BY <1>9, ChargedSame DEF Beat, Signal, table, attempt, history
<1>q. QED
  BY <1>1, <1>2, <1>3, <1>4, <1>5, <1>7, <1>8, <1>9, ChargedRelease, ChargedVanish
     DEF Next, AttemptStep, Fault, Decision

(* A run never costs more worker processes than MaxAttempts, the ones that
   died on an attempt already superseded included.                         *)
THEOREM PoisonIsAlwaysBounded == Spec => []PoisonIsBounded
<1>1. IInv /\ AttemptsAreCharged => PoisonIsBounded
  <2> SUFFICES ASSUME IInv, AttemptsAreCharged, NEW r \in Run
               PROVE  crashes[r] <= MaxAttempts
    BY DEF PoisonIsBounded
  <2>1. crashes[r] \in Nat /\ attempts[r] \in 0 .. MaxAttempts
    BY DEF IInv, TypeOK
  <2>q. QED
    BY <2>1, ExecutingFinite DEF AttemptsAreCharged
<1>q. QED
  BY <1>1, InitCharged, ChargedNext, Invariance, PTL DEF Spec

-----------------------------------------------------------------------------
(***************************************************************************)
(* The queue implements RunLifecycle, for every value of the constants:    *)
(* each statement that changes a row is one step of the life cycle seen    *)
(* through Current, and everything else leaves that view alone.            *)
(***************************************************************************)

HIDE WorkerAssumption

(* The refinement mapping's attempt: a worker that lost its run has none.  *)
Current == [w \in Worker |-> IF w \in lost THEN None ELSE job[w]]

LEMMA CurrentSame ==
  ASSUME IInv, UNCHANGED <<status, asked>>,
         \A w \in Worker : Current'[w] = Current[w]
  PROVE  UNCHANGED Lifecycle!lifecycle
<1>1. Current' = Current
  BY DEF Current
<1>q. QED
  BY <1>1 DEF Lifecycle!lifecycle, Current

LEMMA RefineInit == Init => Lifecycle!Init
<1> SUFFICES ASSUME Init PROVE Lifecycle!Init
  OBVIOUS
<1>1. Current = [w \in Worker |-> None]
  BY DEF Init, Current
<1>q. QED
  BY <1>1 DEF Init, Lifecycle!Init, Current

LEMMA RefineSubmit ==
  ASSUME IInv, NEW r \in Run, NEW k \in Kinds, NEW b \in BOOLEAN, Submit(r, k, b)
  PROVE  Lifecycle!Submit(r)
<1>1. Current' = Current /\ asked' = asked
  BY DEF Submit, attempt, history, Current
<1>q. QED
  BY <1>1 DEF Submit, Lifecycle!Submit, Current

LEMMA RefineClient ==
  ASSUME IInv, NEW c \in Client, ClientStep(c)
  PROVE  \E r \in Run : \/ Lifecycle!Ask(r) \/ Lifecycle!Withdraw(r)
                        \/ UNCHANGED Lifecycle!lifecycle
<1> DEFINE r == request[c].run
<1>1. r \in Run /\ status[r] # "absent"
  BY DEF IInv, ControlInv, ClientStep, CancelFlag, CancelFinish
<1>2. Current' = Current
  BY DEF ClientStep, CancelFlag, CancelFinish, attempt, history, Current
<1>3. CASE CancelFlag(c)
  <2>1. Lifecycle!Ask(r)
    BY <1>1, <1>2, <1>3 DEF CancelFlag, Lifecycle!Ask, Current
  <2>q. QED
    BY <1>1, <2>1
<1>4. CASE CancelFinish(c)
  <2>1. r \in asked
    BY <1>4 DEF IInv, ControlInv, CancelFinish
  <2>2. CASE status[r] = "queued"
    <3>1. Lifecycle!Withdraw(r)
      BY <1>2, <1>4, <2>1, <2>2 DEF CancelFinish, StillQueued, WriteVerdict,
         Lifecycle!Withdraw, Current
    <3>q. QED
      BY <1>1, <3>1
  <2>3. CASE status[r] # "queued"
    <3>1. UNCHANGED Lifecycle!lifecycle
      BY <1>2, <1>4, <2>3 DEF CancelFinish, StillQueued, table, Lifecycle!lifecycle, Current
    <3>q. QED
      BY <1>1, <3>1
  <2>q. QED
    BY <2>2, <2>3
<1>q. QED
  BY <1>3, <1>4 DEF ClientStep

LEMMA RefineAbandon ==
  ASSUME IInv, NEW w \in Worker, AbandonApply(w)
  PROVE  \E S \in SUBSET Run : Lifecycle!Abandon(S)
<1>0. PICK S \in SUBSET Run : S = doomed[w]
  BY DEF IInv, TypeOK
<1>1. /\ S \subseteq Run
      /\ \A r \in S : status[r] \notin {"absent", "succeeded"}
      /\ status' = [r \in Run |-> IF r \in S THEN "failed" ELSE status[r]]
      /\ lost' = lost \union {v \in Worker : job[v] \in S}
      /\ asked' = asked
  BY <1>0 DEF IInv, TypeOK, ControlInv, AbandonApply, RespectsSuccess
<1>2. job' = job
  BY DEF IInv, TypeOK, ControlInv, AbandonApply, EndAttempt, Attending
<1>3. None \notin S
  BY <1>1
<1>4. \A v \in Worker : v \in lost' <=> v \in lost \/ job[v] \in S
  BY <1>1
<1>5. Current' = [v \in Worker |-> IF Current[v] \in S THEN None ELSE Current[v]]
  BY <1>2, <1>3, <1>4 DEF Current
<1>q. QED
  BY <1>1, <1>5 DEF Lifecycle!Abandon, Lifecycle!Revoked, Current

LEMMA RefineClaim ==
  ASSUME IInv, NEW w \in Worker, NEW r \in Run, Claim(w, r)
  PROVE  Lifecycle!Take(w, r)
<1>1. /\ status[r] \in {"queued", "running"}
      /\ status' = [status EXCEPT ![r] = "running"]
      /\ job' = [job EXCEPT ![w] = r]
      /\ lost' = (lost \union Executing(r)) \ {w}
      /\ asked' = asked
  BY DEF Claim, Eligible
<1>2. job[w] = None /\ job \in [Worker -> Run \union {None}]
  BY DEF IInv, TypeOK, ControlInv, Claim, Attending
<1>3. \A v \in Worker : v \in lost' <=> v # w /\ (v \in lost \/ job[v] = r)
  BY <1>1 DEF Executing
<1>4. Current' = [[v \in Worker |-> IF Current[v] \in {r} THEN None ELSE Current[v]]
                    EXCEPT ![w] = r]
  BY <1>1, <1>2, <1>3 DEF Current
<1>5. Current[w] = None
  BY <1>2 DEF Current
<1>q. QED
  BY <1>1, <1>4, <1>5 DEF Lifecycle!Take, Lifecycle!Revoked, Lifecycle!Unsettled, Current

(* An attempt that ends: the mapped attempt ends with it.                  *)
LEMMA CurrentEnds ==
  ASSUME IInv, NEW w \in Worker, NEW to \in WorkerPc, EndAttempt(w, to), lost' = lost \ {w}
  PROVE  Current' = [Current EXCEPT ![w] = None]
<1>1. job' = [job EXCEPT ![w] = None] /\ job \in [Worker -> Run \union {None}]
  BY DEF IInv, TypeOK, EndAttempt
<1>q. QED
  BY <1>1 DEF Current

LEMMA RefineEnd ==
  ASSUME IInv, NEW w \in Worker, Release(w) \/ Conclude(w)
  PROVE  \/ Lifecycle!GiveBack(w) \/ UNCHANGED Lifecycle!lifecycle
         \/ \E verdict \in Terminal : Lifecycle!Conclude(w, verdict)
<1> DEFINE r == job[w]
<1>1. r \in Run /\ EndAttempt(w, "idle") /\ lost' = lost \ {w} /\ asked' = asked
  BY DEF IInv, TypeOK, ControlInv, Attending, Release, Conclude, WriteVerdict, table
<1>2. Current' = [Current EXCEPT ![w] = None]
  BY <1>1, CurrentEnds DEF WorkerPc
<1>3. /\ w \in lost => ~Owns(w, r)
      /\ w \notin lost => Owns(w, r) /\ status[r] = "running" /\ Current[w] = r /\ r # None
  BY <1>1 DEF IInv, OwnershipIsCurrent, Owns, Current
<1>4. CASE w \in lost
  <2>1. UNCHANGED status
    BY <1>3, <1>4 DEF Release, Conclude, table
  <2>2. \A v \in Worker : Current'[v] = Current[v]
    BY <1>2, <1>4 DEF Current
  <2>q. QED
    BY <1>1, <2>1, <2>2, CurrentSame
<1>5. CASE w \notin lost /\ Release(w)
  <2>1. status' = [status EXCEPT ![r] = "queued"]
    BY <1>3, <1>5 DEF Release
  <2>2. Current[w] # None /\ status' = [status EXCEPT ![Current[w]] = "queued"]
    BY <1>3, <1>5, <2>1
  <2>q. QED
    BY <1>1, <1>2, <2>2 DEF Lifecycle!GiveBack, Current
<1>6. CASE w \notin lost /\ Conclude(w)
  <2>0. PICK verdict \in Terminal : verdict = outcome[w]
    BY <1>6 DEF IInv, TypeOK, ControlInv, Conclude, Verdict
  <2>1. /\ status' = [status EXCEPT ![r] = verdict]
        /\ verdict = "cancelled" => r \in asked
    BY <1>3, <1>6, <2>0 DEF IInv, CancelInv, Conclude, WriteVerdict, Unsettled
  <2>2. /\ Current[w] # None /\ status' = [status EXCEPT ![Current[w]] = verdict]
        /\ verdict = "cancelled" => Current[w] \in asked
    BY <1>3, <1>6, <2>1
  <2>3. Lifecycle!Conclude(w, verdict)
    BY <1>1, <1>2, <2>2 DEF Lifecycle!Conclude, Current
  <2>q. QED
    BY <2>3
<1>q. QED
  BY <1>4, <1>5, <1>6

LEMMA RefineVanish ==
  ASSUME IInv, NEW w \in Worker, Crash(w) \/ Outage(w)
  PROVE  Lifecycle!Vanish(w)
<1>1. /\ EndAttempt(w, "down") \/ EndAttempt(w, "idle")
      /\ lost' = lost \ {w} /\ UNCHANGED <<status, asked>>
  BY DEF Crash, Outage, table
<1>2. Current' = [Current EXCEPT ![w] = None]
  BY <1>1, CurrentEnds DEF WorkerPc
<1>q. QED
  BY <1>1, <1>2 DEF Lifecycle!Vanish, Current

(* Every other step leaves the rows' status and the attempts alone.        *)
LEMMA RefineStutter ==
  ASSUME IInv, UNCHANGED <<status, asked, job, lost>>
  PROVE  UNCHANGED Lifecycle!lifecycle
BY DEF Lifecycle!lifecycle

LEMMA RefineNext == IInv /\ [Next]_vars => [Lifecycle!Next]_(Lifecycle!lifecycle)
<1> SUFFICES ASSUME IInv, [Next]_vars
             PROVE  Lifecycle!Next \/ UNCHANGED Lifecycle!lifecycle
  OBVIOUS
<1>1. CASE UNCHANGED vars
  BY <1>1, RefineStutter DEF vars, table, attempt, history
<1>2. CASE \E r \in Run, k \in Kinds, b \in BOOLEAN : Submit(r, k, b)
  BY <1>2, RefineSubmit DEF Lifecycle!Next
<1>3. CASE \E c \in Client, r \in Run : CancelRead(c, r)
  BY <1>3, RefineStutter DEF CancelRead, table, attempt, history
<1>4. CASE \E c \in Client : ClientStep(c)
  BY <1>4, RefineClient DEF Lifecycle!Next
<1>5. CASE Tick
  BY <1>5, RefineStutter DEF Tick, attempt, history
<1>6. ASSUME NEW w \in Worker, LoopStep(w)
      PROVE  Lifecycle!Next \/ UNCHANGED Lifecycle!lifecycle
  <2>1. CASE AbandonApply(w)
    BY <2>1, RefineAbandon DEF Lifecycle!Next
  <2>2. CASE AbandonRefused(w)
    <3>1. job' = job
      BY <2>2 DEF IInv, TypeOK, ControlInv, AbandonRefused, EndAttempt, Attending
    <3>q. QED
      BY <2>2, <3>1, RefineStutter DEF AbandonRefused, table, history
  <2>3. CASE \E r \in Run : Claim(w, r)
    BY <2>3, RefineClaim DEF Lifecycle!Next
  <2>4. CASE AbandonScan(w) \/ ClaimNothing(w) \/ Exit(w) \/ Restart(w)
    BY <2>4, RefineStutter DEF AbandonScan, ClaimNothing, Exit, Restart, table, attempt, history
  <2>q. QED
    BY <1>6, <2>1, <2>2, <2>3, <2>4 DEF LoopStep
<1>7. ASSUME NEW w \in Worker, Decision(w)
      PROVE  UNCHANGED Lifecycle!lifecycle
  BY <1>7, DecisionShape, RefineStutter DEF IInv, NoStatement, table
<1>8. ASSUME NEW w \in Worker, Release(w) \/ Conclude(w)
      PROVE  Lifecycle!Next \/ UNCHANGED Lifecycle!lifecycle
  BY <1>8, RefineEnd DEF Lifecycle!Next, Lifecycle!Terminal, Terminal
<1>9. ASSUME NEW w \in Worker, Crash(w) \/ Outage(w)
      PROVE  Lifecycle!Next
  BY <1>9, RefineVanish DEF Lifecycle!Next
<1>10. ASSUME NEW w \in Worker, Beat(w) \/ Signal(w)
       PROVE  UNCHANGED Lifecycle!lifecycle
  BY <1>10, RefineStutter DEF Beat, Signal, table, attempt, history
<1>q. QED
  BY <1>1, <1>2, <1>3, <1>4, <1>5, <1>6, <1>7, <1>8, <1>9, <1>10
     DEF Next, AttemptStep, Fault, Decision

(* The queue is an implementation of the run life cycle its callers see.   *)
THEOREM QueueImplementsLifecycle == Spec => ImplementsLifecycle
BY RefineInit, RefineNext, Invariance, PTL DEF Spec, ImplementsLifecycle, Lifecycle!Spec

=============================================================================
