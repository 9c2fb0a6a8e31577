----------------------------- MODULE RunLifecycle -----------------------------
(***************************************************************************)
(* What the run queue promises its callers (runs/queue.py, the RunQueue    *)
(* protocol; runs/model.py, RunStatus), with no SQL, lease or clock in it: *)
(* a run has at most one current attempt, only that attempt concludes it   *)
(* or gives it back, and a cancellation that was asked for either stops it *)
(* in the queue or waits for the attempt to see it.                        *)
(*                                                                         *)
(* An attempt can be revoked at any time -- its lease lapsed -- by the     *)
(* next one (Take) or by giving up on the run (Abandon). Abandon is weaker *)
(* than the protocol's words: it may still fail a run that another process *)
(* concluded, except a success.                                            *)
(***************************************************************************)
CONSTANTS Run, Worker, None

VARIABLES
  status,   \* what a caller polling the run reads
  asked,    \* runs whose cancellation was requested
  busy      \* the run of each worker's current attempt, or None

lifecycle == <<status, asked, busy>>

Unsettled == {"queued", "running"}
Terminal  == {"succeeded", "failed", "cancelled"}

Init ==
  /\ status = [r \in Run |-> "absent"]
  /\ asked = {}
  /\ busy = [w \in Worker |-> None]

Revoked(S) == [w \in Worker |-> IF busy[w] \in S THEN None ELSE busy[w]]

Submit(r) ==
  /\ status[r] = "absent"
  /\ status' = [status EXCEPT ![r] = "queued"]
  /\ UNCHANGED <<asked, busy>>

Ask(r) ==
  /\ status[r] # "absent"
  /\ asked' = asked \union {r}
  /\ UNCHANGED <<status, busy>>

Withdraw(r) ==
  /\ status[r] = "queued"
  /\ r \in asked
  /\ status' = [status EXCEPT ![r] = "cancelled"]
  /\ UNCHANGED <<asked, busy>>

Take(w, r) ==
  /\ busy[w] = None
  /\ status[r] \in Unsettled
  /\ status' = [status EXCEPT ![r] = "running"]
  /\ busy' = [Revoked({r}) EXCEPT ![w] = r]
  /\ UNCHANGED asked

GiveBack(w) ==
  /\ busy[w] # None
  /\ status' = [status EXCEPT ![busy[w]] = "queued"]
  /\ busy' = [busy EXCEPT ![w] = None]
  /\ UNCHANGED asked

Conclude(w, verdict) ==
  /\ busy[w] # None
  /\ verdict = "cancelled" => busy[w] \in asked
  /\ status' = [status EXCEPT ![busy[w]] = verdict]
  /\ busy' = [busy EXCEPT ![w] = None]
  /\ UNCHANGED asked

Vanish(w) ==
  /\ busy' = [busy EXCEPT ![w] = None]
  /\ UNCHANGED <<status, asked>>

Abandon(S) ==
  /\ \A r \in S : status[r] \notin {"absent", "succeeded"}
  /\ status' = [r \in Run |-> IF r \in S THEN "failed" ELSE status[r]]
  /\ busy' = Revoked(S)
  /\ UNCHANGED asked

Next ==
  \/ \E r \in Run : Submit(r) \/ Ask(r) \/ Withdraw(r)
  \/ \E w \in Worker, r \in Run : Take(w, r)
  \/ \E w \in Worker : GiveBack(w) \/ Vanish(w)
  \/ \E w \in Worker, verdict \in Terminal : Conclude(w, verdict)
  \/ \E S \in SUBSET Run : Abandon(S)

Spec == Init /\ [][Next]_lifecycle

(* At most one current attempt per run, and a run with one reads running:  *)
(* the promise heartbeat, release and finish guard with worker_id.         *)
OneCurrentAttempt ==
  \A v, w \in Worker :
    busy[w] # None => /\ status[busy[w]] = "running"
                      /\ busy[v] = busy[w] => v = w

(* A caller that was told a run is cancelled had somebody ask for it.      *)
CancelledOnlyIfAsked ==
  \A r \in Run : status[r] = "cancelled" => r \in asked
=============================================================================
