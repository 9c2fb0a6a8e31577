------------------------------- MODULE Delivery -------------------------------
(***************************************************************************)
(* The deliveries table and the workers whose maintenance ticks attempt    *)
(* what is due (runs/delivery.py, and _deliver in runs/maintenance.py).    *)
(*                                                                         *)
(* A tick reads a batch of due rows in one statement, whose row locks end  *)
(* with it, and then attempts the rows one at a time from what it read:    *)
(* look at the callback and the run, post, record.  Every statement is a   *)
(* transaction of its own, so other workers act between any two.           *)
(***************************************************************************)
EXTENDS Integers, Sequences, FiniteSets

CONSTANTS
  Delivery,       \* delivery identities: one per notified run, UNIQUE (run_id)
  Worker,         \* processes that run maintenance
  Batch,          \* DOCDOC_DELIVERY_BATCH, the LIMIT of due
  MaxAttempts,    \* DOCDOC_DELIVERY_MAX_ATTEMPTS
  Answers,        \* what the receiver of each delivery may answer
  MaxInterrupts   \* bound on crashes and database outages within ticks

\* "ok" is a 2xx; "refused" any other status; "lost" a transport failure, after
\* which nobody knows what the receiver did; "garbled" bytes that are not HTTP.
\* "unsent" is the refusal of _send itself: no callback, no run, no secret.
Answer   == {"ok", "refused", "lost", "garbled"}
Settled  == {"delivered", "failed"}
State    == {"none", "pending", "purged"} \union Settled
WorkerPc == {"idle", "batch", "post", "record"}
Snapshot == [delivery : Delivery, attempts : Nat]

ASSUME SizeAssumption ==
  /\ Batch \in Nat \ {0}
  /\ MaxAttempts \in Nat \ {0}
  /\ MaxInterrupts \in Nat
ASSUME FiniteAssumption == IsFiniteSet(Worker)
ASSUME AnswerAssumption == Answers \in [Delivery -> (SUBSET Answer) \ {{}}]

VARIABLES
  state,        \* state of each row; "none" before, "purged" after it exists
  attempts,     \* its attempts column
  line,         \* pending rows with next_attempt_at <= now, oldest first
  withdrawn,    \* deliveries whose callback is revoked or whose run is gone
  pc,           \* how far the tick of each worker is
  batch,        \* the rows it has yet to attempt, as `due` read them
  answer,       \* what the attempt in hand came to
  acked,        \* history: deliveries some receiver answered with a 2xx
  tries,        \* history: attempts that came to an answer there is a row for
  interrupts    \* crashes and outages so far

rows    == <<state, attempts, line>>
tick    == <<pc, batch, answer>>
history == <<acked, tries>>
vars    == <<rows, withdrawn, tick, history, interrupts>>

TypeOK ==
  /\ state \in [Delivery -> State]
  /\ attempts \in [Delivery -> Nat]
  /\ line \in Seq(Delivery)
  /\ withdrawn \in SUBSET Delivery /\ acked \in SUBSET Delivery
  /\ pc \in [Worker -> WorkerPc]
  /\ batch \in [Worker -> Seq(Snapshot)]
  /\ answer \in [Worker -> Answer \union {"unsent"}]
  /\ tries \in [Delivery -> Nat]
  /\ interrupts \in 0 .. MaxInterrupts
  /\ \A w \in Worker : pc[w] = "idle" <=> batch[w] = << >>
  /\ \A i \in DOMAIN line : state[line[i]] = "pending"
  /\ \A i, j \in DOMAIN line : line[i] = line[j] => i = j

Init ==
  /\ state = [d \in Delivery |-> "none"]
  /\ attempts = [d \in Delivery |-> 0]
  /\ line = << >>
  /\ withdrawn = {} /\ acked = {}
  /\ pc = [w \in Worker |-> "idle"]
  /\ batch = [w \in Worker |-> << >>]
  /\ answer = [w \in Worker |-> "unsent"]
  /\ tries = [d \in Delivery |-> 0]
  /\ interrupts = 0

\* MUTANT of Without: the row keeps its place in the index.
Remains(s, d) == s

\* The row leaves the partial index deliveries_due.
Without(s, d) ==
  IF \E i \in DOMAIN s : s[i] = d
  THEN LET i == CHOOSE j \in DOMAIN s : s[j] = d
       IN  SubSeq(s, 1, i - 1) \o SubSeq(s, i + 1, Len(s))
  ELSE s

\* Its place depends on next_attempt_at, which the writer took from its own
\* clock, for a run's conclusion long before the statement: it may be any.
JoinsLine(d) ==
  \E i \in 0 .. Len(line) :
    line' = SubSeq(line, 1, i) \o <<d>> \o SubSeq(line, i + 1, Len(line))

-----------------------------------------------------------------------------
(* What other parts of the system do to the table                          *)

\* A run with a callback finishes: its delivery is due at once.
Enqueue(d) ==
  /\ state[d] = "none"
  /\ state' = [state EXCEPT ![d] = "pending"]
  /\ JoinsLine(d)
  /\ UNCHANGED <<attempts, withdrawn, tick, history, interrupts>>

\* The callback is revoked, or the sweep removes the run and leaves the row.
Revoke(d) ==
  /\ d \notin withdrawn
  /\ withdrawn' = withdrawn \union {d}
  /\ UNCHANGED <<rows, tick, history, interrupts>>

\* Erasure removes the row, after the run it describes.
Purge(d) ==
  /\ state[d] \in {"pending"} \union Settled
  /\ state' = [state EXCEPT ![d] = "purged"]
  /\ line' = Without(line, d)
  /\ withdrawn' = withdrawn \union {d}
  /\ UNCHANGED <<attempts, tick, history, interrupts>>

\* MUTANT of Waiting: a row that was attempted is not looked for again.
WaitingFirst(d) ==
  /\ state[d] = "pending" /\ attempts[d] = 0
  /\ \A i \in DOMAIN line : line[i] # d

Waiting(d) ==
  /\ state[d] = "pending"
  /\ \A i \in DOMAIN line : line[i] # d

\* next_attempt_at passes.
Mature(d) ==
  /\ Waiting(d)
  /\ JoinsLine(d)
  /\ UNCHANGED <<state, attempts, withdrawn, tick, history, interrupts>>

-----------------------------------------------------------------------------
(* The tick of a worker                                                    *)

InHand(w) == Head(batch[w])

\* MUTANT of NextRow: the loop stays on the row it has just recorded.
SameRow(w) == batch[w]

\* The tick goes on with the next row, or its delivery step is over.
NextRow(w) == Tail(batch[w])
Advance(w) ==
  /\ batch' = [batch EXCEPT ![w] = NextRow(w)]
  /\ pc' = [pc EXCEPT ![w] = IF NextRow(w) = << >> THEN "idle" ELSE "batch"]
  /\ answer' = [answer EXCEPT ![w] = "unsent"]

Abort(w) ==
  /\ batch' = [batch EXCEPT ![w] = << >>]
  /\ pc' = [pc EXCEPT ![w] = "idle"]
  /\ answer' = [answer EXCEPT ![w] = "unsent"]

Due(w) ==
  /\ pc[w] = "idle"
  /\ line # << >>
  /\ \E n \in 1 .. Batch :
       /\ n = Batch \/ n = Len(line)
       /\ n <= Len(line)
       /\ batch' = [batch EXCEPT ![w] =
            [i \in 1 .. n |-> [delivery |-> line[i], attempts |-> attempts[line[i]]]]]
  /\ pc' = [pc EXCEPT ![w] = "batch"]
  /\ UNCHANGED <<rows, withdrawn, answer, history, interrupts>>

\* The budget of the tick is spent, which is looked at between attempts only.
GiveUp(w) ==
  /\ pc[w] = "batch"
  /\ Abort(w)
  /\ UNCHANGED <<rows, withdrawn, history, interrupts>>

\* _send reads the callback, the secret and the run, and checks the address.
Look(w) ==
  /\ pc[w] = "batch"
  /\ LET d == InHand(w).delivery IN
       \/ /\ d \in withdrawn
          /\ answer' = [answer EXCEPT ![w] = "unsent"]
          /\ pc' = [pc EXCEPT ![w] = "record"]
          /\ tries' = [tries EXCEPT ![d] = @ + 1]
       \/ /\ d \notin withdrawn
          /\ pc' = [pc EXCEPT ![w] = "post"]
          /\ UNCHANGED <<answer, tries>>
  /\ UNCHANGED <<rows, withdrawn, batch, acked, interrupts>>

Post(w) ==
  /\ pc[w] = "post"
  /\ LET d == InHand(w).delivery IN
       \E a \in Answers[d] :
         /\ answer' = [answer EXCEPT ![w] = a]
         /\ acked' = IF a = "ok" THEN acked \union {d} ELSE acked
         /\ tries' = [tries EXCEPT ![d] = IF a = "garbled" THEN @ ELSE @ + 1]
  /\ pc' = [pc EXCEPT ![w] = "record"]
  /\ UNCHANGED <<rows, withdrawn, batch, interrupts>>

\* 200 <= status < 300
Succeeded(a) == a = "ok"

\* MUTANT of Counted: the failure is recorded, and not counted.
Uncounted(n) == n

Counted(n) == n + 1

\* MUTANT of Exhausted: gives up one attempt early.
ExhaustedEarly(n) == Counted(n) + 1 >= MaxAttempts

Exhausted(n) == Counted(n) >= MaxAttempts

\* UPDATE ... SET state = 'delivered', attempts = attempts + 1: the count of
\* the row as it now is.  A purged row is not there to update.
RecordDelivered(w) ==
  /\ pc[w] = "record"
  /\ Succeeded(answer[w])
  /\ LET d == InHand(w).delivery IN
       IF state[d] = "purged"
       THEN UNCHANGED rows
       ELSE /\ state' = [state EXCEPT ![d] = "delivered"]
            /\ attempts' = [attempts EXCEPT ![d] = @ + 1]
            /\ line' = Without(line, d)
  /\ Advance(w)
  /\ UNCHANGED <<withdrawn, history, interrupts>>

\* _record: the count of the row as `due` read it, and no condition on what
\* the row has become since.  next_attempt_at moves into the future.
RecordFailure(w) ==
  /\ pc[w] = "record"
  /\ ~Succeeded(answer[w]) /\ answer[w] # "garbled"
  /\ LET d == InHand(w).delivery
         n == InHand(w).attempts
     IN IF state[d] = "purged"
        THEN UNCHANGED rows
        ELSE /\ state' = [state EXCEPT ![d] = IF Exhausted(n) THEN "failed" ELSE "pending"]
             /\ attempts' = [attempts EXCEPT ![d] = Counted(n)]
             /\ line' = Without(line, d)
  /\ Advance(w)
  /\ UNCHANGED <<withdrawn, history, interrupts>>

\* http.client.HTTPException is no OSError: it leaves `attempt`, and the tick,
\* for the `except Exception` of Worker._maintain.  No row says so.
Escape(w) ==
  /\ pc[w] = "record"
  /\ answer[w] = "garbled"
  /\ Abort(w)
  /\ UNCHANGED <<rows, withdrawn, history, interrupts>>

\* The process dies within the tick, or a statement cannot reach the database
\* and the tick stops (RunError).  The rows stay as the last statement left them.
Interrupt(w) ==
  /\ interrupts < MaxInterrupts
  /\ pc[w] # "idle"
  /\ interrupts' = interrupts + 1
  /\ Abort(w)
  /\ UNCHANGED <<rows, withdrawn, history>>

Record(w) == RecordDelivered(w) \/ RecordFailure(w) \/ Escape(w)

Next ==
  \/ \E d \in Delivery : Enqueue(d) \/ Revoke(d) \/ Purge(d) \/ Mature(d)
  \/ \E w \in Worker : Due(w) \/ GiveUp(w) \/ Look(w) \/ Post(w) \/ Record(w) \/ Interrupt(w)

Spec == Init /\ [][Next]_vars

\* Backoffs end.  Each worker runs maintenance again and again, so each has
\* idle moments; a post has a timeout, and the statement after it is next in
\* line.  Not every tick reaches its first row within its budget, but no worker
\* is out of budget before that row for ever.
Fairness ==
  /\ \A d \in Delivery : WF_vars(Mature(d))
  /\ \A w \in Worker : /\ WF_vars(Due(w)) /\ SF_vars(Look(w))
                       /\ WF_vars(Post(w)) /\ WF_vars(Record(w))

FairSpec == Spec /\ Fairness

-----------------------------------------------------------------------------
(* Properties                                                              *)

\* A row at rest says what happened: `delivered` only if a receiver answered
\* 2xx, `failed` only after MaxAttempts attempts that came to an answer, even
\* when several workers count from stale reads (delivery.py, _record).
VerdictsAreEarned ==
  \A d \in Delivery :
    /\ state[d] = "delivered" => d \in acked
    /\ state[d] = "failed" => tries[d] >= MaxAttempts

\* One worker: a settled delivery stays as it is until it is erased, through
\* crashes between a post and its record.  With two workers this is what
\* 0006_delivery.sql says of every deployment: "a delivered or failed row is
\* never due again".
SettledIsFinal ==
  [][\A d \in Delivery :
       state[d] \in Settled => state'[d] \in {state[d], "purged"}]_vars

\* What workers have yet to record of a delivery is charged in `tries` already.
Recording(d) ==
  {w \in Worker : /\ pc[w] = "record" /\ answer[w] # "garbled"
                  /\ InHand(w).delivery = d}

\* One worker: the attempts column misses no attempt, but for one per crash or
\* outage; so a receiver hears a delivery at most MaxAttempts + interrupts times.
AttemptsAreCounted ==
  \A d \in Delivery :
    state[d] # "purged" =>
      tries[d] <= attempts[d] + Cardinality(Recording(d)) + interrupts

\* A delivery whose receiver speaks HTTP comes to rest, whatever the receivers
\* of the others do: refuse, time out, or answer with anything else
\* (maintenance.py, _deliver: "One failing receiver delays the deliveries
\* behind it by its own timeout and nothing more").
EveryDeliverySettles ==
  \A d \in Delivery :
    "garbled" \notin Answers[d] => (state[d] = "pending" ~> state[d] # "pending")
=============================================================================
