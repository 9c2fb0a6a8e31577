-------------------------------- MODULE Api --------------------------------
(* The HTTP surface: what a request may read and write between its first      *)
(* statement and its answer, while other requests, workers and the sweep go   *)
(* on.  A route is a short program over the shared tables; every statement it *)
(* sends, and every store read, is one step here.  The two surfaces differ in *)
(* one thing: a bearer route takes the tenant from the credential, a console  *)
(* route asks the database whose run it is.                                   *)
EXTENDS Naturals, FiniteSets

CONSTANTS
  Tenant,    \* the tenants credentials are issued for
  Root,      \* the tenant whose namespace is the root of the store
  Operator,  \* who holds the console's session, or an administrative key
  Nobody,    \* no credential, no owner, no idempotency key
  Run,       \* run identities, ordered as PostgreSQL orders them
  Key,       \* idempotency keys
  Callback,  \* callback identities
  Handler,   \* requests in flight at once
  PageSize,  \* rows on a page of the listing
  Scenes     \* bounds: which operations clients use together, and on how much

VARIABLES
  scene,     \* the operations, runs, handlers, keys and callbacks in use, whose
             \* runs there are at first, the last created_at, and whether workers
             \* and the sweep go on
  clock,     \* what now() reads
  row,       \* the runs table
  stone,     \* the run_tombstones table: whose run it was
  stored,    \* tenants whose document is in their namespace
  result,    \* runs whose terminal artifact is in the store
  checks,    \* runs with a recorded correction
  callback,  \* the callbacks table
  handler,   \* the requests in flight
  told,      \* history: how far each run has come, by the answers given so far
  held,      \* history: the run each tenant's key was last answered with
  walk       \* one client going through the listing, page by page

vars == <<scene, clock, row, stone, stored, result, checks, callback, handler,
          told, held, walk>>
tables == <<row, stone, stored, result, checks, callback>>
clients == <<told, held, walk>>

Caller == Tenant \union {Operator}
Live == {"queued", "running"}
Over == {"succeeded", "failed", "cancelled"}
Operation == {"upload", "submit", "state", "cancel", "result", "check", "register",
              "revoke", "erase", "walk"}

NoRun == [tenant |-> Nobody, status |-> "queued", created |-> 0, key |-> Nobody,
          callback |-> Nobody]
RunRow == [tenant : Tenant \union {Nobody}, status : Live \union Over,
           created : Nat, key : Key \union {Nobody},
           callback : Callback \union {Nobody}]
CallbackRow == [owner : Tenant \union {Nobody}, live : BOOLEAN]

\* A request: where it is, who sent it, what it asks and whose rows it is about.
Idle == [pc |-> "idle", who |-> Nobody, op |-> "state", tenant |-> Nobody,
         run |-> Nobody, key |-> Nobody, callback |-> Nobody, read |-> "none",
         knew |-> 0, first |-> Nobody, listed |-> {}, answer |-> "none"]
Pc == {"idle", "row", "stone", "owner", "gate", "callback", "insert", "holder", "content",
       "body", "flag", "finish", "again", "erase", "wipe", "entomb", "write", "done"}

TypeOK ==
  /\ scene \in Scenes /\ clock \in 0..scene.until
  /\ row \in [Run -> RunRow] /\ stone \in [Run -> Tenant \union {Nobody}]
  /\ stored \subseteq Tenant /\ result \subseteq Run /\ checks \subseteq Run
  /\ callback \in [Callback -> CallbackRow]
  /\ \A h \in Handler : handler[h].pc \in Pc /\ handler[h].op \in Operation
  /\ told \in [Run -> 0..3] /\ held \in [Tenant -> [Key -> Run \union {Nobody}]]

Init ==
  /\ scene \in Scenes /\ clock = 0
  /\ \E owner \in [scene.run -> scene.owner] :
       row = [r \in Run |-> IF r \in scene.run THEN [NoRun EXCEPT !.tenant = owner[r]] ELSE NoRun]
  /\ stone = [r \in Run |-> Nobody]
  /\ stored = (IF "upload" \in scene.op THEN {} ELSE Tenant)
  /\ result = {} /\ checks = {}
  /\ callback = [c \in Callback |-> [owner |-> Nobody, live |-> FALSE]]
  /\ handler = [h \in Handler |-> Idle]
  /\ told = [r \in Run |-> IF row[r].tenant = Nobody THEN 0 ELSE 1]
  /\ held = [t \in Tenant |-> [k \in Key |-> Nobody]]
  /\ walk = [who |-> Nobody, before |-> Nobody, seen |-> {}, twice |-> FALSE,
             owed |-> {}, missed |-> {}]

-----------------------------------------------------------------------------
\* The run store's reads.  The tenant is a predicate of the query.
Scope(who) == IF who = Operator THEN Tenant ELSE {who} \ {Nobody}
Found(r, t) == row[r].tenant = t /\ t # Nobody
Buried(r, t) == stone[r] = t /\ t # Nobody
OwnerOf(r) == IF row[r].tenant # Nobody THEN row[r].tenant ELSE stone[r]
\* Mutants: a key that is not looked for, and one looked for in every tenant.
HoldersForgotten(t, k) == {}
HoldersAnywhere(t, k) == {r \in Run : row[r].tenant # Nobody /\ k # Nobody /\ row[r].key = k}
Holders(t, k) == {r \in Run : row[r].tenant = t /\ k # Nobody /\ row[r].key = k}
Registered(c, t) == callback[c].live /\ callback[c].owner = t

\* What an answer about a run says, as how far the run has come.
Rank(answer) ==
  CASE answer \in Live -> 1
    [] answer \in Over \union {"conflict", "result", "expired", "recorded"} -> 2
    [] answer = "gone" -> 3
    [] OTHER -> 0

Go(h, pc) == handler' = [handler EXCEPT ![h].pc = pc]
Answer(h, a) == handler' = [handler EXCEPT ![h].pc = "done", ![h].answer = a]
AnswerWith(h, a, r) ==
  handler' = [handler EXCEPT ![h].pc = "done", ![h].answer = a, ![h].run = r]
At(h, pc) == handler[h].pc = pc
Only(v) == UNCHANGED v /\ UNCHANGED <<scene, clock>> /\ UNCHANGED clients

-----------------------------------------------------------------------------
\* Which lookup a run's route makes first, and which after it.
StoneFirst == "stone"    \* mutant
FirstLook == "row"
OtherLook(pc) == IF pc = "row" THEN "stone" ELSE "row"

Starts(who, op) ==
  CASE op \in {"submit", "upload"} -> "gate"
    [] op = "erase" -> "erase"
    [] op \in {"register", "revoke"} -> "write"
    [] OTHER -> IF who = Operator THEN "owner" ELSE FirstLook

\* The middleware authenticates before any route runs, and an administrative route
\* answers 404 to a tenant's own credential: neither request gets any further.
Begin(h) ==
  /\ At(h, "idle") /\ h \in scene.handler
  /\ \E who \in Caller, op \in scene.op \ {"walk"}, r \in scene.run,
       k \in scene.key \union {Nobody}, c \in scene.callback \union {Nobody}, t \in Tenant :
       /\ op \notin {"submit"} => k = Nobody
       /\ op \notin {"submit", "register", "revoke"} => c = Nobody
       /\ op \in {"register", "revoke"} => c # Nobody
       /\ op \in {"state", "cancel", "result", "check"} \/ r = CHOOSE x \in scene.run : TRUE
       /\ IF who = Operator THEN op # "submit" \/ c = Nobody ELSE t = (CHOOSE x \in Tenant : TRUE)
       /\ op = "erase" => who = Operator
       /\ handler' = [handler EXCEPT ![h] =
            [Idle EXCEPT
               !.pc = Starts(who, op),
               !.who = who, !.op = op, !.run = r, !.key = k, !.callback = c,
               !.tenant = IF who = Operator THEN t ELSE who,
               !.knew = IF OwnerOf(r) \in Scope(who) THEN told[r] ELSE 0,
               !.first = IF k = Nobody THEN Nobody ELSE held[IF who = Operator THEN t ELSE who][k]]]
  /\ Only(tables)

\* A console route asks for the owner, and reads in that tenant's name.
FindOwner(h) ==
  /\ At(h, "owner")
  /\ LET t == OwnerOf(handler[h].run) IN
       IF t = Nobody THEN Answer(h, "unknown")
       ELSE handler' = [handler EXCEPT ![h].tenant = t, ![h].pc = FirstLook]
  /\ Only(tables)

\* A lookup that misses is followed by the other one; cancel makes only the first.
Missed(h) ==
  IF handler[h].op = "cancel" \/ ~At(h, FirstLook)
    THEN Answer(h, "unknown") ELSE Go(h, OtherLook(handler[h].pc))

\* What the route does with the row it found.
Taken(h, s) ==
  CASE handler[h].op = "state" -> Answer(h, s)
    [] handler[h].op = "result" ->
         IF s = "succeeded" THEN Go(h, "content") ELSE Answer(h, IF s \in Live THEN s ELSE "conflict")
    [] handler[h].op = "check" ->
         IF s = "succeeded" THEN Go(h, "body") ELSE Answer(h, IF s \in Live THEN s ELSE "conflict")
    [] handler[h].op = "cancel" ->
         IF s = "cancelled" THEN Answer(h, s)
         ELSE IF s \in Over THEN Answer(h, "conflict")
         ELSE handler' = [handler EXCEPT ![h].pc = "flag", ![h].read = s]

LookRow(h) ==
  /\ At(h, "row")
  /\ LET q == handler[h] IN
       IF Found(q.run, q.tenant) THEN Taken(h, row[q.run].status) ELSE Missed(h)
  /\ Only(tables)

LookStone(h) ==
  /\ At(h, "stone")
  /\ IF Buried(handler[h].run, handler[h].tenant) THEN Answer(h, "gone") ELSE Missed(h)
  /\ Only(tables)

\* The result's artifact is read after the row: either may be gone by then.
ReadContent(h) ==
  /\ At(h, "content")
  /\ Answer(h, IF handler[h].run \in result THEN "result" ELSE "expired")
  /\ Only(tables)

\* The check's body is awaited after the run was admitted; the insert asks nothing.
RecordCheck(h) ==
  /\ At(h, "body")
  /\ \/ checks' = checks \union {handler[h].run} /\ Answer(h, "recorded")
     \/ UNCHANGED checks /\ Answer(h, "invalid")
  /\ Only(<<row, stone, stored, result, callback>>)

-----------------------------------------------------------------------------
\* Cancelling: flag, then finish a run read as queued, then read what became of it.
Flag(h) ==
  /\ At(h, "flag")
  /\ IF handler[h].read = "queued" THEN Go(h, "finish") ELSE Answer(h, "running")
  /\ Only(tables)

Withdraw(h) ==
  /\ At(h, "finish")
  /\ LET r == handler[h].run IN
       row' = IF row[r].tenant # Nobody /\ row[r].status = "queued"
                THEN [row EXCEPT ![r].status = "cancelled"] ELSE row
  /\ Go(h, "again")
  /\ Only(<<stone, stored, result, checks, callback>>)

ReadAgain(h) ==
  /\ At(h, "again")
  /\ LET q == handler[h] IN
       Answer(h, IF Found(q.run, q.tenant) THEN row[q.run].status ELSE "unavailable")
  /\ Only(tables)

-----------------------------------------------------------------------------
\* Submitting: the gate and the document, then the body, then the callback.
Gate(h) ==
  /\ At(h, "gate")
  /\ LET q == handler[h] IN
       \/ Answer(h, "refused") /\ UNCHANGED stored
       \/ /\ q.op = "upload" /\ stored' = stored \union {q.tenant} /\ Answer(h, "stored")
       \/ /\ q.op = "submit" /\ q.who # Operator /\ UNCHANGED stored
          /\ IF q.tenant \in stored
               THEN \/ Answer(h, "invalid")
                    \/ Go(h, IF q.callback = Nobody THEN "insert" ELSE "callback")
               ELSE Answer(h, "no document")
       \/ /\ q.op = "submit" /\ q.who = Operator
          /\ stored' = stored \union {q.tenant} /\ Go(h, "insert")
  /\ Only(<<row, stone, result, checks, callback>>)

FindCallback(h) ==
  /\ At(h, "callback")
  /\ LET q == handler[h] IN
       IF Registered(q.callback, q.tenant) THEN Go(h, "insert") ELSE Answer(h, "no callback")
  /\ Only(tables)

\* The row is stamped with the handler's own clock, which another may have passed.
Insert(h) ==
  /\ At(h, "insert")
  /\ LET q == handler[h] IN
       \/ /\ Holders(q.tenant, q.key) = {}
          /\ \E r \in scene.run, at \in {clock, IF clock > 0 THEN clock - 1 ELSE 0} :
               /\ row[r].tenant = Nobody /\ stone[r] = Nobody
               /\ row' = [row EXCEPT ![r] = [tenant |-> q.tenant, status |-> "queued",
                           created |-> at, key |-> q.key, callback |-> q.callback]]
               /\ AnswerWith(h, "queued", r)
       \/ Holders(q.tenant, q.key) # {} /\ Go(h, "holder") /\ UNCHANGED row
       \/ Answer(h, "unavailable") /\ UNCHANGED row
  /\ Only(<<stone, stored, result, checks, callback>>)

\* The insert was suppressed: a second statement reads the run that holds the key.
ReadHolder(h) ==
  /\ At(h, "holder")
  /\ LET q == handler[h] IN
       \/ \E r \in Holders(q.tenant, q.key) : AnswerWith(h, row[r].status, r)
       \/ Holders(q.tenant, q.key) = {} /\ Answer(h, "unavailable")
  /\ Only(tables)

\* Registering and revoking a callback are one statement each.
WriteCallback(h) ==
  /\ At(h, "write")
  /\ LET q == handler[h] IN
       callback' = IF q.op = "register"
         THEN IF callback[q.callback].owner = Nobody
                THEN [callback EXCEPT ![q.callback] = [owner |-> q.tenant, live |-> TRUE]]
                ELSE callback
         ELSE IF callback[q.callback].owner = q.tenant
                THEN [callback EXCEPT ![q.callback].live = FALSE] ELSE callback
  /\ Answer(h, "written")
  /\ Only(<<row, stone, stored, result, checks>>)

-----------------------------------------------------------------------------
\* Removing runs: their tombstones and their rows, in one statement.
Bury(gone) ==
  /\ \A r \in gone : row[r].tenant # Nobody
  /\ row' = [r \in Run |-> IF r \in gone THEN NoRun ELSE row[r]]
  /\ stone' = [r \in Run |-> IF r \in gone THEN row[r].tenant ELSE stone[r]]
  /\ walk' = [walk EXCEPT !.owed = @ \ gone]

\* Erasing a tenant lists its runs; the one whose namespace is the whole store is
\* refused.
RunsOf(t) == {r \in Run : row[r].tenant = t}
Erase(h) ==
  /\ At(h, "erase")
  /\ IF handler[h].tenant = Root THEN Answer(h, "refused")
     ELSE handler' = [handler EXCEPT ![h].pc = "wipe", ![h].listed = RunsOf(handler[h].tenant)]
  /\ Only(tables)

\* Those queued are cancelled, unless the database refuses,
Recall(h) ==
  /\ At(h, "wipe")
  /\ \E r \in handler[h].listed :
       /\ Found(r, handler[h].tenant) /\ row[r].status = "queued"
       /\ row' = [row EXCEPT ![r].status = "cancelled"]
  /\ UNCHANGED handler /\ Only(<<stone, stored, result, checks, callback>>)

\* what is in the tenant's namespace goes,
Wipe(h) ==
  /\ At(h, "wipe")
  /\ LET t == handler[h].tenant IN
       result' = {r \in result : OwnerOf(r) # t} /\ stored' = stored \ {t}
  /\ Go(h, "entomb")
  /\ Only(<<row, stone, checks, callback>>)

\* then the runs that were listed,
Doomed(h) == handler[h].listed \intersect RunsOf(handler[h].tenant)
Entomb(h) ==
  /\ At(h, "entomb") /\ Doomed(h) # {}
  /\ Bury(Doomed(h))
  /\ UNCHANGED <<scene, clock, stored, result, checks, callback, handler, told, held>>

\* and last its rows in the other tables. The id of a callback is not given out
\* again, so that one whose row is gone is as one revoked.
Purge(h) ==
  /\ At(h, "entomb") /\ Doomed(h) = {}
  /\ LET t == handler[h].tenant IN
       /\ checks' = {r \in checks : OwnerOf(r) # t}
       /\ callback' = [c \in Callback |->
            [callback[c] EXCEPT !.live = @ /\ callback[c].owner # t]]
  /\ Answer(h, "erased")
  /\ Only(<<row, stone, stored, result>>)

\* The client has its answer, and remembers what it was told.
Reply(h) ==
  /\ At(h, "done")
  /\ LET q == handler[h] IN
       /\ told' = [told EXCEPT ![q.run] = IF Rank(q.answer) > @ THEN Rank(q.answer) ELSE @]
       /\ held' = IF q.op = "submit" /\ q.key # Nobody /\ Rank(q.answer) > 0
                    THEN [held EXCEPT ![q.tenant][q.key] = q.run] ELSE held
  /\ handler' = [handler EXCEPT ![h] = Idle]
  /\ UNCHANGED <<scene, clock, walk>> /\ UNCHANGED tables

-----------------------------------------------------------------------------
\* The listing, newest first: a page starts after the row values its cursor names.
Newer(r, s) ==
  \/ row[s].created < row[r].created
  \/ row[s].created = row[r].created /\ s < r
StrictlyOlder(r, c) == row[r].created < c.created    \* mutant: no tie-break
OlderThan(r, c) ==
  \/ row[r].created < c.created
  \/ row[r].created = c.created /\ r < c.run

Listed(who) ==
  {r \in Run : row[r].tenant # Nobody /\ (who = Operator \/ row[r].tenant = who)}
Rest(who, before) == {r \in Listed(who) : before = Nobody \/ OlderThan(r, before)}
Page(S) == {r \in S : Cardinality({s \in S : Newer(s, r)}) < PageSize}

BeginWalk ==
  /\ "walk" \in scene.op /\ walk.who = Nobody
  /\ \E who \in Caller :
       walk' = [who |-> who, before |-> Nobody, seen |-> {}, twice |-> FALSE,
                owed |-> Listed(who), missed |-> {}]
  /\ UNCHANGED <<scene, clock, tables, handler, told, held>>

\* One page.  A full one answers with a cursor naming its last row; a short one
\* ends the walk, and what was there all along must have been on some page.
NextPage ==
  /\ walk.who # Nobody
  /\ LET page == Page(Rest(walk.who, walk.before))
         seen == walk.seen \union page
         last == CHOOSE r \in page : \A s \in page : s = r \/ Newer(s, r)
     IN walk' =
          IF Cardinality(page) = PageSize
            THEN [walk EXCEPT !.before = [created |-> row[last].created, run |-> last],
                              !.seen = seen, !.twice = @ \/ walk.seen \intersect page # {}]
            ELSE [walk EXCEPT !.who = Nobody, !.before = Nobody, !.seen = {}, !.owed = {},
                              !.twice = @ \/ walk.seen \intersect page # {},
                              !.missed = walk.owed \ seen]
  /\ UNCHANGED <<scene, clock, tables, handler, told, held>>

-----------------------------------------------------------------------------
\* Around the API: workers claim and finish, the sweep removes content and rows.
Elsewhere ==
  /\ scene.work
  /\ \E r \in Run :
       /\ row[r].tenant # Nobody
       /\ \/ /\ row[r].status = "queued"
             /\ row' = [row EXCEPT ![r].status = "running"]
             /\ UNCHANGED <<stone, result, walk>>
          \/ /\ row[r].status = "running"
             /\ \E s \in {"queued"} \union Over :
                  /\ row' = [row EXCEPT ![r].status = s]
                  /\ result' = IF s = "succeeded" THEN result \union {r} ELSE result
             /\ UNCHANGED <<stone, walk>>
          \/ /\ row[r].status \in Over /\ r \in result
             /\ result' = result \ {r} /\ UNCHANGED <<row, stone, walk>>
          \/ row[r].status \in Over /\ r \notin result /\ Bury({r}) /\ UNCHANGED result
  /\ UNCHANGED <<scene, clock, stored, checks, callback, handler, told, held>>

Tick ==
  /\ clock < scene.until /\ clock' = clock + 1
  /\ UNCHANGED <<scene, handler>> /\ UNCHANGED tables /\ UNCHANGED clients

Step(h) ==
  \/ Begin(h) \/ FindOwner(h) \/ LookRow(h) \/ LookStone(h) \/ ReadContent(h)
  \/ RecordCheck(h) \/ Flag(h) \/ Withdraw(h) \/ ReadAgain(h) \/ Gate(h)
  \/ FindCallback(h) \/ Insert(h) \/ ReadHolder(h) \/ WriteCallback(h)
  \/ Erase(h) \/ Recall(h) \/ Wipe(h) \/ Entomb(h) \/ Purge(h) \/ Reply(h)

Next == (\E h \in Handler : Step(h)) \/ BeginWalk \/ NextPage \/ Elsewhere \/ Tick

Spec == Init /\ [][Next]_vars

-----------------------------------------------------------------------------
Answered(h) == At(h, "done") /\ handler[h].answer # "none"

\* No answer says anything of another tenant's run, whatever surface, key or
\* callback it was reached by: a run one is told of is one's own.
StrangersLearnNothing ==
  /\ \A h \in Handler :
       Answered(h) /\ Rank(handler[h].answer) > 0 =>
         OwnerOf(handler[h].run) \in Scope(handler[h].who)
  /\ \A r \in Run :
       row[r].callback # Nobody => callback[row[r].callback].owner = row[r].tenant

\* What a caller was told of a run is never taken back by a later answer: a run
\* that ended does not run again, and one removed is gone, not unknown.
AnswersStandUp ==
  \A h \in Handler :
    LET q == handler[h] IN
    Answered(h) /\ q.op \in {"state", "result", "check"} /\ q.answer # "invalid" =>
      Rank(q.answer) >= q.knew

\* A request sent again under its key is answered with the run it was first
\* answered with, while that run is there.
ReplaysAgree ==
  \A h \in Handler :
    LET q == handler[h] IN
    Answered(h) /\ q.op = "submit" /\ q.key # Nobody /\ Rank(q.answer) > 0 =>
      q.first \in {Nobody, q.run} \/ row[q.first].tenant = Nobody

\* A walk over the pages lists every run that was there throughout, and none twice.
PagesMissNothing == walk.missed = {} /\ ~walk.twice

-----------------------------------------------------------------------------
(* What makes the properties inductive                                       *)

\* How far a run has come, whatever anybody was told of it: it only goes on.
Fate(r) == IF stone[r] # Nobody THEN 3 ELSE IF row[r].tenant = Nobody THEN 0
           ELSE IF row[r].status \in Over THEN 2 ELSE 1

\* A run named once under a key holds it until it is removed.
Holds(r, t, k) == stone[r] # Nobody \/ r \in Holders(t, k)

\* A row is one of a run that was not removed, whose key no other row of its
\* tenant has and whose callback is its tenant's; what was told of it is so.
TablesAgree ==
  /\ \A r \in Run :
       /\ stone[r] # Nobody => row[r].tenant = Nobody
       /\ row[r].tenant = Nobody => row[r] = NoRun
       /\ row[r].callback # Nobody => callback[row[r].callback].owner = row[r].tenant
       /\ told[r] <= Fate(r)
       /\ \A s \in Holders(row[r].tenant, row[r].key) : row[r].tenant # Nobody => s = r
  /\ \A t \in Tenant, k \in Key : held[t][k] # Nobody => Holds(held[t][k], t, k)

\* A request is where its operation can be, and keeps to its tenant.
Answers == Live \union Over \union
  {"none", "unknown", "conflict", "result", "expired", "recorded", "gone", "invalid", "refused", "stored",
   "no document", "no callback", "unavailable", "written", "erased"}
Request == [pc : Pc, who : Caller \union {Nobody}, op : Operation, tenant : Tenant \union {Nobody},
            run : Run \union {Nobody}, key : Key \union {Nobody}, callback : Callback \union {Nobody},
            read : Live \union {"none"}, knew : 0..3, first : Run \union {Nobody}, listed : SUBSET Run,
            answer : Answers]
Places(op) ==
  CASE op = "state" -> {"owner", "row", "stone"}
    [] op = "result" -> {"owner", "row", "stone", "content"}
    [] op = "check" -> {"owner", "row", "stone", "body"}
    [] op = "cancel" -> {"owner", "row", "flag", "finish", "again"}
    [] op = "submit" -> {"gate", "callback", "insert", "holder"}
    [] op = "upload" -> {"gate"} [] op \in {"register", "revoke"} -> {"write"}
    [] op = "erase" -> {"erase", "wipe", "entomb"} [] op = "walk" -> {}

Placed(q) ==
  /\ q.who \in Caller /\ q.tenant \in Scope(q.who) /\ q.run \in Run
  /\ q.pc \in Places(q.op) \union {"done"}
  /\ q.pc = "owner" => q.who = Operator
  /\ q.op \in {"register", "revoke"} => q.callback # Nobody
  /\ q.op = "submit" /\ q.who = Operator => q.callback = Nobody

\* What a request about a run found: the run is its tenant's, and where it found
\* no row of a run it knew of, the run is buried.
Looks(q) ==
  /\ q.knew <= Fate(q.run)
  /\ q.knew > 0 /\ q.pc # "owner" => OwnerOf(q.run) = q.tenant
  /\ q.knew > 0 /\ q.pc = "stone" => stone[q.run] # Nobody
  /\ q.pc \in {"content", "body"} => q.knew <= 2 /\ Fate(q.run) >= 2
  /\ q.pc \in {"content", "body", "flag", "finish", "again"} => OwnerOf(q.run) = q.tenant
  /\ q.pc = "done" /\ q.op # "cancel" /\ q.answer # "invalid" => Rank(q.answer) >= q.knew

\* What a submission holds to: its callback is its tenant's, and its key was.
Submits(q) ==
  /\ q.pc = "insert" /\ q.callback # Nobody => callback[q.callback].owner = q.tenant
  /\ q.key # Nobody /\ q.first # Nobody => Holds(q.first, q.tenant, q.key)
  /\ q.pc = "done" /\ q.key # Nobody /\ Rank(q.answer) > 0 =>
       /\ Holds(q.run, q.tenant, q.key)
       /\ q.first \in {Nobody, q.run} \/ stone[q.first] # Nobody

Says(q) ==
  q.pc = "done" /\ Rank(q.answer) > 0 => Rank(q.answer) <= Fate(q.run) /\ OwnerOf(q.run) = q.tenant

Stands(q) ==
  /\ Placed(q) /\ Says(q)
  /\ q.op \in {"state", "result", "check", "cancel"} => Looks(q)
  /\ q.op = "submit" => Submits(q)
RequestsStand ==
  /\ handler \in [Handler -> Request]
  /\ \A h \in Handler : ~At(h, "idle") => Stands(handler[h])

\* A walk has seen what it owes or has it before it, and nothing it saw.
Cursor == [created : Nat, run : Run]
WalkIsOnCourse ==
  /\ walk \in [who : Caller \union {Nobody}, before : Cursor \union {Nobody}, seen : SUBSET Run, twice : BOOLEAN,
               owed : SUBSET Run, missed : SUBSET Run]
  /\ PagesMissNothing
  /\ walk.who = Nobody => walk.seen = {} /\ walk.owed = {}
  /\ walk.seen # {} => walk.before # Nobody
  /\ \A r \in walk.owed : r \in walk.seen \/ r \in Rest(walk.who, walk.before)
  /\ \A r \in walk.seen : stone[r] # Nobody \/ (row[r].tenant # Nobody /\ ~OlderThan(r, walk.before))

ApiInv == TypeOK /\ TablesAgree /\ RequestsStand /\ WalkIsOnCourse
=============================================================================
