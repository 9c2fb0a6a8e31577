------------------------------ MODULE Providers ------------------------------
(* Which model adapter a tenant's runs use, with whose key                    *)
(* (runs/provider_settings.py, runs/providers.py, runs/secrets.py,            *)
(* extraction/adapter_registry.py): a tenant's rows go before the             *)
(* deployment's, those before the environment and what is shipped. A key is   *)
(* stored sealed; one that this process cannot open makes the adapter         *)
(* unavailable. A reader takes four statements and a reset two, so operators  *)
(* change the tables while a worker resolves.                                 *)
(* Left out: test fixtures that cannot be read, an extra not installed, a     *)
(* stored key that is blank, which the console never stores.                  *)
EXTENDS Naturals, Sequences, Functions

CONSTANTS
  Reader,      \* workers about to execute a run, console requests that show the settings
  Operator,    \* requests that change them
  Master,      \* master keys, by which keys are sealed
  Model,       \* what a row or the environment may name
  Shipped,     \* the model an adapter has by itself
  Priorities,  \* the orders an operator may save
  MaxFaults,   \* bound: outages and restarts under another environment
  None

VARIABLES
  priority,    \* the provider_priorities table, by scope
  setting,     \* the provider_settings table: gemini's row, by scope
  env,         \* what the environment of the processes says
  reader,      \* what each reader has read
  resets,      \* operators between the two statements of a reset
  steady,      \* history: scopes whose key has been there since a reader began
  kept,        \* history: scopes with a key nobody has asked to remove
  faults

providerVars == <<priority, setting, env, reader, resets, steady, kept, faults>>

Adapter == {"gemini", "echo"}
Scope == {"tenant", "default"}
Row == [model: Model \union {None}, key: Master \union {None}]
NoRow == [model |-> None, key |-> None]
Environment == [master: Master \union {None}, priority: Priorities \union {<<>>},
                model: Model \union {None}, key: BOOLEAN]
Resolved == [adapter: Adapter \union {None}, model: Model \union {Shipped}, bills: Scope \union {"env", None}]
Reading == [at: 1 .. 4, priority: Priorities \union {<<>>}, rows: Seq(Row)]

\* Rows, environments and answers have the shape the code gives them.
TypeOK ==
  /\ priority \in [Scope -> Priorities \union {<<>>}]
  /\ setting \in [Scope -> Row]
  /\ env \in Environment
  /\ reader \in [Reader -> Reading \union Resolved \union {None}]
  /\ resets \subseteq Operator
  /\ steady \in [Reader -> SUBSET Scope]
  /\ kept \subseteq Scope
  /\ faults \in 0 .. MaxFaults

Init ==
  /\ priority = [s \in Scope |-> <<>>]
  /\ setting = [s \in Scope |-> NoRow]
  /\ env \in Environment
  /\ reader = [r \in Reader |-> None]
  /\ resets = {} /\ kept = {} /\ faults = 0
  /\ steady = [r \in Reader |-> {}]

Fault == faults < MaxFaults /\ faults' = faults + 1

-----------------------------------------------------------------------------
(* The console's writes                                                      *)

Holding(rows) == {s \in Scope : rows[s].key # None}
Store(rows) ==
  /\ setting' = rows
  /\ steady' = [r \in Reader |-> steady[r] \intersect Holding(rows)]

\* set_provider_priority: None removes the row
SetPriority(scope) ==
  /\ \E order \in Priorities \union {<<>>} : priority' = [priority EXCEPT ![scope] = order]
  /\ UNCHANGED <<setting, env, reader, resets, steady, kept, faults>>

\* what set_adapter leaves of a row: a key is replaced, removed or kept, and a
\* row that would say nothing is deleted
DropsWithModel(row, model, key) == IF model = None /\ key \in {"keep", "none"} THEN NoRow
                                   ELSE [model |-> model, key |-> IF key = "keep" THEN row.key
                                                                  ELSE IF key = "none" THEN None ELSE env.master]
Updated(row, model, key) == [model |-> model, key |-> CASE key = "keep" -> row.key
                                                        [] key = "none" -> None
                                                        [] key = "new" -> env.master]

\* set_provider: a new key needs the master key it is sealed with
SetAdapter(scope, model, key) ==
  /\ key = "new" => env.master # None
  /\ Store([setting EXCEPT ![scope] = Updated(@, model, key)])
  /\ kept' = CASE key = "keep" -> kept [] key = "none" -> kept \ {scope} [] key = "new" -> kept \union {scope}
  /\ UNCHANGED <<priority, env, reader, resets, faults>>

\* reset_providers, of a tenant only: the priority, then the rows
Reset(o) ==
  /\ o \notin resets
  /\ priority' = [priority EXCEPT !["tenant"] = <<>>]
  /\ resets' = resets \union {o}
  /\ UNCHANGED <<setting, env, reader, steady, kept, faults>>

ResetRows(o) ==
  /\ o \in resets
  /\ resets' = resets \ {o}
  /\ Store([setting EXCEPT !["tenant"] = NoRow])
  /\ kept' = kept \ {"tenant"}
  /\ UNCHANGED <<priority, env, reader, faults>>

\* an outage, or the process stops, between the two
ResetStops(o) ==
  /\ o \in resets /\ Fault
  /\ resets' = resets \ {o}
  /\ UNCHANGED <<priority, setting, env, reader, steady, kept>>

-----------------------------------------------------------------------------
(* resolve and select                                                        *)

First(values, otherwise) ==
  IF \E i \in DOMAIN values : values[i] # None
  THEN values[CHOOSE i \in DOMAIN values : values[i] # None /\ \A j \in 1 .. i - 1 : values[j] = None]
  ELSE otherwise

KeyOf(reading) ==
  First([i \in 1 .. 2 |-> IF reading.rows[i].key = None THEN None
                          ELSE [scope |-> <<"tenant", "default">>[i], by |-> reading.rows[i].key]], None)

Opens(by) == env.master # None /\ by = env.master

EnvironmentOr(usable) == IF usable # None THEN usable ELSE IF env.key THEN "env" ELSE None

\* a key that does not open passes for none
FallsBack(reading) ==
  LET key == KeyOf(reading) IN
  EnvironmentOr(IF key # None /\ Opens(key.by) THEN key.scope ELSE None)

\* _resolve_one: whose key gemini is billed to, None when it is unavailable
Bills(reading) ==
  LET key == KeyOf(reading) IN
  IF key = None THEN EnvironmentOr(None) ELSE IF Opens(key.by) THEN key.scope ELSE None

Order(reading) ==
  IF reading.priority # <<>> THEN reading.priority
  ELSE IF env.priority # <<>> THEN env.priority ELSE <<"gemini">>

Position(order, a) == IF a \in Range(order) THEN CHOOSE i \in DOMAIN order : order[i] = a ELSE Len(order) + 1

\* select: the first usable one, and the test adapter only if it is named
Selected(reading) ==
  LET order == Order(reading)
      usable == {a \in Adapter : IF a = "echo" THEN a \in Range(order) ELSE Bills(reading) # None} IN
  IF usable = {} THEN None
  ELSE CHOOSE a \in usable : \A b \in usable \ {a} : Position(order, a) < Position(order, b)

Resolve(reading) ==
  [adapter |-> Selected(reading), bills |-> Bills(reading),
   model |-> First(<<reading.rows[1].model, reading.rows[2].model, env.model>>, Shipped)]

Becomes(r, reading) == reader' = [reader EXCEPT ![r] = reading]

\* a worker resolves for each run, the console for each answer
Begin(r) ==
  /\ reader[r] = None \/ reader[r] \in Resolved
  /\ Becomes(r, [at |-> 1, priority |-> <<>>, rows |-> <<>>])
  /\ steady' = [steady EXCEPT ![r] = Holding(setting)]
  /\ UNCHANGED <<priority, setting, env, resets, kept, faults>>

\* the tenant's priority and rows, then the deployment's
Read(r) ==
  LET reading == reader[r]
      scope == IF reading.at <= 2 THEN "tenant" ELSE "default"
      now == IF reading.at \in {1, 3}
             THEN [reading EXCEPT !.priority = IF @ = <<>> THEN priority[scope] ELSE @]
             ELSE [reading EXCEPT !.rows = Append(@, setting[scope])] IN
  /\ reading \in Reading
  /\ Becomes(r, IF reading.at = 4 THEN Resolve(now) ELSE [now EXCEPT !.at = @ + 1])
  /\ UNCHANGED <<priority, setting, env, resets, steady, kept, faults>>

\* an outage: the run goes back to the queue, the request is answered 503
ReadFails(r) ==
  /\ reader[r] \in Reading /\ Fault
  /\ Becomes(r, None)
  /\ UNCHANGED <<priority, setting, env, resets, steady, kept>>

\* the processes restart under another environment: another master key, or none
Restart ==
  /\ Fault
  /\ env' \in Environment \ {env}
  /\ reader' = [r \in Reader |-> None] /\ resets' = {}
  /\ UNCHANGED <<priority, setting, steady, kept>>

Next ==
  \/ \E s \in Scope : SetPriority(s)
       \/ \E model \in Model \union {None}, key \in {"keep", "none", "new"} : SetAdapter(s, model, key)
  \/ \E o \in Operator : Reset(o) \/ ResetRows(o) \/ ResetStops(o)
  \/ \E r \in Reader : Begin(r) \/ Read(r) \/ ReadFails(r)
  \/ Restart

Spec == Init /\ [][Next]_providerVars

-----------------------------------------------------------------------------
\* A stored key is never passed over: while the tenant's is there, from the
\* first statement of a reader to its last, the run is billed to it or not at
\* all, whoever else's key would open; while the deployment's is there, the
\* environment's is not used; and a key stays until somebody asks for its
\* removal, however the rest of its row is changed.
KeysAreNotPassedOver ==
  /\ \A r \in Reader : reader[r] \in Resolved =>
       /\ "tenant" \in steady[r] => reader[r].bills \in {"tenant", None}
       /\ "default" \in steady[r] => reader[r].bills # "env"
  /\ \A s \in kept : setting[s].key # None

-----------------------------------------------------------------------------
(* What makes it inductive                                                   *)

SteadyKeysAreThere == \A r \in Reader : steady[r] \subseteq Holding(setting)

\* A reader past the tenant's row has read the key that stayed there.
ReadingsShowKeys == \A r \in Reader : reader[r] \in Reading =>
  /\ Len(reader[r].rows) = IF reader[r].at <= 2 THEN 0 ELSE 1
  /\ reader[r].at > 2 /\ "tenant" \in steady[r] => reader[r].rows[1].key # None

ProviderInv == TypeOK /\ SteadyKeysAreThere /\ ReadingsShowKeys /\ KeysAreNotPassedOver
=============================================================================
