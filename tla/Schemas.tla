------------------------------- MODULE Schemas -------------------------------
(* Extraction schemas written in the console (runs/console_schemas.py), the   *)
(* registry that lays them over the schema files (extraction/registry.py) and *)
(* the two readers of it: the console, which serves the files alone when the  *)
(* database is down, and the workers, which load it once and again only for a *)
(* schema they do not know. A saved version is a row nobody ever changes;     *)
(* saving one is several statements, so two operators may save at once.       *)
(* Left out: what a schema says, a row that no longer parses.                 *)
EXTENDS Naturals, FiniteSets, FiniteSetsExt

CONSTANTS
  Name,
  Draft,       \* what an operator may send: document and prompt
  Handler,     \* create requests in flight
  Worker,
  Files,       \* identities the schema files define, the same everywhere
  File,        \* what a file says
  MaxVersion,  \* bound: versions of a name
  MaxOutages,  \* bound: statements that find no database
  None

VARIABLES
  rows,      \* the console_schemas table
  desk,      \* the create requests
  known,     \* the registry each worker holds
  queued,    \* identities of admitted runs nobody has executed
  executed,  \* history: what runs were executed with
  saved,     \* history: what operators were told is saved
  outages

schemaVars == <<rows, desk, known, queued, executed, saved, outages>>

Identity == Name \X (1 .. MaxVersion)
Registry == [Identity -> Draft \union {File, None}]
Idle == [pc |-> "idle"]
Request == [pc: {"check", "read", "insert"}, name: Name, draft: Draft, base: Identity \union {None},
            seen: Registry, version: 1 .. MaxVersion, tries: 0 .. 2]
Answer == [pc: {"created", "name_taken", "version_taken", "invalid", "unavailable"}]

\* Requests, registries and rows have the shape the code gives them.
TypeOK ==
  /\ rows \in [Identity -> Draft \union {None}]
  /\ desk \in [Handler -> {Idle} \union Request \union Answer]
  /\ known \in [Worker -> Registry]
  /\ queued \subseteq Identity
  /\ executed \subseteq [id: Identity, with: Draft \union {File, None}]
  /\ saved \subseteq [id: Identity, draft: Draft, base: Identity \union {None}]
  /\ outages \in 0 .. MaxOutages

-----------------------------------------------------------------------------
\* with_console: a row takes the place of the file of its identity
FilesOnly == [i \in Identity |-> IF i \in Files THEN File ELSE None]
Merged == [i \in Identity |-> IF rows[i] # None THEN rows[i] ELSE FilesOnly[i]]

Has(registry, name) == \E i \in Identity : i[1] = name /\ registry[i] # None
Saved(name) == {i \in Identity : i[1] = name /\ rows[i] # None}

Outage == outages < MaxOutages /\ outages' = outages + 1
Up == UNCHANGED outages

Init ==
  /\ rows = [i \in Identity |-> None]
  /\ desk = [h \in Handler |-> Idle]
  /\ known = [w \in Worker |-> FilesOnly]
  /\ queued = {} /\ executed = {} /\ saved = {} /\ outages = 0

-----------------------------------------------------------------------------
(* create_version                                                            *)

Becomes(h, request) == desk' = [desk EXCEPT ![h] = request]
Ends(h, answer) == Becomes(h, [pc |-> answer])

\* create_schema reads the merged registry, the files alone in an outage; a
\* base it does not know, or of another name, is refused
Open(h, name, draft, base, seen) ==
  IF base # None /\ (seen[base] = None \/ base[1] # name) THEN Ends(h, "invalid")
  ELSE Becomes(h, [pc |-> IF base = None THEN "check" ELSE "read", name |-> name, draft |-> draft,
                   base |-> base, seen |-> seen, version |-> 1, tries |-> 0])

Create(h) ==
  /\ desk[h].pc \notin {"check", "read", "insert"}
  /\ \E name \in Name, draft \in Draft, base \in Identity \union {None} :
       \/ Open(h, name, draft, base, Merged) /\ Up
       \/ Open(h, name, draft, base, FilesOnly) /\ Outage
  /\ UNCHANGED <<rows, known, queued, executed, saved>>

\* a new name must be free in the registry and in the table
CheckName(h) ==
  LET r == desk[h] IN
  /\ r.pc = "check"
  /\ \/ /\ Up
        /\ IF Has(r.seen, r.name) \/ Saved(r.name) # {} THEN Ends(h, "name_taken")
           ELSE Becomes(h, [r EXCEPT !.pc = "read"])
     \/ Ends(h, "unavailable") /\ Outage
  /\ UNCHANGED <<rows, known, queued, executed, saved>>

StoredOnly(r) == {i[2] : i \in Saved(r.name)}
Taken(r) == {i[2] : i \in Saved(r.name) \union {j \in Identity : j[1] = r.name /\ r.seen[j] # None}}

\* the versions are read again at every attempt, and the next one taken
ReadVersions(h) ==
  LET r == desk[h] IN
  /\ r.pc = "read"
  /\ \/ /\ Max(Taken(r) \union {0}) < MaxVersion
        /\ Becomes(h, [r EXCEPT !.pc = "insert", !.version = Max(Taken(r) \union {0}) + 1])
        /\ Up
     \/ Ends(h, "unavailable") /\ Outage
  /\ UNCHANGED <<rows, known, queued, executed, saved>>

Upserts(i) == TRUE
\* ON CONFLICT DO NOTHING RETURNING: whether a row came back
Inserts(i) == rows[i] = None

LostRace(h, r) ==
  IF r.base = None THEN Ends(h, "name_taken")
  ELSE IF r.tries = 2 THEN Ends(h, "version_taken")
  ELSE Becomes(h, [r EXCEPT !.pc = "read", !.tries = @ + 1])

Insert(h) ==
  LET r == desk[h] i == <<r.name, r.version>> IN
  /\ r.pc = "insert"
  /\ \/ /\ Inserts(i)
        /\ rows' = [rows EXCEPT ![i] = r.draft]
        /\ saved' = saved \union {[id |-> i, draft |-> r.draft, base |-> r.base]}
        /\ Ends(h, "created") /\ Up
     \/ ~Inserts(i) /\ LostRace(h, r) /\ Up /\ UNCHANGED <<rows, saved>>
     \/ Ends(h, "unavailable") /\ Outage /\ UNCHANGED <<rows, saved>>
  /\ UNCHANGED <<known, queued, executed>>

-----------------------------------------------------------------------------
(* runs: admitted by what a request handler knows, executed by what a worker  *)
(* knows                                                                     *)

Admit(i) ==
  /\ \/ Merged[i] # None /\ Up
     \/ FilesOnly[i] # None /\ Outage
  /\ queued' = queued \union {i}
  /\ UNCHANGED <<rows, desk, known, executed, saved>>

\* _first_registry: a worker that starts in an outage knows nothing
Start(w) ==
  /\ \/ known' = [known EXCEPT ![w] = Merged] /\ Up
     \/ known' = [known EXCEPT ![w] = [i \in Identity |-> None]] /\ Outage
  /\ UNCHANGED <<rows, desk, queued, executed, saved>>

LenientReload == {FilesOnly}
\* what merged_registry returns in an outage when it is strict: it raises,
\* and the run goes back to the queue when its lease lapses
StrictReload == {}

Runs(w, i, registry) ==
  /\ known' = [known EXCEPT ![w] = registry]
  /\ executed' = executed \union {[id |-> i, with |-> registry[i]]}
  /\ queued' = queued \ {i}

\* only a schema the worker does not hold makes it load the registry again
Execute(w, i) ==
  /\ i \in queued
  /\ \/ known[w][i] # None /\ Runs(w, i, known[w]) /\ Up
     \/ known[w][i] = None /\ Runs(w, i, Merged) /\ Up
     \/ known[w][i] = None /\ Outage /\ \E registry \in StrictReload : Runs(w, i, registry)
  /\ UNCHANGED <<rows, desk, saved>>

Next ==
  \/ \E h \in Handler : Create(h) \/ CheckName(h) \/ ReadVersions(h) \/ Insert(h)
  \/ \E i \in Identity : Admit(i)
  \/ \E w \in Worker : Start(w) \/ \E i \in Identity : Execute(w, i)

Spec == Init /\ [][Next]_schemaVars

-----------------------------------------------------------------------------
\* What an operator was told is saved is what the identity names from then on,
\* and no run admitted against an identity fails for want of its schema or is
\* executed with anything but the saved version, whatever the worker loaded
\* and when, and whatever outages it met.
SavedVersionsServe ==
  /\ \A s \in saved : rows[s.id] = s.draft
  /\ \A e \in executed : e.with # None /\ (rows[e.id] # None => e.with = rows[e.id])

\* A schema created under a new name is the first of that name. Two operators
\* who create one name at once break it: the second finds the name free,
\* then reads the first one's row and becomes its version 2.
NewNamesAreNew == \A s \in saved : s.base = None => s.id[2] = 1

-----------------------------------------------------------------------------
(* What makes the properties inductive                                       *)

\* No row takes the place of a file: a version is numbered past those of the
\* files, which every registry a request reads has.
RowsAreBesideFiles == \A i \in Identity : rows[i] # None => i \notin Files
RequestsAreInformed == \A h \in Handler : desk[h].pc \in {"check", "read", "insert"} =>
  /\ \A i \in Files : desk[h].seen[i] # None
  /\ desk[h].pc = "insert" => <<desk[h].name, desk[h].version>> \notin Files

\* So what an identity names never changes, and nobody holds anything else.
RegistriesAgree == \A w \in Worker, i \in Identity : known[w][i] # None => known[w][i] = Merged[i]
QueuedAreNamed == \A i \in queued : Merged[i] # None
ExecutedAreNamed == \A e \in executed : e.with # None /\ e.with = Merged[e.id]
SavedAreKept == \A s \in saved : rows[s.id] = s.draft

SchemaInv ==
  TypeOK /\ RowsAreBesideFiles /\ RequestsAreInformed /\ RegistriesAgree /\ QueuedAreNamed /\ ExecutedAreNamed /\ SavedAreKept
=============================================================================
