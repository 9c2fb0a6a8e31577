-------------------------------- MODULE Keys --------------------------------
(***************************************************************************)
(* API keys (src/docdoc/runs/keys.py behind src/docdoc/api): a file ring   *)
(* read at startup, a table of issued credentials, and in every server     *)
(* process a cache of what the table said.  A server resolves keys on its  *)
(* event loop, one at a time; a revocation from the console runs on a      *)
(* thread beside it.                                                       *)
(***************************************************************************)
EXTENDS Naturals

CONSTANTS
  ApiKey,      \* keys, by their digests
  Server,      \* API processes
  CacheTTL,    \* the lifetime of a cached resolution
  MaxClock     \* bound: ticks of the clock

Clock == 0 .. MaxClock
Never == MaxClock + 1
\* What a server remembers of a key: until when, and whether the key was found.
Entry == [until: 0 .. MaxClock + CacheTTL, found: BOOLEAN]
Entries == UNION {[held -> Entry] : held \in SUBSET ApiKey}

VARIABLES
  credentials,  \* the table: unissued, active or revoked
  keyFile,      \* DOCDOC_API_KEYS_FILE
  ring,         \* what each server read of it
  cached,       \* CachedKeyStore._entries of each server, for keys it holds
  loop,         \* the resolution in progress on its event loop
  forgetting,   \* revocations of its console that have still to forget
  clock,
  revokedAt,    \* history: when a key was revoked
  done,         \* history: keys whose revocation a server has completed
  verdict       \* history: the last answer of each server

keyVars == <<credentials, keyFile, ring, cached, loop, forgetting, clock,
             revokedAt, done, verdict>>

Waiting == [step |-> "idle"]
\* asked: the clock the resolution began with.  late and issued, history: the
\* key was already revoked by this server, or active in the table, then.
Resolution == [step: {"drop", "ask", "keep"}, key: ApiKey, asked: Clock,
               late: BOOLEAN, issued: BOOLEAN]
Verdict == [answer: {"admitted", "refused", "error"}, key: ApiKey, asked: Clock,
            late: BOOLEAN, issued: BOOLEAN]

TypeOK ==
  /\ credentials \in [ApiKey -> {"unissued", "active", "revoked"}]
  /\ keyFile \subseteq ApiKey /\ ring \in [Server -> SUBSET ApiKey]
  /\ cached \in [Server -> Entries]
  /\ loop \in [Server -> Resolution \union {Waiting}]
  /\ forgetting \in [Server -> SUBSET ApiKey]
  /\ clock \in Clock /\ revokedAt \in [ApiKey -> Clock \union {Never}]
  /\ done \in [Server -> SUBSET ApiKey]
  /\ verdict \in [Server -> Verdict \union {Waiting}]

Empty == [k \in {} |-> 0]

Init ==
  /\ credentials = [k \in ApiKey |-> "unissued"]
  /\ keyFile = {}
  /\ ring = [s \in Server |-> {}]
  /\ cached = [s \in Server |-> Empty]
  /\ loop = [s \in Server |-> Waiting]
  /\ forgetting = [s \in Server |-> {}]
  /\ clock = 0
  /\ revokedAt = [k \in ApiKey |-> Never]
  /\ done = [s \in Server |-> {}]
  /\ verdict = [s \in Server |-> Waiting]

-----------------------------------------------------------------------------
(* principal_for                                                           *)

Answer(s, r, a) ==
  /\ verdict' = [verdict EXCEPT ![s] =
       [answer |-> a, key |-> r.key, asked |-> r.asked, late |-> r.late, issued |-> r.issued]]
  /\ loop' = [loop EXCEPT ![s] = Waiting]

At(s, r, step) ==
  /\ loop' = [loop EXCEPT ![s] =
       [step |-> step, key |-> r.key, asked |-> r.asked, late |-> r.late, issued |-> r.issued]]
  /\ UNCHANGED verdict

\* The ring is asked first.  Then the clock is read, and the cache.
Present(s, k) ==
  LET r == [key |-> k, asked |-> clock, late |-> k \in done[s],
            issued |-> credentials[k] = "active"]
      held == k \in DOMAIN cached[s]
      live == held /\ clock < cached[s][k].until IN
  /\ loop[s] = Waiting /\ k \notin ring[s]
  /\ \/ live /\ Answer(s, r, IF cached[s][k].found THEN "admitted" ELSE "refused")
     \/ held /\ ~live /\ At(s, r, "drop")
     \/ ~held /\ At(s, r, "ask")
  /\ UNCHANGED <<credentials, keyFile, ring, cached, forgetting, clock, revokedAt, done>>

\* `del self._entries[digest]`, which fails when a thread has cleared them since.
Drop(s) ==
  LET r == loop[s] IN
  /\ r.step = "drop"
  /\ IF r.key \in DOMAIN cached[s]
     THEN /\ cached' = [cached EXCEPT ![s] = [k \in DOMAIN @ \ {r.key} |-> @[k]]]
          /\ At(s, r, "ask")
     ELSE Answer(s, r, "error") /\ UNCHANGED cached
  /\ UNCHANGED <<credentials, keyFile, ring, forgetting, clock, revokedAt, done>>

MissesToo(found) == TRUE

\* A hit is cached, a miss is not.
Cacheable(found) == found

\* The SELECT, which names only rows not revoked.
Ask(s) ==
  LET r == loop[s]
      found == credentials[r.key] = "active" IN
  /\ r.step = "ask"
  /\ \/ found /\ At(s, r, "keep") /\ UNCHANGED cached
     \/ /\ ~found /\ Answer(s, r, "refused")
        /\ cached' = IF Cacheable(found)
                     THEN [cached EXCEPT ![s] = [k \in DOMAIN @ \union {r.key} |->
                            IF k = r.key THEN [until |-> r.asked + CacheTTL, found |-> FALSE]
                                         ELSE @[k]]]
                     ELSE cached
     \/ Answer(s, r, "error") /\ UNCHANGED cached   \* the database does not answer
  /\ UNCHANGED <<credentials, keyFile, ring, forgetting, clock, revokedAt, done>>

UntilLater(r) == clock + CacheTTL

\* The lifetime counts from before the question.
Until(r) == r.asked + CacheTTL

Keep(s) ==
  LET r == loop[s] IN
  /\ r.step = "keep"
  /\ cached' = [cached EXCEPT ![s] = [k \in DOMAIN @ \union {r.key} |->
       IF k = r.key THEN [until |-> Until(r), found |-> TRUE] ELSE @[k]]]
  /\ Answer(s, r, "admitted")
  /\ UNCHANGED <<credentials, keyFile, ring, forgetting, clock, revokedAt, done>>

-----------------------------------------------------------------------------
(* Issuing and revoking                                                    *)

Issue(k) ==
  /\ credentials[k] = "unissued"
  /\ credentials' = [credentials EXCEPT ![k] = "active"]
  /\ UNCHANGED <<keyFile, ring, cached, loop, forgetting, clock, revokedAt, done, verdict>>

Revoked(k) ==
  /\ credentials' = [credentials EXCEPT ![k] = "revoked"]
  /\ revokedAt' = [revokedAt EXCEPT ![k] = IF @ = Never THEN clock ELSE @]

\* `docdoc credential revoke`, beside every server.
RevokeFromShell(k) ==
  /\ credentials[k] = "active" /\ Revoked(k)
  /\ UNCHANGED <<keyFile, ring, cached, loop, forgetting, clock, done, verdict>>

\* The administrative route, a coroutine: nothing else runs on the loop until
\* the row is updated and every entry is forgotten.
RevokeOnLoop(s, k) ==
  /\ loop[s] = Waiting /\ credentials[k] # "unissued" /\ Revoked(k)
  /\ cached' = [cached EXCEPT ![s] = Empty]
  /\ done' = [done EXCEPT ![s] = @ \union {k}]
  /\ UNCHANGED <<keyFile, ring, loop, forgetting, clock, verdict>>

\* The console's route, on a thread: first the row, then the entries.
RevokeOnThread(s, k) ==
  /\ credentials[k] # "unissued" /\ Revoked(k)
  /\ forgetting' = [forgetting EXCEPT ![s] = @ \union {k}]
  /\ UNCHANGED <<keyFile, ring, cached, loop, clock, done, verdict>>

Forget(s, k) ==
  /\ k \in forgetting[s]
  /\ cached' = [cached EXCEPT ![s] = Empty]
  /\ forgetting' = [forgetting EXCEPT ![s] = @ \ {k}]
  /\ done' = [done EXCEPT ![s] = @ \union {k}]
  /\ UNCHANGED <<credentials, keyFile, ring, loop, clock, revokedAt, verdict>>

-----------------------------------------------------------------------------
(* The file, restarts and time                                             *)

EditFile(k) ==
  /\ keyFile' = IF k \in keyFile THEN keyFile \ {k} ELSE keyFile \union {k}
  /\ UNCHANGED <<credentials, ring, cached, loop, forgetting, clock, revokedAt, done, verdict>>

\* The ring is read once, so an edited file means nothing before this.
Restart(s) ==
  /\ ring' = [ring EXCEPT ![s] = keyFile]
  /\ cached' = [cached EXCEPT ![s] = Empty]
  /\ loop' = [loop EXCEPT ![s] = Waiting]
  /\ forgetting' = [forgetting EXCEPT ![s] = {}]
  /\ verdict' = [verdict EXCEPT ![s] = Waiting]
  /\ UNCHANGED <<credentials, keyFile, clock, revokedAt, done>>

Tick ==
  /\ clock < MaxClock /\ clock' = clock + 1
  /\ UNCHANGED <<credentials, keyFile, ring, cached, loop, forgetting, revokedAt, done, verdict>>

Serve(s) ==
  \/ \E k \in ApiKey : Present(s, k) \/ RevokeOnLoop(s, k) \/ RevokeOnThread(s, k) \/ Forget(s, k)
  \/ Drop(s) \/ Ask(s) \/ Keep(s) \/ Restart(s)

Next ==
  \/ \E s \in Server : Serve(s)
  \/ \E k \in ApiKey : Issue(k) \/ RevokeFromShell(k) \/ EditFile(k)
  \/ Tick

Spec == Init /\ [][Next]_keyVars

-----------------------------------------------------------------------------
(* Properties                                                              *)

\* A revocation reaches every process within one cache lifetime: a request that
\* comes later than that is not admitted anywhere, wherever the revocation was
\* made and whatever resolution was in flight.
RevocationPropagates == \A s \in Server : LET v == verdict[s] IN
  v # Waiting /\ v.answer = "admitted" => v.asked < revokedAt[v.key] + CacheTTL

\* A key that is issued works at once in every process, also in one that
\* refused it a moment ago.
IssuanceIsImmediate == \A s \in Server : LET v == verdict[s] IN
  v # Waiting /\ v.answer = "refused" /\ v.issued => credentials[v.key] = "revoked"

\* A server that has completed a revocation refuses the key at once.
RefusedWhereRevoked == \A s \in Server : LET v == verdict[s] IN
  v # Waiting /\ v.answer = "admitted" => ~v.late

-----------------------------------------------------------------------------
(* What makes the properties inductive                                     *)

\* The table and its history agree, and revocations are in the past.
HistoryAgrees ==
  \A k \in ApiKey :
    /\ revokedAt[k] # Never <=> credentials[k] = "revoked"
    /\ revokedAt[k] = Never \/ revokedAt[k] <= clock

\* An entry for a key that was found dies within one lifetime of its revocation,
\* and of this moment.
EntriesDie ==
  \A s \in Server : \A k \in DOMAIN cached[s] :
    cached[s][k].found =>
      /\ cached[s][k].until <= revokedAt[k] + CacheTTL
      /\ cached[s][k].until <= clock + CacheTTL

\* A resolution that has its row began before any revocation of it.
InFlight ==
  \A s \in Server :
    /\ loop[s].step # "idle" => loop[s].asked <= clock
    /\ loop[s].step = "keep" => loop[s].asked <= revokedAt[loop[s].key]

\* An admission came within one lifetime of a revocation, whenever that is.
Admissions ==
  \A s \in Server : LET v == verdict[s] IN
    v # Waiting => /\ v.asked <= clock
                   /\ v.answer = "admitted" => v.asked < revokedAt[v.key] + CacheTTL

\* A key a resolution began with issued stays so, or is revoked.
IssuedStay == \A s \in Server :
  loop[s].step # "idle" /\ loop[s].issued => credentials[loop[s].key] # "unissued"

\* No cache holds a miss.
HitsAreCached == \A s \in Server : \A k \in DOMAIN cached[s] : cached[s][k].found

KeyInv == TypeOK /\ HistoryAgrees /\ EntriesDie /\ InFlight /\ Admissions
IssueInv == IssuedStay /\ HitsAreCached /\ IssuanceIsImmediate

=============================================================================
