---------------------------- MODULE RecordsProofs ----------------------------
(* Who is let in, with whose key a model is called, what is kept and what is  *)
(* forgotten, for every value of the constants: console accounts, API keys,   *)
(* the providers' settings, evaluations, the artifact store.                  *)
EXTENDS Records, FiniteSetTheorems, TLAPS

-----------------------------------------------------------------------------
(* Accounts                                                                  *)

accounts == v1
sessions == v2
time == v3
tokens == v4
request == v5
command == v6
guesses == v7
interrupted == v8

USE AccountAssumption DEF accounts, sessions, time, tokens, request, command, guesses, interrupted

LEMMA SameSizes == ASSUME NEW S PROVE Accounts!Cardinality(S) = Cardinality(S)
BY DEF Accounts!Cardinality, Cardinality

(* A part of the requests is finite.                                         *)
LEMMA HandlersAreFinite ==
  ASSUME NEW S \in SUBSET Handler
  PROVE  IsFiniteSet(S) /\ Cardinality(S) \in Nat
BY FS_Subset, FS_CardinalityType

(* The sessions are a function on some of the tokens.                        *)
LEMMA SessionsAreTyped ==
  ASSUME Accounts!TypeOK
  PROVE  /\ DOMAIN sessions \in SUBSET Accounts!Token
         /\ sessions \in [DOMAIN sessions -> Accounts!Session]
BY DEF Accounts!TypeOK

LEMMA RequestsAreTyped ==
  ASSUME Accounts!TypeOK, NEW b \in Handler
  PROVE  /\ Accounts!LoggingIn(b) => /\ request[b].user \in User /\ request[b].password \in Password
                                     /\ request[b].now \in Accounts!Time
         /\ request[b].step \in {"dead", "alive"} => /\ request[b].token \in Accounts!Token
                                                     /\ request[b].now \in Accounts!Time
BY DEF Accounts!TypeOK, Accounts!Request, Accounts!LoggingIn, Accounts!Idling

(* The wrong passwords still to count are no more than the requests.         *)
LEMMA UncountedOf ==
  ASSUME NEW u
  PROVE  /\ Accounts!Uncounted(u) \in SUBSET Handler
         /\ Accounts!Uncounted(u)' \in SUBSET Handler
BY DEF Accounts!Uncounted

LEMMA AccountsStart == Accounts!Init => Accounts!AccountInv
<1> SUFFICES ASSUME Accounts!Init PROVE Accounts!AccountInv
  OBVIOUS
<1>1. Accounts!TypeOK
  <2>1. sessions \in [{} -> Accounts!Session]
    BY DEF Accounts!Init
  <2> QED BY <2>1 DEF Accounts!Init, Accounts!TypeOK, Accounts!Time, Accounts!Token, Accounts!Request
<1>2. Accounts!RequestsAreKnown
  BY DEF Accounts!Init, Accounts!RequestsAreKnown, Accounts!LoggingIn, Accounts!Idling
<1>3. Accounts!GuessesAreCounted /\ Accounts!SessionsAreCurrent
  BY SameSizes DEF Accounts!Init, Accounts!GuessesAreCounted, Accounts!SessionsAreCurrent
<1> QED BY <1>1, <1>2, <1>3 DEF Accounts!AccountInv

(* A step that leaves an account alone leaves what is to be counted on it.   *)
LEMMA SameCount ==
  ASSUME Accounts!GuessesAreCounted, NEW u \in User,
         accounts'[u] = accounts[u], guesses'[u] = guesses[u], request' = request
  PROVE  IF accounts'[u] = None THEN guesses'[u] = 0
         ELSE guesses'[u] <= accounts'[u].failed + Cardinality(Accounts!Uncounted(u)')
<1>1. Accounts!Uncounted(u)' = Accounts!Uncounted(u)
  BY DEF Accounts!Uncounted, Accounts!MayCount, Accounts!Locked
<1> QED BY <1>1, SameSizes DEF Accounts!GuessesAreCounted

(* So does one of a request that neither reads an account nor counts a guess. *)
LEMMA SameCounts ==
  ASSUME Accounts!GuessesAreCounted, accounts' = accounts, guesses' = guesses,
         \A b \in Handler : request'[b] = request[b] \/ (request[b].step # "wrong" /\ request'[b].step # "wrong")
  PROVE  Accounts!GuessesAreCounted'
<1>1. \A u \in User : Accounts!Uncounted(u)' = Accounts!Uncounted(u)
  BY DEF Accounts!Uncounted, Accounts!MayCount, Accounts!Locked
<1> QED BY <1>1 DEF Accounts!GuessesAreCounted

LEMMA Adds ==
  ASSUME Accounts!AccountInv, NEW o \in Operator, NEW u \in User, NEW p \in Password,
         Accounts!Add(o, u, p)
  PROVE  Accounts!AccountInv'
<1>0. Accounts!TypeOK /\ Accounts!RequestsAreKnown /\ Accounts!GuessesAreCounted /\ Accounts!SessionsAreCurrent
  BY DEF Accounts!AccountInv
<1>1. /\ ~Accounts!Active(u) /\ UNCHANGED <<sessions, time, tokens, request, command, interrupted>>
      /\ accounts' = [accounts EXCEPT ![u] = Accounts!Fresh(p)] /\ guesses' = [guesses EXCEPT ![u] = 0]
  BY DEF Accounts!Add, Accounts!Cleared
<1>2. /\ Accounts!Fresh(p) \in Accounts!Account /\ Accounts!Fresh(p).failed = 0
      /\ Accounts!Fresh(p).lockedUntil = 0
  BY DEF Accounts!Fresh, Accounts!Account
<1>3. Accounts!TypeOK'
  BY <1>0, <1>1, <1>2 DEF Accounts!TypeOK
<1>4. Accounts!RequestsAreKnown'
  BY <1>0, <1>1, <1>2 DEF Accounts!RequestsAreKnown, Accounts!LoggingIn, Accounts!TypeOK
<1>5. Accounts!GuessesAreCounted'
  <2> SUFFICES ASSUME NEW w \in User
               PROVE  IF accounts'[w] = None THEN guesses'[w] = 0
                      ELSE guesses'[w] <= accounts'[w].failed + Cardinality(Accounts!Uncounted(w)')
    BY SameSizes DEF Accounts!GuessesAreCounted
  <2>1. CASE w = u
    <3>1. Cardinality(Accounts!Uncounted(w)') \in Nat
      BY UncountedOf, HandlersAreFinite
    <3>2. accounts'[w] = Accounts!Fresh(p) /\ guesses'[w] = 0
      BY <1>0, <1>1, <2>1 DEF Accounts!TypeOK
    <3> QED BY <1>2, <3>1, <3>2
  <2>2. CASE w # u
    <3>1. accounts'[w] = accounts[w] /\ guesses'[w] = guesses[w]
      BY <1>0, <1>1, <2>2 DEF Accounts!TypeOK
    <3> QED BY <1>0, <1>1, <3>1, SameCount
  <2> QED BY <2>1, <2>2
<1>6. Accounts!SessionsAreCurrent'
  BY <1>0, <1>1, SessionsAreTyped
     DEF Accounts!SessionsAreCurrent, Accounts!Active, Accounts!RequestsAreKnown, Accounts!TypeOK, Accounts!Session
<1> QED BY <1>3, <1>4, <1>5, <1>6 DEF Accounts!AccountInv

LEMMA PasswordsAreSet ==
  ASSUME Accounts!AccountInv, NEW o \in Operator, NEW u \in User, NEW p \in Password,
         Accounts!SetPassword(o, u, p)
  PROVE  Accounts!AccountInv'
<1>0. Accounts!TypeOK /\ Accounts!RequestsAreKnown /\ Accounts!GuessesAreCounted /\ Accounts!SessionsAreCurrent
  BY DEF Accounts!AccountInv
<1>1. /\ command[o] = None /\ command' = [command EXCEPT ![o] = u]
      /\ UNCHANGED <<sessions, time, tokens, request, interrupted>>
      /\ accounts' = [accounts EXCEPT ![u] = Accounts!Fresh(p)] /\ guesses' = [guesses EXCEPT ![u] = 0]
  BY DEF Accounts!SetPassword, Accounts!Cleared
<1>2. /\ Accounts!Fresh(p) \in Accounts!Account /\ Accounts!Fresh(p).failed = 0
      /\ Accounts!Fresh(p).lockedUntil = 0
  BY DEF Accounts!Fresh, Accounts!Account
<1>3. Accounts!TypeOK'
  BY <1>0, <1>1, <1>2 DEF Accounts!TypeOK
<1>4. Accounts!RequestsAreKnown'
  BY <1>0, <1>1, <1>2 DEF Accounts!RequestsAreKnown, Accounts!LoggingIn, Accounts!TypeOK
<1>5. Accounts!GuessesAreCounted'
  <2> SUFFICES ASSUME NEW w \in User
               PROVE  IF accounts'[w] = None THEN guesses'[w] = 0
                      ELSE guesses'[w] <= accounts'[w].failed + Cardinality(Accounts!Uncounted(w)')
    BY SameSizes DEF Accounts!GuessesAreCounted
  <2>1. CASE w = u
    <3>1. Cardinality(Accounts!Uncounted(w)') \in Nat
      BY UncountedOf, HandlersAreFinite
    <3>2. accounts'[w] = Accounts!Fresh(p) /\ guesses'[w] = 0
      BY <1>0, <1>1, <2>1 DEF Accounts!TypeOK
    <3> QED BY <1>2, <3>1, <3>2
  <2>2. CASE w # u
    <3>1. accounts'[w] = accounts[w] /\ guesses'[w] = guesses[w]
      BY <1>0, <1>1, <2>2 DEF Accounts!TypeOK
    <3> QED BY <1>0, <1>1, <3>1, SameCount
  <2> QED BY <2>1, <2>2
<1>6. Accounts!SessionsAreCurrent'
  BY <1>0, <1>1, SessionsAreTyped DEF Accounts!SessionsAreCurrent, Accounts!TypeOK, Accounts!Session
<1> QED BY <1>3, <1>4, <1>5, <1>6 DEF Accounts!AccountInv

LEMMA Disables ==
  ASSUME Accounts!AccountInv, NEW o \in Operator, NEW u \in User, Accounts!Disable(o, u)
  PROVE  Accounts!AccountInv'
<1>0. Accounts!TypeOK /\ Accounts!RequestsAreKnown /\ Accounts!GuessesAreCounted /\ Accounts!SessionsAreCurrent
  BY DEF Accounts!AccountInv
<1>1. /\ command[o] = None /\ command' = [command EXCEPT ![o] = u] /\ accounts[u] # None
      /\ UNCHANGED <<sessions, time, tokens, request, guesses, interrupted>>
      /\ accounts' = [accounts EXCEPT ![u] = [accounts[u] EXCEPT !.disabled = TRUE]]
  BY DEF Accounts!Disable, Accounts!Active
<1>2. /\ accounts[u] \in Accounts!Account
      /\ [accounts[u] EXCEPT !.disabled = TRUE] \in Accounts!Account
      /\ [accounts[u] EXCEPT !.disabled = TRUE].failed = accounts[u].failed
      /\ [accounts[u] EXCEPT !.disabled = TRUE].lockedUntil = accounts[u].lockedUntil
  BY <1>0, <1>1 DEF Accounts!TypeOK, Accounts!Account
<1>3. Accounts!TypeOK'
  BY <1>0, <1>1, <1>2 DEF Accounts!TypeOK
<1>4. \A w \in User : /\ accounts'[w] = None <=> accounts[w] = None
                      /\ accounts[w] # None => /\ accounts'[w].failed = accounts[w].failed
                                               /\ accounts'[w].lockedUntil = accounts[w].lockedUntil
  BY <1>0, <1>1, <1>2 DEF Accounts!TypeOK
<1>7. Accounts!RequestsAreKnown'
  <2>1. \A b \in Handler : Accounts!LoggingIn(b)' <=> Accounts!LoggingIn(b)
    BY <1>1 DEF Accounts!LoggingIn
  <2>2. \A t \in DOMAIN sessions : sessions[t].user \in User
    BY <1>0, SessionsAreTyped DEF Accounts!Session
  <2> QED BY <1>0, <1>1, <1>4, <2>1, <2>2, RequestsAreTyped DEF Accounts!RequestsAreKnown
<1>5. Accounts!GuessesAreCounted'
  <2>1. \A w \in User : accounts[w] # None => Accounts!Uncounted(w)' = Accounts!Uncounted(w)
    BY <1>1, <1>4 DEF Accounts!Uncounted, Accounts!MayCount, Accounts!Locked
  <2> QED BY <1>0, <1>1, <1>4, <2>1 DEF Accounts!GuessesAreCounted
<1>6. Accounts!SessionsAreCurrent'
  BY <1>0, <1>1, SessionsAreTyped DEF Accounts!SessionsAreCurrent, Accounts!TypeOK, Accounts!Session
<1> QED BY <1>3, <1>5, <1>6, <1>7 DEF Accounts!AccountInv

(* The second statement of a command, or its failure.                        *)
LEMMA CommandsEnd ==
  ASSUME Accounts!AccountInv, NEW o \in Operator, Accounts!SignEveryoneOut(o) \/ Accounts!Interrupt(o)
  PROVE  Accounts!AccountInv'
<1>0. Accounts!TypeOK /\ Accounts!RequestsAreKnown /\ Accounts!GuessesAreCounted /\ Accounts!SessionsAreCurrent
  BY DEF Accounts!AccountInv
<1>1. /\ command[o] \in User /\ command' = [command EXCEPT ![o] = None]
      /\ UNCHANGED <<accounts, time, tokens, request, guesses>>
  BY <1>0 DEF Accounts!SignEveryoneOut, Accounts!Interrupt, Accounts!TypeOK
<1>2. Accounts!GuessesAreCounted'
  <2>1. accounts' = accounts /\ guesses' = guesses /\ request' = request
    BY <1>1
  <2>2. \A b \in Handler : request'[b] = request[b] \/ (request[b].step # "wrong" /\ request'[b].step # "wrong")
    BY <2>1
  <2>3. Accounts!GuessesAreCounted
    BY <1>0
  <2> QED BY ONLY <2>1, <2>2, <2>3, SameCounts
<1>3. CASE Accounts!SignEveryoneOut(o)
  <2>1. sessions' = [t \in DOMAIN sessions \ {t \in DOMAIN sessions : sessions[t].user = command[o]} |-> sessions[t]]
        /\ interrupted' = interrupted \ {command[o]}
    BY <1>3 DEF Accounts!SignEveryoneOut, Accounts!Without
  <2>2. /\ DOMAIN sessions' \in SUBSET Accounts!Token /\ sessions' \in [DOMAIN sessions' -> Accounts!Session]
        /\ \A t \in DOMAIN sessions' : t \in DOMAIN sessions /\ sessions'[t] = sessions[t] /\ sessions[t].user # command[o]
    BY <1>0, <2>1, SessionsAreTyped
  <2>3. Accounts!TypeOK'
    BY <1>0, <1>1, <2>1, <2>2 DEF Accounts!TypeOK
  <2>4. Accounts!RequestsAreKnown'
    BY <1>0, <1>1, <2>2 DEF Accounts!RequestsAreKnown, Accounts!LoggingIn
  <2>5. Accounts!SessionsAreCurrent'
    BY <1>0, <1>1, <2>1, <2>2 DEF Accounts!SessionsAreCurrent, Accounts!TypeOK
  <2> QED BY <1>2, <2>3, <2>4, <2>5 DEF Accounts!AccountInv
<1>4. CASE Accounts!Interrupt(o)
  <2>1. sessions' = sessions /\ interrupted' = interrupted \union {command[o]}
    BY <1>4 DEF Accounts!Interrupt
  <2>2. Accounts!TypeOK'
    BY <1>0, <1>1, <2>1 DEF Accounts!TypeOK
  <2>3. Accounts!RequestsAreKnown'
    BY <1>0, <1>1, <2>1 DEF Accounts!RequestsAreKnown, Accounts!LoggingIn
  <2>4. Accounts!SessionsAreCurrent'
    BY <1>0, <1>1, <2>1 DEF Accounts!SessionsAreCurrent, Accounts!TypeOK
  <2> QED BY <1>2, <2>2, <2>3, <2>4 DEF Accounts!AccountInv
<1> QED BY <1>3, <1>4

(* Logging in: the password is compared, a session opened, a failure counted. *)
LEMMA LogsIn ==
  ASSUME Accounts!AccountInv, NEW b \in Handler, NEW u \in User, NEW p \in Password,
         Accounts!Login(b, u, p)
  PROVE  Accounts!AccountInv'
<1> DEFINE step == IF p = accounts[u].password THEN "verified" ELSE "wrong"
           new == [step |-> step, user |-> u, password |-> p, now |-> time]
<1>0. Accounts!TypeOK /\ Accounts!RequestsAreKnown /\ Accounts!GuessesAreCounted /\ Accounts!SessionsAreCurrent
  BY DEF Accounts!AccountInv
<1>1. /\ request[b] = Accounts!Idling /\ accounts[u] # None /\ ~Accounts!Locked(accounts[u], time)
      /\ request' = [request EXCEPT ![b] = new]
      /\ guesses' = IF step = "verified" THEN guesses ELSE [guesses EXCEPT ![u] = @ + 1]
      /\ UNCHANGED <<accounts, sessions, time, tokens, command, interrupted>>
  BY DEF Accounts!Login, Accounts!Active
<1>2. /\ new \in Accounts!Request /\ new.user = u /\ new.now = time /\ new.step = step
      /\ \A c \in Handler : request'[c] = IF c = b THEN new ELSE request[c]
      /\ ~Accounts!LoggingIn(b)
  BY <1>0, <1>1 DEF Accounts!TypeOK, Accounts!Request, Accounts!LoggingIn, Accounts!Idling
<1> HIDE DEF new, step
<1>3. Accounts!TypeOK'
  BY <1>0, <1>1, <1>2 DEF Accounts!TypeOK
<1>4. Accounts!RequestsAreKnown'
  BY <1>0, <1>1, <1>2 DEF Accounts!RequestsAreKnown, Accounts!LoggingIn, Accounts!TypeOK, Accounts!Time
<1>5. Accounts!GuessesAreCounted'
  <2>0. \A w \in User : Accounts!Uncounted(w) \subseteq Accounts!Uncounted(w)'
    BY <1>1, <1>2 DEF Accounts!Uncounted, Accounts!MayCount, Accounts!Locked, Accounts!LoggingIn
  <2> SUFFICES ASSUME NEW w \in User
               PROVE  IF accounts'[w] = None THEN guesses'[w] = 0
                      ELSE guesses'[w] <= accounts'[w].failed + Cardinality(Accounts!Uncounted(w)')
    BY SameSizes DEF Accounts!GuessesAreCounted
  <2>1. /\ accounts'[w] = accounts[w] /\ guesses[w] \in Nat
        /\ accounts[w] # None => accounts[w].failed \in Nat
    BY <1>0, <1>1 DEF Accounts!TypeOK, Accounts!Account
  <2>2. /\ Cardinality(Accounts!Uncounted(w)) \in Nat /\ Cardinality(Accounts!Uncounted(w)') \in Nat
        /\ Cardinality(Accounts!Uncounted(w)) <= Cardinality(Accounts!Uncounted(w)')
    BY <2>0, UncountedOf, HandlersAreFinite, FS_Subset
  <2>3. IF accounts[w] = None THEN guesses[w] = 0
        ELSE guesses[w] <= accounts[w].failed + Cardinality(Accounts!Uncounted(w))
    BY <1>0, SameSizes DEF Accounts!GuessesAreCounted
  <2>4. CASE step = "wrong" /\ w = u
    <3>1. b \in Accounts!Uncounted(w)' /\ b \notin Accounts!Uncounted(w)
      BY <1>1, <1>2, <2>4 DEF Accounts!Uncounted, Accounts!MayCount, Accounts!Locked, Accounts!LoggingIn
    <3>2. Cardinality(Accounts!Uncounted(w) \union {b}) = Cardinality(Accounts!Uncounted(w)) + 1
      BY <3>1, UncountedOf, HandlersAreFinite, FS_AddElement
    <3>3. Cardinality(Accounts!Uncounted(w) \union {b}) <= Cardinality(Accounts!Uncounted(w)')
      BY <2>0, <3>1, UncountedOf, HandlersAreFinite, FS_Subset
    <3>4. guesses'[w] = guesses[w] + 1 /\ accounts[w] # None
      BY <1>0, <1>1, <2>4 DEF Accounts!TypeOK
    <3> QED BY <2>1, <2>2, <2>3, <3>2, <3>3, <3>4
  <2>5. CASE ~(step = "wrong" /\ w = u)
    <3>1. guesses'[w] = guesses[w]
      BY <1>0, <1>1, <2>5 DEF Accounts!TypeOK, step
    <3> QED BY <2>1, <2>2, <2>3, <3>1
  <2> QED BY <2>4, <2>5
<1>6. Accounts!SessionsAreCurrent'
  BY <1>0, <1>1 DEF Accounts!SessionsAreCurrent
<1> QED BY <1>3, <1>4, <1>5, <1>6 DEF Accounts!AccountInv

LEMMA SessionsOpen ==
  ASSUME Accounts!AccountInv, NEW b \in Handler, Accounts!OpenSession(b)
  PROVE  Accounts!AccountInv'
<1> DEFINE u == request[b].user
           cleared == [accounts[u] EXCEPT !.failed = 0, !.lockedUntil = 0]
           opened == [user |-> u, seen |-> request[b].now, password |-> request[b].password]
<1>0. Accounts!TypeOK /\ Accounts!RequestsAreKnown /\ Accounts!GuessesAreCounted /\ Accounts!SessionsAreCurrent
  BY DEF Accounts!AccountInv
<1>1. /\ request[b].step = "verified" /\ Accounts!StillVerified(request[b])
      /\ tokens < MaxSessions /\ tokens' = tokens + 1
      /\ sessions' = [t \in DOMAIN sessions \union {tokens'} |-> IF t = tokens' THEN opened ELSE sessions[t]]
      /\ accounts' = [accounts EXCEPT ![u] = cleared] /\ guesses' = [guesses EXCEPT ![u] = 0]
      /\ request' = [request EXCEPT ![b] = Accounts!Idling]
      /\ UNCHANGED <<time, command, interrupted>>
  BY DEF Accounts!OpenSession, Accounts!Cleared
<1>2. u \in User /\ request[b].password \in Password /\ request[b].now \in Accounts!Time /\ Accounts!LoggingIn(b)
  BY <1>0, <1>1, RequestsAreTyped DEF Accounts!LoggingIn
<1>3. /\ accounts[u] \in Accounts!Account /\ accounts[u].password = request[b].password /\ ~accounts[u].disabled
      /\ cleared \in Accounts!Account /\ cleared # None /\ cleared.failed = 0 /\ cleared.lockedUntil = 0
      /\ cleared.password = accounts[u].password /\ cleared.disabled = accounts[u].disabled
      /\ opened \in Accounts!Session /\ opened.user = u /\ opened.password = request[b].password
  <2>1. accounts[u] \in Accounts!Account /\ accounts[u].password = request[b].password /\ ~accounts[u].disabled
    BY <1>0, <1>1, <1>2 DEF Accounts!TypeOK, Accounts!StillVerified, Accounts!Active
  <2>2. /\ cleared \in Accounts!Account /\ cleared.failed = 0 /\ cleared.lockedUntil = 0
        /\ cleared.password = accounts[u].password /\ cleared.disabled = accounts[u].disabled
    BY <2>1 DEF Accounts!Account
  <2>3. opened \in Accounts!Session /\ opened.user = u /\ opened.password = request[b].password
    BY <1>2 DEF Accounts!Session
  <2> QED BY <2>1, <2>2, <2>3
<1>4. /\ DOMAIN sessions' \in SUBSET Accounts!Token /\ sessions' \in [DOMAIN sessions' -> Accounts!Session]
      /\ \A t \in DOMAIN sessions' : IF t = tokens' THEN sessions'[t] = opened
                                     ELSE t \in DOMAIN sessions /\ sessions'[t] = sessions[t]
      /\ tokens' \in 0 .. MaxSessions
  BY <1>0, <1>1, <1>3, SessionsAreTyped DEF Accounts!TypeOK, Accounts!Token
<1>5. /\ \A w \in User : accounts'[w] = IF w = u THEN cleared ELSE accounts[w]
      /\ \A c \in Handler : request'[c] = IF c = b THEN Accounts!Idling ELSE request[c]
      /\ ~Accounts!LoggingIn(b)'
      /\ \A w \in User : guesses'[w] = IF w = u THEN 0 ELSE guesses[w]
  BY <1>0, <1>1, <1>2 DEF Accounts!TypeOK, Accounts!LoggingIn, Accounts!Idling
<1> HIDE DEF cleared, opened
<1>6. Accounts!TypeOK'
  <2>1. accounts' \in [User -> Accounts!Account \union {None}] /\ request' \in [Handler -> Accounts!Request]
        /\ guesses' \in [User -> Nat]
    BY <1>0, <1>1, <1>3 DEF Accounts!TypeOK, Accounts!Request
  <2>2. \A w \in User : accounts'[w] # None =>
          accounts'[w].failed < MaxFailedLogins /\ accounts'[w].lockedUntil <= MaxTime + Lockout
    BY <1>0, <1>3, <1>5 DEF Accounts!TypeOK
  <2> QED BY <1>0, <1>1, <1>4, <2>1, <2>2 DEF Accounts!TypeOK
<1>7. Accounts!RequestsAreKnown'
  <2>1. \A c \in Handler : Accounts!LoggingIn(c)' =>
          Accounts!LoggingIn(c) /\ request'[c] = request[c]
    BY <1>5 DEF Accounts!LoggingIn
  <2>2. \A t \in DOMAIN sessions : sessions[t].user \in User
    BY <1>0, SessionsAreTyped DEF Accounts!Session
  <2> QED BY <1>0, <1>1, <1>3, <1>4, <1>5, <2>1, <2>2, RequestsAreTyped DEF Accounts!RequestsAreKnown
<1>8. Accounts!GuessesAreCounted'
  <2> SUFFICES ASSUME NEW w \in User
               PROVE  IF accounts'[w] = None THEN guesses'[w] = 0
                      ELSE guesses'[w] <= accounts'[w].failed + Cardinality(Accounts!Uncounted(w)')
    BY SameSizes DEF Accounts!GuessesAreCounted
  <2>1. CASE w = u
    BY <1>3, <1>5, <2>1, UncountedOf, HandlersAreFinite
  <2>2. CASE w # u
    <3>1. Accounts!Uncounted(w)' = Accounts!Uncounted(w)
      BY <1>1, <1>5, <2>2 DEF Accounts!Uncounted, Accounts!MayCount, Accounts!Locked, Accounts!LoggingIn
    <3> QED BY <1>0, <1>5, <2>2, <3>1, SameSizes DEF Accounts!GuessesAreCounted
  <2> QED BY <2>1, <2>2
<1>9. Accounts!SessionsAreCurrent'
  <2> SUFFICES ASSUME NEW t \in DOMAIN sessions'
               PROVE  \/ sessions'[t].password = accounts'[sessions'[t].user].password /\ ~accounts'[sessions'[t].user].disabled
                      \/ \E o \in Operator : command'[o] = sessions'[t].user
                      \/ sessions'[t].user \in interrupted'
    BY DEF Accounts!SessionsAreCurrent
  <2>1. CASE t = tokens'
    BY <1>2, <1>3, <1>4, <1>5, <2>1
  <2>2. CASE t # tokens'
    <3>1. sessions'[t] = sessions[t] /\ t \in DOMAIN sessions /\ sessions[t].user \in User
      BY <1>0, <1>4, <2>2, SessionsAreTyped DEF Accounts!Session
    <3>2. /\ accounts'[sessions[t].user].password = accounts[sessions[t].user].password
          /\ accounts'[sessions[t].user].disabled = accounts[sessions[t].user].disabled
      BY <1>3, <1>5, <3>1
    <3> QED BY <1>0, <1>1, <3>1, <3>2 DEF Accounts!SessionsAreCurrent
  <2> QED BY <2>1, <2>2
<1> QED BY <1>6, <1>7, <1>8, <1>9 DEF Accounts!AccountInv

LEMMA FailuresAreRecorded ==
  ASSUME Accounts!AccountInv, NEW b \in Handler, Accounts!RecordFailure(b)
  PROVE  Accounts!AccountInv'
<1> DEFINE u == request[b].user
           after == Accounts!AfterFailure(accounts[u], request[b].now)
<1>0. Accounts!TypeOK /\ Accounts!RequestsAreKnown /\ Accounts!GuessesAreCounted /\ Accounts!SessionsAreCurrent
  BY DEF Accounts!AccountInv
<1>1. /\ Accounts!LoggingIn(b) /\ request' = [request EXCEPT ![b] = Accounts!Idling]
      /\ UNCHANGED <<sessions, time, tokens, command, interrupted>>
  BY DEF Accounts!RecordFailure, Accounts!LoggingIn
<1>2. u \in User /\ request[b].now \in Accounts!Time /\ accounts[u] # None /\ accounts[u] \in Accounts!Account
  BY <1>0, <1>1, RequestsAreTyped DEF Accounts!RequestsAreKnown, Accounts!TypeOK
<1>3. /\ \A c \in Handler : request'[c] = IF c = b THEN Accounts!Idling ELSE request[c]
      /\ ~Accounts!LoggingIn(b)' /\ request' \in [Handler -> Accounts!Request]
  BY <1>0, <1>1 DEF Accounts!TypeOK, Accounts!LoggingIn, Accounts!Idling, Accounts!Request
<1>4. \A w \in User : Accounts!Uncounted(w) \ {b} = {c \in Handler \ {b} :
        /\ request'[c].step = "wrong" /\ request'[c].user = w
        /\ Accounts!MayCount(accounts[w], request'[c].now)}
  BY <1>3 DEF Accounts!Uncounted, Accounts!MayCount, Accounts!Locked
<1>5. CASE ~Accounts!MayCount(accounts[u], request[b].now)
  <2>1. accounts' = accounts /\ guesses' = guesses
    BY <1>5 DEF Accounts!RecordFailure
  <2>2. Accounts!TypeOK'
    BY <1>0, <1>1, <1>3, <2>1 DEF Accounts!TypeOK
  <2>3. Accounts!RequestsAreKnown'
    BY <1>0, <1>1, <1>3, <2>1 DEF Accounts!RequestsAreKnown, Accounts!LoggingIn
  <2>4. \A w \in User : Accounts!Uncounted(w)' = Accounts!Uncounted(w)
    BY <1>1, <1>3, <1>5, <2>1 DEF Accounts!Uncounted, Accounts!MayCount, Accounts!Locked, Accounts!LoggingIn
  <2>5. Accounts!GuessesAreCounted'
    BY <1>0, <2>1, <2>4 DEF Accounts!GuessesAreCounted
  <2>6. Accounts!SessionsAreCurrent'
    BY <1>0, <1>1, <2>1 DEF Accounts!SessionsAreCurrent
  <2> QED BY <2>2, <2>3, <2>5, <2>6 DEF Accounts!AccountInv
<1>6. CASE Accounts!MayCount(accounts[u], request[b].now)
  <2>1. /\ accounts' = [accounts EXCEPT ![u] = after]
        /\ guesses' = IF accounts'[u].lockedUntil # 0 THEN [guesses EXCEPT ![u] = 0] ELSE guesses
    BY <1>6 DEF Accounts!RecordFailure
  <2>2. /\ after \in Accounts!Account /\ after # None /\ after.failed < MaxFailedLogins
        /\ after.lockedUntil <= MaxTime + Lockout
        /\ after.password = accounts[u].password /\ after.disabled = accounts[u].disabled
        /\ after.lockedUntil # 0 \/ (after.failed = accounts[u].failed + 1 /\ after.lockedUntil = 0)
    <3>1. accounts[u].failed \in Nat
      BY <1>2 DEF Accounts!Account
    <3>2. CASE accounts[u].failed + 1 >= MaxFailedLogins
      <4>1. after = [accounts[u] EXCEPT !.failed = 0, !.lockedUntil = request[b].now + Lockout]
        BY <3>2 DEF Accounts!AfterFailure
      <4>2. request[b].now + Lockout \in Nat /\ request[b].now + Lockout <= MaxTime + Lockout
            /\ request[b].now + Lockout # 0
        BY <1>2 DEF Accounts!Time
      <4> HIDE DEF after
      <4>3. after \in Accounts!Account
        BY <1>2, <4>1, <4>2 DEF Accounts!Account
      <4>4. after # None
        BY <4>3
      <4>5. after.failed = 0 /\ after.lockedUntil = request[b].now + Lockout
            /\ after.password = accounts[u].password /\ after.disabled = accounts[u].disabled
        BY <1>2, <4>1 DEF Accounts!Account
      <4> QED BY <4>2, <4>3, <4>4, <4>5
    <3>3. CASE ~(accounts[u].failed + 1 >= MaxFailedLogins)
      <4>1. after = [accounts[u] EXCEPT !.failed = accounts[u].failed + 1, !.lockedUntil = 0]
        BY <3>3 DEF Accounts!AfterFailure
      <4>0. accounts[u].failed + 1 \in Nat
        BY <3>1
      <4> HIDE DEF after
      <4>2. after \in Accounts!Account
        BY <1>2, <4>0, <4>1 DEF Accounts!Account
      <4>3. after # None
        BY <4>2
      <4>4. after.failed = accounts[u].failed + 1 /\ after.lockedUntil = 0
            /\ after.password = accounts[u].password /\ after.disabled = accounts[u].disabled
        BY <1>2, <4>1 DEF Accounts!Account
      <4> QED BY <3>1, <3>3, <4>2, <4>3, <4>4
    <3> QED BY <3>2, <3>3
  <2> HIDE DEF after
  <2>3. \A w \in User : accounts'[w] = IF w = u THEN after ELSE accounts[w]
    BY <1>0, <2>1 DEF Accounts!TypeOK
  <2>4. /\ accounts' \in [User -> Accounts!Account \union {None}] /\ guesses' \in [User -> Nat]
        /\ \A w \in User : guesses'[w] = IF w = u /\ after.lockedUntil # 0 THEN 0 ELSE guesses[w]
    BY <1>0, <1>2, <2>1, <2>2 DEF Accounts!TypeOK
  <2>5. Accounts!TypeOK'
    <3>1. \A w \in User : accounts'[w] # None =>
            accounts'[w].failed < MaxFailedLogins /\ accounts'[w].lockedUntil <= MaxTime + Lockout
      BY <1>0, <2>2, <2>3 DEF Accounts!TypeOK
    <3> QED BY <1>0, <1>1, <1>3, <2>4, <3>1 DEF Accounts!TypeOK
  <2>6. Accounts!RequestsAreKnown'
    <3>1. \A c \in Handler : Accounts!LoggingIn(c)' => Accounts!LoggingIn(c) /\ request'[c] = request[c]
      BY <1>3 DEF Accounts!LoggingIn
    <3>2. \A t \in DOMAIN sessions : sessions[t].user \in User
      BY <1>0, SessionsAreTyped DEF Accounts!Session
    <3> QED BY <1>0, <1>1, <2>2, <2>3, <3>1, <3>2, RequestsAreTyped DEF Accounts!RequestsAreKnown
  <2>7. Accounts!GuessesAreCounted'
    <3> SUFFICES ASSUME NEW w \in User
                 PROVE  IF accounts'[w] = None THEN guesses'[w] = 0
                        ELSE guesses'[w] <= accounts'[w].failed + Cardinality(Accounts!Uncounted(w)')
      BY SameSizes DEF Accounts!GuessesAreCounted
    <3>1. Cardinality(Accounts!Uncounted(w)) \in Nat /\ Cardinality(Accounts!Uncounted(w)') \in Nat
      BY UncountedOf, HandlersAreFinite
    <3>2. guesses[w] \in Nat /\ (accounts[w] # None => accounts[w].failed \in Nat)
      BY <1>0 DEF Accounts!TypeOK, Accounts!Account
    <3>3. IF accounts[w] = None THEN guesses[w] = 0
          ELSE guesses[w] <= accounts[w].failed + Cardinality(Accounts!Uncounted(w))
      BY <1>0, SameSizes DEF Accounts!GuessesAreCounted
    <3>4. CASE w # u
      <4>1. Accounts!Uncounted(w)' = Accounts!Uncounted(w)
        BY <1>3, <2>3, <3>4 DEF Accounts!Uncounted, Accounts!MayCount, Accounts!Locked, Accounts!LoggingIn
      <4> QED BY <2>3, <2>4, <3>3, <3>4, <4>1
    <3>5. CASE w = u /\ after.lockedUntil # 0
      <4>1. after.failed \in Nat
        BY <2>2 DEF Accounts!Account
      <4> QED BY <2>2, <2>3, <2>4, <3>1, <3>5, <4>1
    <3>6. CASE w = u /\ after.lockedUntil = 0
      <4>1. Accounts!Uncounted(w) \ {b} \subseteq Accounts!Uncounted(w)'
        BY <1>3, <2>3, <3>6 DEF Accounts!Uncounted, Accounts!MayCount, Accounts!Locked
      <4>2. Cardinality(Accounts!Uncounted(w) \ {b}) \in Nat
            /\ Cardinality(Accounts!Uncounted(w)) <= Cardinality(Accounts!Uncounted(w) \ {b}) + 1
        BY UncountedOf, HandlersAreFinite, FS_RemoveElement
      <4>3. Cardinality(Accounts!Uncounted(w) \ {b}) <= Cardinality(Accounts!Uncounted(w)')
        BY <4>1, UncountedOf, HandlersAreFinite, FS_Subset
      <4>4. guesses'[w] = guesses[w] /\ accounts'[w].failed = accounts[w].failed + 1
        BY <2>2, <2>3, <2>4, <3>6
      <4> QED BY <1>2, <2>2, <2>3, <3>1, <3>2, <3>3, <3>6, <4>2, <4>3, <4>4
    <3> QED BY <3>4, <3>5, <3>6
  <2>8. Accounts!SessionsAreCurrent'
    <3>1. \A t \in DOMAIN sessions : sessions[t].user \in User
      BY <1>0, SessionsAreTyped DEF Accounts!Session
    <3>2. \A w \in User : accounts'[w].password = accounts[w].password /\ accounts'[w].disabled = accounts[w].disabled
      BY <2>2, <2>3
    <3> QED BY <1>0, <1>1, <3>1, <3>2 DEF Accounts!SessionsAreCurrent
  <2> QED BY <2>5, <2>6, <2>7, <2>8 DEF Accounts!AccountInv
<1> QED BY <1>5, <1>6

(* The gate, and signing out.                                                *)
LEMMA Visits ==
  ASSUME Accounts!AccountInv, NEW b \in Handler, Accounts!Visit(b)
  PROVE  Accounts!AccountInv'
<1>0. Accounts!TypeOK /\ Accounts!RequestsAreKnown /\ Accounts!GuessesAreCounted /\ Accounts!SessionsAreCurrent
  BY DEF Accounts!AccountInv
<1>1. /\ accounts' = accounts /\ time' = time /\ tokens' = tokens /\ command' = command
      /\ guesses' = guesses /\ interrupted' = interrupted
      /\ ~Accounts!LoggingIn(b)
  BY DEF Accounts!Visit, Accounts!Resolve, Accounts!Touch, Accounts!End, Accounts!LoggingIn, Accounts!Idling
<1>2. /\ request' \in [Handler -> Accounts!Request] /\ ~Accounts!LoggingIn(b)'
      /\ \A c \in Handler : c # b => request'[c] = request[c]
  <2>1. ASSUME NEW t \in Accounts!Token, Accounts!Resolve(b, t)
        PROVE  /\ request' \in [Handler -> Accounts!Request] /\ ~Accounts!LoggingIn(b)'
               /\ \A c \in Handler : c # b => request'[c] = request[c]
    <3> DEFINE answer == [step |-> IF Accounts!LetsThrough(sessions[t], time) THEN "alive" ELSE "dead", token |-> t, now |-> time]
    <3>1. request' = [request EXCEPT ![b] = answer]
      BY <2>1 DEF Accounts!Resolve
    <3>2. answer \in Accounts!Request /\ answer.step \in {"alive", "dead"}
      BY <1>0 DEF Accounts!Request, Accounts!TypeOK
    <3> HIDE DEF answer
    <3> QED BY <1>0, <3>1, <3>2 DEF Accounts!TypeOK, Accounts!LoggingIn
  <2>2. CASE Accounts!Touch(b) \/ Accounts!End(b)
    <3>1. request' = [request EXCEPT ![b] = Accounts!Idling]
      BY <2>2 DEF Accounts!Touch, Accounts!End
    <3> QED BY <1>0, <3>1 DEF Accounts!TypeOK, Accounts!LoggingIn, Accounts!Idling, Accounts!Request
  <2> QED BY <2>1, <2>2 DEF Accounts!Visit
<1>3. /\ DOMAIN sessions' \subseteq DOMAIN sessions /\ sessions' \in [DOMAIN sessions' -> Accounts!Session]
      /\ \A t \in DOMAIN sessions' : /\ sessions'[t].user = sessions[t].user
                                     /\ sessions'[t].password = sessions[t].password
  <2>1. ASSUME NEW t \in Accounts!Token, Accounts!Resolve(b, t)
        PROVE  sessions' = sessions
    BY <2>1 DEF Accounts!Resolve
  <2>2. CASE Accounts!Touch(b)
    <3>1. request[b].now \in Accounts!Time
      BY <1>0, <2>2, RequestsAreTyped DEF Accounts!Touch
    <3>2. \/ sessions' = sessions
          \/ /\ request[b].token \in DOMAIN sessions
             /\ sessions' = [sessions EXCEPT ![request[b].token] = [sessions[request[b].token] EXCEPT !.seen = request[b].now]]
      BY <2>2 DEF Accounts!Touch
    <3> QED BY <1>0, <3>1, <3>2, SessionsAreTyped DEF Accounts!Session
  <2>3. CASE Accounts!End(b)
    BY <1>0, <2>3, SessionsAreTyped DEF Accounts!End, Accounts!Without
  <2> QED BY <1>0, <2>1, <2>2, <2>3, SessionsAreTyped DEF Accounts!Visit
<1>4. Accounts!TypeOK'
  BY <1>0, <1>1, <1>2, <1>3, SessionsAreTyped DEF Accounts!TypeOK
<1>5. Accounts!RequestsAreKnown'
  <2>1. \A c \in Handler : Accounts!LoggingIn(c)' => Accounts!LoggingIn(c) /\ request'[c] = request[c]
    BY <1>2 DEF Accounts!LoggingIn
  <2> QED BY <1>0, <1>1, <1>3, <2>1 DEF Accounts!RequestsAreKnown
<1>6. Accounts!GuessesAreCounted'
  BY <1>0, <1>1, <1>2, SameCounts DEF Accounts!LoggingIn
<1>7. Accounts!SessionsAreCurrent'
  BY <1>0, <1>1, <1>3 DEF Accounts!SessionsAreCurrent
<1> QED BY <1>4, <1>5, <1>6, <1>7 DEF Accounts!AccountInv

LEMMA AccountsTick ==
  ASSUME Accounts!AccountInv, Accounts!Tick
  PROVE  Accounts!AccountInv'
<1>0. Accounts!TypeOK /\ Accounts!RequestsAreKnown /\ Accounts!GuessesAreCounted /\ Accounts!SessionsAreCurrent
  BY DEF Accounts!AccountInv
<1>1. /\ time' \in Accounts!Time /\ time < time'
      /\ accounts' = accounts /\ sessions' = sessions /\ tokens' = tokens /\ request' = request
      /\ command' = command /\ guesses' = guesses /\ interrupted' = interrupted
  BY <1>0 DEF Accounts!Tick, Accounts!TypeOK, Accounts!Time
<1>2. Accounts!TypeOK'
  BY <1>0, <1>1 DEF Accounts!TypeOK
<1>3. Accounts!RequestsAreKnown'
  BY <1>0, <1>1, RequestsAreTyped DEF Accounts!RequestsAreKnown, Accounts!LoggingIn, Accounts!TypeOK, Accounts!Time
<1>4. Accounts!GuessesAreCounted'
  BY <1>0, <1>1, SameCounts
<1>5. Accounts!SessionsAreCurrent'
  BY <1>0, <1>1 DEF Accounts!SessionsAreCurrent
<1> QED BY <1>2, <1>3, <1>4, <1>5 DEF Accounts!AccountInv

LEMMA AccountsNext == Accounts!AccountInv /\ Accounts!Next => Accounts!AccountInv'
BY Adds, PasswordsAreSet, Disables, CommandsEnd, LogsIn, SessionsOpen, FailuresAreRecorded, Visits, AccountsTick
   DEF Accounts!Next, Accounts!Administer, Accounts!SignIn

LEMMA AccountsStutter ==
  ASSUME Accounts!AccountInv, UNCHANGED <<accounts, sessions, time, tokens, request, command, guesses, interrupted>>
  PROVE  Accounts!AccountInv'
BY DEF Accounts!AccountInv, Accounts!TypeOK, Accounts!RequestsAreKnown, Accounts!GuessesAreCounted, Accounts!SessionsAreCurrent,
       Accounts!LoggingIn, Accounts!Uncounted, Accounts!MayCount, Accounts!Locked

LEMMA AccountsStep ==
  ASSUME Accounts!AccountInv, [Accounts!Next]_(Accounts!accountVars)
  PROVE  Accounts!AccountInv'
BY AccountsNext, AccountsStutter DEF Accounts!accountVars

(* What the invariant is for.                                                *)
LEMMA GuessesStayBounded == Accounts!AccountInv => Accounts!GuessesAreBounded
<1> SUFFICES ASSUME Accounts!AccountInv, NEW u \in User
             PROVE  guesses[u] <= MaxFailedLogins - 1 + Cardinality(Handler)
  BY SameSizes DEF Accounts!GuessesAreBounded
<1>1. /\ Accounts!TypeOK
      /\ IF accounts[u] = None THEN guesses[u] = 0
         ELSE guesses[u] <= accounts[u].failed + Cardinality(Accounts!Uncounted(u))
  BY SameSizes DEF Accounts!AccountInv, Accounts!GuessesAreCounted
<1>2. /\ guesses[u] \in Nat
      /\ accounts[u] # None => accounts[u].failed \in Nat /\ accounts[u].failed < MaxFailedLogins
  BY <1>1 DEF Accounts!TypeOK, Accounts!Account
<1>3. /\ Cardinality(Accounts!Uncounted(u)) <= Cardinality(Handler)
      /\ Cardinality(Accounts!Uncounted(u)) \in Nat /\ Cardinality(Handler) \in Nat
  BY UncountedOf, HandlersAreFinite, FS_Subset
<1> QED BY <1>1, <1>2, <1>3

(* A login that read the account before it was locked changes nothing.       *)
LEMMA LocksAreHeld == Accounts!AccountInv /\ Accounts!Next => Accounts!HoldsLocks
<1> SUFFICES ASSUME Accounts!AccountInv, Accounts!Next, NEW u \in User, Accounts!InForce(u)
             PROVE  \/ accounts'[u].lockedUntil = accounts[u].lockedUntil
                    \/ \E o \in Operator, p \in Password : Accounts!Add(o, u, p) \/ Accounts!SetPassword(o, u, p)
  BY DEF Accounts!HoldsLocks
<1>1. /\ accounts[u] # None /\ accounts[u] \in Accounts!Account /\ accounts \in [User -> Accounts!Account \union {None}]
      /\ accounts[u].lockedUntil # 0 /\ time < accounts[u].lockedUntil
      /\ accounts[u].lockedUntil \in Nat /\ time \in Nat
  BY DEF Accounts!AccountInv, Accounts!TypeOK, Accounts!InForce, Accounts!Locked, Accounts!Account, Accounts!Time
<1>2. ASSUME NEW o \in Operator, Accounts!Administer(o)
      PROVE  \/ accounts'[u].lockedUntil = accounts[u].lockedUntil
             \/ \E q \in Operator, p \in Password : Accounts!Add(q, u, p) \/ Accounts!SetPassword(q, u, p)
  <2>1. ASSUME NEW w \in User, NEW p \in Password, Accounts!Add(o, w, p) \/ Accounts!SetPassword(o, w, p), w # u
        PROVE  accounts'[u].lockedUntil = accounts[u].lockedUntil
    BY <1>1, <2>1 DEF Accounts!Add, Accounts!SetPassword
  <2>2. ASSUME NEW w \in User, Accounts!Disable(o, w)
        PROVE  accounts'[u].lockedUntil = accounts[u].lockedUntil
    <3>1. accounts' = [accounts EXCEPT ![w] = [accounts[w] EXCEPT !.disabled = TRUE]]
      BY <2>2 DEF Accounts!Disable
    <3> QED BY <1>1, <3>1 DEF Accounts!Account
  <2>3. CASE Accounts!SignEveryoneOut(o) \/ Accounts!Interrupt(o)
    BY <2>3 DEF Accounts!SignEveryoneOut, Accounts!Interrupt
  <2> QED BY <1>2, <2>1, <2>2, <2>3 DEF Accounts!Administer
<1>3. ASSUME NEW b \in Handler, Accounts!LoggingIn(b)
      PROVE  request[b].now <= time /\ request[b].now \in Nat
  BY <1>3, RequestsAreTyped DEF Accounts!AccountInv, Accounts!RequestsAreKnown, Accounts!Time
<1>4. ASSUME NEW b \in Handler, Accounts!SignIn(b)
      PROVE  accounts'[u].lockedUntil = accounts[u].lockedUntil
  <2>1. ASSUME NEW w \in User, NEW p \in Password, Accounts!Login(b, w, p)
        PROVE  accounts' = accounts
    BY <2>1 DEF Accounts!Login
  <2>2. CASE Accounts!OpenSession(b)
    <3>1. Accounts!LoggingIn(b) /\ ~Accounts!Locked(accounts[request[b].user], request[b].now)
      BY <2>2 DEF Accounts!OpenSession, Accounts!StillVerified, Accounts!LoggingIn
    <3>2. request[b].user # u
      BY <1>1, <1>3, <3>1 DEF Accounts!Locked
    <3> QED BY <1>1, <2>2, <3>2 DEF Accounts!OpenSession
  <2>3. CASE Accounts!RecordFailure(b)
    <3>1. Accounts!LoggingIn(b)
      BY <2>3 DEF Accounts!RecordFailure, Accounts!LoggingIn
    <3>2. CASE Accounts!MayCount(accounts[request[b].user], request[b].now)
      <4>1. request[b].user # u
        BY <1>1, <1>3, <3>1, <3>2 DEF Accounts!MayCount, Accounts!Locked
      <4> QED BY <1>1, <2>3, <3>2, <4>1 DEF Accounts!RecordFailure
    <3>3. CASE ~Accounts!MayCount(accounts[request[b].user], request[b].now)
      BY <2>3, <3>3 DEF Accounts!RecordFailure
    <3> QED BY <3>2, <3>3
  <2> QED BY <1>4, <2>1, <2>2, <2>3 DEF Accounts!SignIn
<1>5. ASSUME NEW b \in Handler, Accounts!Visit(b)
      PROVE  accounts' = accounts
  BY <1>5 DEF Accounts!Visit, Accounts!Resolve, Accounts!Touch, Accounts!End
<1>6. CASE Accounts!Tick
  BY <1>6 DEF Accounts!Tick
<1> QED BY <1>2, <1>4, <1>5, <1>6 DEF Accounts!Next

HIDE AccountAssumption

-----------------------------------------------------------------------------
(* Keys                                                                      *)

credentials == v1
keyFile == v2
ring == v3
cached == v4
loop == v5
forgetting == v6
clock == v7
revokedAt == v8
done == v9
verdict == v10

USE KeyAssumption DEF credentials, keyFile, ring, cached, loop, forgetting, clock, revokedAt, done, verdict

LEMMA KeysStart ==
  ASSUME Keys!Init
  PROVE  Keys!KeyInv
<1>1. Keys!TypeOK
  <2>1. Keys!Empty \in [{} -> Keys!Entry]
    BY DEF Keys!Empty
  <2>2. Keys!Empty \in Keys!Entries
    BY <2>1 DEF Keys!Entries
  <2> QED
    BY <2>2 DEF Keys!Init, Keys!TypeOK, Keys!Clock, Keys!Never
<1>2. Keys!HistoryAgrees /\ Keys!EntriesDie /\ Keys!InFlight /\ Keys!Admissions
  BY DEF Keys!Init, Keys!HistoryAgrees, Keys!EntriesDie, Keys!InFlight, Keys!Admissions, Keys!Empty, Keys!Waiting
<1> QED
  BY <1>1, <1>2 DEF Keys!KeyInv

LEMMA CachesAreTyped ==
  ASSUME Keys!TypeOK, NEW s \in Server
  PROVE  /\ DOMAIN cached[s] \subseteq ApiKey
         /\ \A k \in DOMAIN cached[s] : cached[s][k] \in Keys!Entry
         /\ cached[s] \in [DOMAIN cached[s] -> Keys!Entry]
<1>1. PICK held \in SUBSET ApiKey : cached[s] \in [held -> Keys!Entry]
  BY DEF Keys!TypeOK, Keys!Entries
<1> QED
  BY <1>1

ResolvesKey(r) == r.key \in ApiKey /\ r.asked \in Keys!Clock /\ r.late \in BOOLEAN /\ r.issued \in BOOLEAN

LEMMA AnswerDoes ==
  ASSUME Keys!TypeOK, NEW s \in Server, NEW r, ResolvesKey(r),
         NEW a \in {"admitted", "refused", "error"}, Keys!Answer(s, r, a)
  PROVE  /\ loop' \in [Server -> Keys!Resolution \union {Keys!Waiting}]
         /\ verdict' \in [Server -> Keys!Verdict \union {Keys!Waiting}]
         /\ loop'[s] = Keys!Waiting
         /\ verdict'[s].answer = a /\ verdict'[s].key = r.key /\ verdict'[s].asked = r.asked
         /\ verdict'[s].issued = r.issued
         /\ \A t \in Server : t # s => loop'[t] = loop[t] /\ verdict'[t] = verdict[t]
<1> DEFINE v == [answer |-> a, key |-> r.key, asked |-> r.asked, late |-> r.late,
                 issued |-> r.issued]
<1>1. v \in Keys!Verdict /\ v.answer = a /\ v.key = r.key /\ v.asked = r.asked /\ v.issued = r.issued
  BY DEF ResolvesKey, Keys!Verdict
<1>2. verdict' = [verdict EXCEPT ![s] = v] /\ loop' = [loop EXCEPT ![s] = Keys!Waiting]
  BY DEF Keys!Answer
<1> HIDE DEF v
<1>3. /\ loop \in [Server -> Keys!Resolution \union {Keys!Waiting}]
      /\ verdict \in [Server -> Keys!Verdict \union {Keys!Waiting}]
  BY DEF Keys!TypeOK
<1> QED
  BY <1>1, <1>2, <1>3

LEMMA AtDoes ==
  ASSUME Keys!TypeOK, NEW s \in Server, NEW r, ResolvesKey(r),
         NEW step \in {"drop", "ask", "keep"}, Keys!At(s, r, step)
  PROVE  /\ loop' \in [Server -> Keys!Resolution \union {Keys!Waiting}]
         /\ verdict' = verdict
         /\ loop'[s].step = step /\ loop'[s].key = r.key /\ loop'[s].asked = r.asked
         /\ loop'[s].issued = r.issued
         /\ \A t \in Server : t # s => loop'[t] = loop[t]
<1> DEFINE l == [step |-> step, key |-> r.key, asked |-> r.asked, late |-> r.late,
                 issued |-> r.issued]
<1>1. l \in Keys!Resolution /\ l.step = step /\ l.key = r.key /\ l.asked = r.asked /\ l.issued = r.issued
  BY DEF ResolvesKey, Keys!Resolution
<1>2. verdict' = verdict /\ loop' = [loop EXCEPT ![s] = l]
  BY DEF Keys!At
<1> HIDE DEF l
<1>3. loop \in [Server -> Keys!Resolution \union {Keys!Waiting}]
  BY DEF Keys!TypeOK
<1> QED
  BY <1>1, <1>2, <1>3

LEMMA LoopAsked ==
  ASSUME Keys!TypeOK, NEW s \in Server, loop[s].step # "idle"
  PROVE  ResolvesKey(loop[s])
  BY DEF Keys!TypeOK, Keys!Resolution, Keys!Waiting, ResolvesKey

\* A resolution ends, or goes a step further, and the entries stay.
LEMMA Answered ==
  ASSUME Keys!KeyInv, NEW s \in Server, NEW r, ResolvesKey(r), r.asked <= clock,
         NEW a \in {"admitted", "refused", "error"}, Keys!Answer(s, r, a),
         a = "admitted" => r.asked < revokedAt[r.key] + CacheTTL,
         UNCHANGED <<clock, revokedAt>>
  PROVE  Keys!InFlight' /\ Keys!Admissions'
<1>1. Keys!TypeOK
  BY DEF Keys!KeyInv
<1>2. Keys!InFlight'
  BY <1>1, AnswerDoes DEF Keys!KeyInv, Keys!InFlight, Keys!Waiting
<1>3. Keys!Admissions'
  BY <1>1, AnswerDoes DEF Keys!KeyInv, Keys!Admissions
<1> QED
  BY <1>2, <1>3

LEMMA Advanced ==
  ASSUME Keys!KeyInv, NEW s \in Server, NEW r, ResolvesKey(r), r.asked <= clock,
         NEW step \in {"drop", "ask", "keep"}, Keys!At(s, r, step),
         step = "keep" => r.asked <= revokedAt[r.key],
         UNCHANGED <<clock, revokedAt>>
  PROVE  Keys!InFlight' /\ Keys!Admissions'
<1>1. Keys!TypeOK
  BY DEF Keys!KeyInv
<1>2. Keys!InFlight'
  BY <1>1, AtDoes DEF Keys!KeyInv, Keys!InFlight
<1>3. Keys!Admissions'
  BY <1>1, AtDoes DEF Keys!KeyInv, Keys!Admissions
<1> QED
  BY <1>2, <1>3

LEMMA Presents ==
  ASSUME Keys!KeyInv, NEW s \in Server, NEW k \in ApiKey, Keys!Present(s, k)
  PROVE  Keys!KeyInv'
<1> DEFINE r == [key |-> k, asked |-> clock, late |-> k \in done[s],
                 issued |-> credentials[k] = "active"]
<1>1. UNCHANGED <<credentials, keyFile, ring, cached, forgetting, clock, revokedAt, done>>
  BY DEF Keys!Present
<1>2. Keys!TypeOK /\ clock \in Nat /\ ResolvesKey(r) /\ r.key = k /\ r.asked = clock
  BY DEF Keys!KeyInv, Keys!TypeOK, Keys!Clock, ResolvesKey
<1>3. \/ \E a \in {"admitted", "refused"} :
           /\ Keys!Answer(s, r, a)
           /\ a = "admitted" => /\ k \in DOMAIN cached[s] /\ clock < cached[s][k].until
                                /\ cached[s][k].found
      \/ \E step \in {"drop", "ask"} : Keys!At(s, r, step)
  BY DEF Keys!Present
<1> HIDE DEF r
<1>4. Keys!HistoryAgrees' /\ Keys!EntriesDie'
  BY <1>1 DEF Keys!KeyInv, Keys!HistoryAgrees, Keys!EntriesDie
<1>5. CASE \E step \in {"drop", "ask"} : Keys!At(s, r, step)
  <2>1. PICK step \in {"drop", "ask"} : Keys!At(s, r, step)
    BY <1>5
  <2>2. Keys!TypeOK'
    BY <1>1, <1>2, <2>1, AtDoes DEF Keys!TypeOK
  <2>3. Keys!InFlight' /\ Keys!Admissions'
    BY <1>1, <1>2, <2>1, Advanced
  <2> QED
    BY <1>4, <2>2, <2>3 DEF Keys!KeyInv
<1>6. CASE ~ \E step \in {"drop", "ask"} : Keys!At(s, r, step)
  <2>1. PICK a \in {"admitted", "refused"} :
          /\ Keys!Answer(s, r, a)
          /\ a = "admitted" => /\ k \in DOMAIN cached[s] /\ clock < cached[s][k].until
                               /\ cached[s][k].found
    BY <1>3, <1>6
  <2>2. Keys!TypeOK'
    BY <1>1, <1>2, <2>1, AnswerDoes DEF Keys!TypeOK
  <2>3. a = "admitted" => r.asked < revokedAt[r.key] + CacheTTL
    <3>1. SUFFICES ASSUME a = "admitted" PROVE clock < revokedAt[k] + CacheTTL
      BY <1>2
    <3>2. /\ clock < cached[s][k].until /\ cached[s][k].until <= revokedAt[k] + CacheTTL
          /\ cached[s][k].until \in Nat
      BY <1>2, <2>1, <3>1, CachesAreTyped DEF Keys!KeyInv, Keys!EntriesDie, Keys!Entry
    <3>3. revokedAt[k] + CacheTTL \in Nat
      BY <1>2 DEF Keys!TypeOK, Keys!Clock, Keys!Never
    <3> QED
      BY <1>2, <3>2, <3>3
  <2>4. Keys!InFlight' /\ Keys!Admissions'
    BY <1>1, <1>2, <2>1, <2>3, Answered
  <2> QED
    BY <1>4, <2>2, <2>4 DEF Keys!KeyInv
<1> QED
  BY <1>5, <1>6

\* The entries of a server become those of `now`.
LEMMA EntriesReplaced ==
  ASSUME Keys!KeyInv, NEW s \in Server, NEW held \in SUBSET ApiKey, NEW now \in [held -> Keys!Entry],
         cached' = [cached EXCEPT ![s] = now], UNCHANGED clock, UNCHANGED revokedAt,
         \A k \in held : now[k].found => /\ now[k].until <= revokedAt[k] + CacheTTL
                                         /\ now[k].until <= clock + CacheTTL
  PROVE  cached' \in [Server -> Keys!Entries] /\ Keys!EntriesDie'
<1>1. now \in Keys!Entries /\ DOMAIN now = held /\ cached \in [Server -> Keys!Entries]
  BY DEF Keys!Entries, Keys!KeyInv, Keys!TypeOK
<1>2. cached' \in [Server -> Keys!Entries]
  BY <1>1
<1>3. cached'[s] = now /\ \A t \in Server : t # s => cached'[t] = cached[t]
  BY <1>1
<1>4. Keys!EntriesDie'
  BY <1>1, <1>3 DEF Keys!KeyInv, Keys!EntriesDie
<1> QED
  BY <1>2, <1>4

LEMMA Forgotten ==
  ASSUME Keys!KeyInv, NEW s \in Server, cached' = [cached EXCEPT ![s] = Keys!Empty],
         UNCHANGED <<clock, revokedAt>>
  PROVE  cached' \in [Server -> Keys!Entries] /\ Keys!EntriesDie'
<1>1. Keys!Empty \in [{} -> Keys!Entry] /\ {} \in SUBSET ApiKey
  BY DEF Keys!Empty
<1> QED
  BY <1>1, EntriesReplaced

LEMMA Drops ==
  ASSUME Keys!KeyInv, NEW s \in Server, Keys!Drop(s)
  PROVE  Keys!KeyInv'
<1> DEFINE r == loop[s]
           held == DOMAIN cached[s] \ {r.key}
           now == [k \in held |-> cached[s][k]]
<1>1. UNCHANGED <<credentials, keyFile, ring, forgetting, clock, revokedAt, done>>
  BY DEF Keys!Drop
<1>2. Keys!TypeOK /\ ResolvesKey(r) /\ r.asked <= clock
  BY LoopAsked DEF Keys!KeyInv, Keys!InFlight, Keys!Drop
<1>3. \/ cached' = [cached EXCEPT ![s] = now] /\ Keys!At(s, r, "ask")
      \/ UNCHANGED cached /\ Keys!Answer(s, r, "error")
  BY DEF Keys!Drop
<1>4. Keys!HistoryAgrees'
  BY <1>1 DEF Keys!KeyInv, Keys!HistoryAgrees
<1>5. cached' \in [Server -> Keys!Entries] /\ Keys!EntriesDie'
  <2>1. CASE UNCHANGED cached
    BY <1>1, <1>2, <2>1 DEF Keys!KeyInv, Keys!EntriesDie, Keys!TypeOK, Keys!Entries
  <2>2. CASE cached' = [cached EXCEPT ![s] = now]
    <3>1. held \in SUBSET ApiKey /\ now \in [held -> Keys!Entry]
      BY <1>2, CachesAreTyped
    <3>2. \A k \in held : now[k].found => /\ now[k].until <= revokedAt[k] + CacheTTL
                                          /\ now[k].until <= clock + CacheTTL
      BY DEF Keys!KeyInv, Keys!EntriesDie
    <3> HIDE DEF now, held
    <3> QED
      BY <1>1, <2>2, <3>1, <3>2, EntriesReplaced
  <2> QED
    BY <1>3, <2>1, <2>2
<1> HIDE DEF r, now, held
<1>6. Keys!InFlight' /\ Keys!Admissions'
  BY <1>1, <1>2, <1>3, Answered, Advanced
<1>7. /\ loop' \in [Server -> Keys!Resolution \union {Keys!Waiting}]
      /\ verdict' \in [Server -> Keys!Verdict \union {Keys!Waiting}]
  BY <1>2, <1>3, AnswerDoes, AtDoes DEF Keys!TypeOK
<1>8. Keys!TypeOK'
  BY <1>1, <1>2, <1>5, <1>7 DEF Keys!TypeOK, Keys!Entries
<1> QED
  BY <1>4, <1>5, <1>6, <1>8 DEF Keys!KeyInv

LEMMA Asks ==
  ASSUME Keys!KeyInv, NEW s \in Server, Keys!Ask(s)
  PROVE  Keys!KeyInv'
<1> DEFINE r == loop[s]
<1>1. UNCHANGED <<credentials, keyFile, ring, cached, forgetting, clock, revokedAt, done>>
  BY DEF Keys!Ask, Keys!Cacheable
<1>2. Keys!TypeOK /\ ResolvesKey(r) /\ r.asked <= clock /\ clock \in 0 .. MaxClock
  BY LoopAsked DEF Keys!KeyInv, Keys!InFlight, Keys!Ask, Keys!TypeOK, Keys!Clock
<1>3. \/ Keys!At(s, r, "keep") /\ credentials[r.key] = "active"
      \/ \E a \in {"refused", "error"} : Keys!Answer(s, r, a)
  BY DEF Keys!Ask
<1>4. Keys!HistoryAgrees' /\ Keys!EntriesDie'
  BY <1>1 DEF Keys!KeyInv, Keys!HistoryAgrees, Keys!EntriesDie
<1> HIDE DEF r
<1>5. CASE Keys!At(s, r, "keep") /\ credentials[r.key] = "active"
  <2>1. r.asked <= revokedAt[r.key]
    <3>1. revokedAt[r.key] = Keys!Never
      BY <1>2, <1>5 DEF Keys!KeyInv, Keys!HistoryAgrees, ResolvesKey
    <3> QED
      BY <1>2, <3>1 DEF ResolvesKey, Keys!Clock, Keys!Never
  <2>2. Keys!InFlight' /\ Keys!Admissions'
    BY <1>1, <1>2, <1>5, <2>1, Advanced
  <2>3. Keys!TypeOK'
    BY <1>1, <1>2, <1>5, AtDoes DEF Keys!TypeOK
  <2> QED
    BY <1>4, <2>2, <2>3 DEF Keys!KeyInv
<1>6. CASE \E a \in {"refused", "error"} : Keys!Answer(s, r, a)
  <2>1. PICK a \in {"refused", "error"} : Keys!Answer(s, r, a)
    BY <1>6
  <2>2. Keys!InFlight' /\ Keys!Admissions'
    BY <1>1, <1>2, <2>1, Answered
  <2>3. Keys!TypeOK'
    BY <1>1, <1>2, <2>1, AnswerDoes DEF Keys!TypeOK
  <2> QED
    BY <1>4, <2>2, <2>3 DEF Keys!KeyInv
<1> QED
  BY <1>3, <1>5, <1>6

\* The one entry that is added outlives its question by a lifetime, no more.
LEMMA Keeps ==
  ASSUME Keys!KeyInv, NEW s \in Server, Keys!Keep(s)
  PROVE  Keys!KeyInv'
<1> DEFINE r == loop[s]
           held == DOMAIN cached[s] \union {r.key}
           now == [k \in held |-> IF k = r.key THEN [until |-> Keys!Until(r), found |-> TRUE]
                                               ELSE cached[s][k]]
<1>1. UNCHANGED <<credentials, keyFile, ring, forgetting, clock, revokedAt, done>>
  BY DEF Keys!Keep
<1>2. /\ Keys!TypeOK /\ ResolvesKey(r) /\ r.asked <= clock /\ r.asked <= revokedAt[r.key]
      /\ r.asked \in Nat /\ clock \in Nat /\ CacheTTL \in Nat \ {0}
      /\ \A k \in ApiKey : revokedAt[k] \in Nat
  BY LoopAsked DEF Keys!KeyInv, Keys!InFlight, Keys!Keep, Keys!TypeOK, Keys!Clock, Keys!Never, ResolvesKey
<1>3. cached' = [cached EXCEPT ![s] = now] /\ Keys!Answer(s, r, "admitted")
  BY DEF Keys!Keep
<1>4. Keys!HistoryAgrees'
  BY <1>1 DEF Keys!KeyInv, Keys!HistoryAgrees
<1>5. [until |-> Keys!Until(r), found |-> TRUE] \in Keys!Entry
  BY <1>2 DEF Keys!Entry, Keys!Until, ResolvesKey, Keys!Clock
<1>6. held \in SUBSET ApiKey /\ now \in [held -> Keys!Entry]
  BY <1>2, <1>5, CachesAreTyped DEF ResolvesKey
<1>7. \A k \in held : now[k].found => /\ now[k].until <= revokedAt[k] + CacheTTL
                                      /\ now[k].until <= clock + CacheTTL
  <2>1. ASSUME NEW k \in held, k = r.key
        PROVE  /\ now[k].until <= revokedAt[k] + CacheTTL
               /\ now[k].until <= clock + CacheTTL
    <3>1. now[k].until = r.asked + CacheTTL
      BY <2>1 DEF Keys!Until
    <3>2. r.asked <= revokedAt[k] /\ revokedAt[k] \in Nat
      BY <1>2, <2>1 DEF ResolvesKey
    <3> HIDE DEF now, held, r
    <3> QED
      BY <1>2, <3>1, <3>2
  <2>2. ASSUME NEW k \in held, k # r.key, now[k].found
        PROVE  /\ now[k].until <= revokedAt[k] + CacheTTL
               /\ now[k].until <= clock + CacheTTL
    <3>1. k \in DOMAIN cached[s] /\ now[k] = cached[s][k]
      BY <2>2
    <3> HIDE DEF now, held
    <3> QED
      BY <2>2, <3>1 DEF Keys!KeyInv, Keys!EntriesDie
  <2> QED
    BY <2>1, <2>2
<1> HIDE DEF r, now, held
<1>8. cached' \in [Server -> Keys!Entries] /\ Keys!EntriesDie'
  BY <1>1, <1>3, <1>6, <1>7, EntriesReplaced
<1>9. r.asked < revokedAt[r.key] + CacheTTL
  BY <1>2 DEF ResolvesKey
<1>10. Keys!InFlight' /\ Keys!Admissions'
  BY <1>1, <1>2, <1>3, <1>9, Answered
<1>11. Keys!TypeOK'
  BY <1>1, <1>2, <1>3, <1>8, AnswerDoes DEF Keys!TypeOK, Keys!Entries
<1> QED
  BY <1>4, <1>8, <1>10, <1>11 DEF Keys!KeyInv

\* A revocation comes after every question asked so far.
LEMMA RevokedNow ==
  ASSUME Keys!KeyInv, NEW k \in ApiKey, Keys!Revoked(k), UNCHANGED clock
  PROVE  /\ credentials' \in [ApiKey -> {"unissued", "active", "revoked"}]
         /\ revokedAt' \in [ApiKey -> Keys!Clock \union {Keys!Never}]
         /\ Keys!HistoryAgrees'
         /\ \A q \in ApiKey : revokedAt'[q] = revokedAt[q] \/ revokedAt'[q] = clock
<1>1. /\ clock \in Keys!Clock /\ clock # Keys!Never
      /\ credentials \in [ApiKey -> {"unissued", "active", "revoked"}]
      /\ revokedAt \in [ApiKey -> Keys!Clock \union {Keys!Never}]
  BY DEF Keys!KeyInv, Keys!TypeOK, Keys!Clock, Keys!Never
<1>2. /\ credentials' = [credentials EXCEPT ![k] = "revoked"]
      /\ revokedAt' = [revokedAt EXCEPT ![k] = IF revokedAt[k] = Keys!Never THEN clock ELSE revokedAt[k]]
  BY DEF Keys!Revoked
<1>3. Keys!HistoryAgrees'
  <2>1. ASSUME NEW q \in ApiKey
        PROVE  /\ revokedAt'[q] # Keys!Never <=> credentials'[q] = "revoked"
               /\ revokedAt'[q] = Keys!Never \/ revokedAt'[q] <= clock'
    <3>1. CASE q = k
      BY <1>1, <1>2, <3>1 DEF Keys!KeyInv, Keys!HistoryAgrees, Keys!Clock
    <3>2. CASE q # k
      BY <1>1, <1>2, <3>2 DEF Keys!KeyInv, Keys!HistoryAgrees
    <3> QED
      BY <3>1, <3>2
  <2> QED
    BY <2>1 DEF Keys!HistoryAgrees
<1> QED
  BY <1>1, <1>2, <1>3

\* What was asked before a revocation stays within one lifetime of it.
LEMMA BoundsSurvive ==
  ASSUME Keys!KeyInv, UNCHANGED clock,
         \A q \in ApiKey : revokedAt'[q] = revokedAt[q] \/ revokedAt'[q] = clock
  PROVE  /\ UNCHANGED cached => Keys!EntriesDie'
         /\ UNCHANGED loop => Keys!InFlight'
         /\ UNCHANGED verdict => Keys!Admissions'
<1>1. Keys!TypeOK /\ clock \in Nat /\ CacheTTL \in Nat \ {0}
  BY DEF Keys!KeyInv, Keys!TypeOK, Keys!Clock
<1>2. ASSUME UNCHANGED cached PROVE Keys!EntriesDie'
  <2>1. ASSUME NEW s \in Server, NEW k \in DOMAIN cached[s], cached[s][k].found
        PROVE  /\ cached[s][k].until <= revokedAt'[k] + CacheTTL
               /\ cached[s][k].until <= clock + CacheTTL
    <3>1. k \in ApiKey
      BY <1>1, CachesAreTyped
    <3> QED
      BY <2>1, <3>1 DEF Keys!KeyInv, Keys!EntriesDie
  <2> QED
    BY <1>2, <2>1 DEF Keys!EntriesDie
<1>3. ASSUME UNCHANGED loop PROVE Keys!InFlight'
  <2>1. ASSUME NEW s \in Server, loop[s].step = "keep"
        PROVE  loop[s].asked <= revokedAt'[loop[s].key]
    <3>1. ResolvesKey(loop[s])
      BY <1>1, <2>1, LoopAsked
    <3> QED
      BY <2>1, <3>1 DEF Keys!KeyInv, Keys!InFlight, ResolvesKey
  <2> QED
    BY <1>3, <2>1 DEF Keys!KeyInv, Keys!InFlight
<1>4. ASSUME UNCHANGED verdict PROVE Keys!Admissions'
  <2>1. ASSUME NEW s \in Server, verdict[s] # Keys!Waiting, verdict[s].answer = "admitted"
        PROVE  verdict[s].asked < revokedAt'[verdict[s].key] + CacheTTL
    <3>1. verdict[s].key \in ApiKey /\ verdict[s].asked \in Nat
      BY <1>1, <2>1 DEF Keys!TypeOK, Keys!Verdict, Keys!Clock
    <3>2. /\ verdict[s].asked <= clock
          /\ verdict[s].asked < revokedAt[verdict[s].key] + CacheTTL
      BY <2>1 DEF Keys!KeyInv, Keys!Admissions
    <3> QED
      BY <1>1, <3>1, <3>2
  <2> QED
    BY <1>4, <2>1 DEF Keys!KeyInv, Keys!Admissions
<1> QED
  BY <1>2, <1>3, <1>4

LEMMA Revokes ==
  ASSUME Keys!KeyInv, NEW k \in ApiKey,
         \/ Keys!RevokeFromShell(k)
         \/ \E s \in Server : Keys!RevokeOnLoop(s, k) \/ Keys!RevokeOnThread(s, k)
  PROVE  Keys!KeyInv'
<1>1. Keys!Revoked(k) /\ UNCHANGED <<keyFile, ring, loop, clock, verdict>>
  BY DEF Keys!RevokeFromShell, Keys!RevokeOnLoop, Keys!RevokeOnThread
<1>2. /\ Keys!TypeOK
      /\ credentials' \in [ApiKey -> {"unissued", "active", "revoked"}]
      /\ revokedAt' \in [ApiKey -> Keys!Clock \union {Keys!Never}]
      /\ Keys!HistoryAgrees'
      /\ \A q \in ApiKey : revokedAt'[q] = revokedAt[q] \/ revokedAt'[q] = clock
  BY <1>1, RevokedNow DEF Keys!KeyInv
<1>3. Keys!InFlight' /\ Keys!Admissions' /\ (UNCHANGED cached => Keys!EntriesDie')
  BY <1>1, <1>2, BoundsSurvive
<1>4. /\ forgetting' \in [Server -> SUBSET ApiKey]
      /\ done' \in [Server -> SUBSET ApiKey]
  BY <1>2 DEF Keys!TypeOK, Keys!RevokeFromShell, Keys!RevokeOnLoop, Keys!RevokeOnThread
<1>5. cached' \in [Server -> Keys!Entries] /\ Keys!EntriesDie'
  <2>1. CASE UNCHANGED cached
    BY <1>2, <1>3, <2>1 DEF Keys!TypeOK, Keys!Entries
  <2>2. CASE \E s \in Server : Keys!RevokeOnLoop(s, k)
    <3>1. PICK s \in Server : cached' = [cached EXCEPT ![s] = Keys!Empty]
      BY <2>2 DEF Keys!RevokeOnLoop
    <3>2. cached \in [Server -> Keys!Entries]
      BY <1>2 DEF Keys!TypeOK, Keys!Entries
    <3>3. Keys!Empty \in Keys!Entries /\ DOMAIN Keys!Empty = {}
      <4>1. Keys!Empty \in [{} -> Keys!Entry]
        BY DEF Keys!Empty
      <4> QED
        BY <4>1 DEF Keys!Entries
    <3>4. cached'[s] = Keys!Empty /\ \A t \in Server : t # s => cached'[t] = cached[t]
      BY <3>1, <3>2
    <3>5. ASSUME NEW t \in Server, NEW q \in DOMAIN cached'[t], cached'[t][q].found
          PROVE  /\ cached'[t][q].until <= revokedAt'[q] + CacheTTL
                 /\ cached'[t][q].until <= clock' + CacheTTL
      <4>1. t # s /\ cached'[t] = cached[t] /\ q \in DOMAIN cached[t] /\ q \in ApiKey
        BY <1>2, <3>3, <3>4, CachesAreTyped
      <4> QED
        BY <1>1, <1>2, <3>5, <4>1 DEF Keys!KeyInv, Keys!EntriesDie
    <3> QED
      BY <3>1, <3>2, <3>3, <3>5 DEF Keys!EntriesDie
  <2> QED
    BY <2>1, <2>2 DEF Keys!RevokeFromShell, Keys!RevokeOnThread
<1>6. Keys!TypeOK'
  BY <1>1, <1>2, <1>4, <1>5 DEF Keys!TypeOK, Keys!Entries
<1> QED
  BY <1>2, <1>3, <1>5, <1>6 DEF Keys!KeyInv

LEMMA Forgets ==
  ASSUME Keys!KeyInv, NEW s \in Server, NEW k \in ApiKey, Keys!Forget(s, k)
  PROVE  Keys!KeyInv'
<1>1. /\ Keys!TypeOK /\ UNCHANGED <<credentials, keyFile, ring, loop, clock, revokedAt, verdict>>
      /\ cached' = [cached EXCEPT ![s] = Keys!Empty]
  BY DEF Keys!KeyInv, Keys!Forget
<1>2. cached' \in [Server -> Keys!Entries] /\ Keys!EntriesDie'
  BY <1>1, Forgotten
<1>3. Keys!TypeOK'
  BY <1>1, <1>2 DEF Keys!TypeOK, Keys!Entries, Keys!Forget
<1> QED
  BY <1>1, <1>2, <1>3 DEF Keys!KeyInv, Keys!HistoryAgrees, Keys!InFlight, Keys!Admissions

LEMMA ServersRestart ==
  ASSUME Keys!KeyInv, NEW s \in Server, Keys!Restart(s)
  PROVE  Keys!KeyInv'
<1>1. /\ Keys!TypeOK /\ UNCHANGED <<credentials, keyFile, clock, revokedAt, done>>
      /\ cached' = [cached EXCEPT ![s] = Keys!Empty]
      /\ loop' = [loop EXCEPT ![s] = Keys!Waiting] /\ verdict' = [verdict EXCEPT ![s] = Keys!Waiting]
  BY DEF Keys!KeyInv, Keys!Restart
<1>2. cached' \in [Server -> Keys!Entries] /\ Keys!EntriesDie'
  BY <1>1, Forgotten
<1>3. Keys!TypeOK'
  BY <1>1, <1>2 DEF Keys!TypeOK, Keys!Entries, Keys!Restart
<1>4. Keys!InFlight' /\ Keys!Admissions'
  BY <1>1 DEF Keys!KeyInv, Keys!TypeOK, Keys!InFlight, Keys!Admissions, Keys!Waiting
<1> QED
  BY <1>1, <1>2, <1>3, <1>4 DEF Keys!KeyInv, Keys!HistoryAgrees

LEMMA KeysTick ==
  ASSUME Keys!KeyInv, Keys!Tick
  PROVE  Keys!KeyInv'
<1>1. /\ Keys!TypeOK /\ clock' = clock + 1 /\ clock \in Nat /\ clock' \in Keys!Clock
      /\ UNCHANGED <<credentials, keyFile, ring, cached, loop, forgetting, revokedAt, done, verdict>>
      /\ \A k \in ApiKey : revokedAt[k] \in Nat
  BY DEF Keys!KeyInv, Keys!TypeOK, Keys!Tick, Keys!Clock, Keys!Never
<1>2. Keys!TypeOK'
  BY <1>1 DEF Keys!TypeOK
<1>3. Keys!HistoryAgrees'
  BY <1>1 DEF Keys!KeyInv, Keys!HistoryAgrees
<1>4. Keys!EntriesDie'
  <2>1. ASSUME NEW s \in Server, NEW k \in DOMAIN cached[s], cached[s][k].found
        PROVE  /\ cached[s][k].until <= revokedAt[k] + CacheTTL
               /\ cached[s][k].until <= clock' + CacheTTL
    <3>1. cached[s][k].until \in Nat
      BY <1>1, CachesAreTyped DEF Keys!Entry
    <3> QED
      BY <1>1, <2>1, <3>1 DEF Keys!KeyInv, Keys!EntriesDie
  <2> QED
    BY <1>1, <2>1 DEF Keys!EntriesDie
<1>5. Keys!InFlight'
  <2>1. ASSUME NEW s \in Server, loop[s].step # "idle" PROVE loop[s].asked <= clock'
    BY <1>1, <2>1, LoopAsked DEF Keys!KeyInv, Keys!InFlight, ResolvesKey, Keys!Clock
  <2> QED
    BY <1>1, <2>1 DEF Keys!KeyInv, Keys!InFlight
<1>6. Keys!Admissions'
  <2>1. ASSUME NEW s \in Server, verdict[s] # Keys!Waiting PROVE verdict[s].asked <= clock'
    <3>1. verdict[s].asked \in Nat
      BY <1>1, <2>1 DEF Keys!TypeOK, Keys!Verdict, Keys!Clock
    <3> QED
      BY <1>1, <2>1, <3>1 DEF Keys!KeyInv, Keys!Admissions
  <2> QED
    BY <1>1, <2>1 DEF Keys!KeyInv, Keys!Admissions
<1> QED
  BY <1>2, <1>3, <1>4, <1>5, <1>6 DEF Keys!KeyInv

\* Issuing a key and editing the file touch nothing a resolution rests on.
LEMMA KeysAreEdited ==
  ASSUME Keys!KeyInv, NEW k \in ApiKey, Keys!Issue(k) \/ Keys!EditFile(k)
  PROVE  Keys!KeyInv'
<1>1. /\ Keys!TypeOK
      /\ UNCHANGED <<ring, cached, loop, forgetting, clock, revokedAt, done, verdict>>
  BY DEF Keys!KeyInv, Keys!Issue, Keys!EditFile
<1>2. Keys!TypeOK'
  BY <1>1 DEF Keys!TypeOK, Keys!Issue, Keys!EditFile
<1>3. Keys!HistoryAgrees'
  BY <1>1 DEF Keys!KeyInv, Keys!HistoryAgrees, Keys!TypeOK, Keys!Issue, Keys!EditFile
<1> QED
  BY <1>1, <1>2, <1>3 DEF Keys!KeyInv, Keys!EntriesDie, Keys!InFlight, Keys!Admissions

LEMMA KeysStep ==
  ASSUME Keys!KeyInv, [Keys!Next]_(Keys!keyVars)
  PROVE  Keys!KeyInv'
<1>1. CASE UNCHANGED Keys!keyVars
  BY <1>1 DEF Keys!keyVars, Keys!KeyInv, Keys!TypeOK, Keys!HistoryAgrees, Keys!EntriesDie, Keys!InFlight, Keys!Admissions
<1>2. CASE \E s \in Server : Keys!Serve(s)
  <2>1. PICK s \in Server : Keys!Serve(s)
    BY <1>2
  <2>2. CASE \E k \in ApiKey : Keys!Present(s, k) \/ Keys!RevokeOnLoop(s, k) \/ Keys!RevokeOnThread(s, k) \/ Keys!Forget(s, k)
    BY <2>2, Presents, Revokes, Forgets
  <2>3. CASE Keys!Drop(s) \/ Keys!Ask(s) \/ Keys!Keep(s) \/ Keys!Restart(s)
    BY <2>3, Drops, Asks, Keeps, ServersRestart
  <2> QED
    BY <2>1, <2>2, <2>3 DEF Keys!Serve
<1>3. CASE \E k \in ApiKey : Keys!Issue(k) \/ Keys!RevokeFromShell(k) \/ Keys!EditFile(k)
  BY <1>3, Revokes, KeysAreEdited
<1>4. CASE Keys!Tick
  BY <1>4, KeysTick
<1> QED
  BY <1>1, <1>2, <1>3, <1>4 DEF Keys!Next

(* What a resolution answers, or carries on with, about a key it was issued.  *)
LEMMA AnsweredIssued ==
  ASSUME Keys!TypeOK, Keys!IssueInv, NEW s \in Server, NEW r, ResolvesKey(r), credentials' = credentials,
         NEW a \in {"admitted", "refused", "error"}, Keys!Answer(s, r, a),
         a = "refused" /\ r.issued => credentials[r.key] = "revoked"
  PROVE  Keys!IssuedStay' /\ Keys!IssuanceIsImmediate'
<1>1. Keys!IssuedStay'
  BY AnswerDoes DEF Keys!IssueInv, Keys!IssuedStay, Keys!Waiting
<1>2. Keys!IssuanceIsImmediate'
  BY AnswerDoes DEF Keys!IssueInv, Keys!IssuanceIsImmediate
<1> QED BY <1>1, <1>2

LEMMA AdvancedIssued ==
  ASSUME Keys!TypeOK, Keys!IssueInv, NEW s \in Server, NEW r, ResolvesKey(r), credentials' = credentials,
         NEW step \in {"drop", "ask", "keep"}, Keys!At(s, r, step),
         r.issued => credentials[r.key] # "unissued"
  PROVE  Keys!IssuedStay' /\ Keys!IssuanceIsImmediate'
<1>1. Keys!IssuedStay'
  BY AtDoes DEF Keys!IssueInv, Keys!IssuedStay
<1>2. Keys!IssuanceIsImmediate'
  BY AtDoes DEF Keys!IssueInv, Keys!IssuanceIsImmediate
<1> QED BY <1>1, <1>2

(* A step of a resolution.                                                   *)
LEMMA ResolutionsIssue ==
  ASSUME Keys!TypeOK, Keys!IssueInv, NEW s \in Server,
         (\E k \in ApiKey : Keys!Present(s, k)) \/ Keys!Drop(s) \/ Keys!Ask(s) \/ Keys!Keep(s)
  PROVE  Keys!IssueInv'
<1>1. credentials' = credentials
  BY DEF Keys!Present, Keys!Drop, Keys!Ask, Keys!Keep
<1>2. loop[s].step # "idle" => ResolvesKey(loop[s]) /\ (loop[s].issued => credentials[loop[s].key] # "unissued")
  BY LoopAsked DEF Keys!IssueInv, Keys!IssuedStay
<1>3. ASSUME NEW k \in ApiKey, Keys!Present(s, k)
      PROVE  Keys!IssueInv'
  <2> DEFINE r == [key |-> k, asked |-> clock, late |-> k \in done[s], issued |-> credentials[k] = "active"]
  <2>0. ResolvesKey(r) /\ r.key = k
    BY DEF Keys!TypeOK, ResolvesKey
  <2>1. r.issued => credentials[k] = "active"
    OBVIOUS
  <2>2. /\ cached' = cached
        /\ \/ Keys!Answer(s, r, "admitted")
           \/ \E step \in {"drop", "ask"} : Keys!At(s, r, step)
    BY <1>3 DEF Keys!Present, Keys!IssueInv, Keys!HitsAreCached
  <2> HIDE DEF r
  <2>3. Keys!IssuedStay' /\ Keys!IssuanceIsImmediate'
    BY <1>1, <2>0, <2>1, <2>2, AnsweredIssued, AdvancedIssued
  <2>4. Keys!HitsAreCached'
    BY <2>2 DEF Keys!IssueInv, Keys!HitsAreCached
  <2> QED BY <2>3, <2>4 DEF Keys!IssueInv
<1>4. CASE Keys!Drop(s)
  <2>1. \/ Keys!At(s, loop[s], "ask")
        \/ Keys!Answer(s, loop[s], "error")
    BY <1>4 DEF Keys!Drop
  <2>2. loop[s].step # "idle"
    BY <1>4 DEF Keys!Drop
  <2>3. Keys!IssuedStay' /\ Keys!IssuanceIsImmediate'
    BY <1>1, <1>2, <2>1, <2>2, AnsweredIssued, AdvancedIssued
  <2>4. \/ cached' = cached
        \/ cached' = [cached EXCEPT ![s] = [k \in DOMAIN cached[s] \ {loop[s].key} |-> cached[s][k]]]
    BY <1>4 DEF Keys!Drop
  <2>5. Keys!HitsAreCached'
    BY <2>4 DEF Keys!IssueInv, Keys!HitsAreCached, Keys!TypeOK
  <2> QED BY <2>3, <2>5 DEF Keys!IssueInv
<1>5. CASE Keys!Ask(s)
  <2>1. /\ loop[s].step # "idle" /\ cached' = cached
        /\ \/ Keys!At(s, loop[s], "keep")
           \/ credentials[loop[s].key] # "active" /\ Keys!Answer(s, loop[s], "refused")
           \/ Keys!Answer(s, loop[s], "error")
    BY <1>5 DEF Keys!Ask, Keys!Cacheable
  <2>2. loop[s].issued /\ credentials[loop[s].key] # "active" => credentials[loop[s].key] = "revoked"
    BY <1>2, <2>1 DEF Keys!TypeOK, ResolvesKey
  <2>3. Keys!IssuedStay' /\ Keys!IssuanceIsImmediate'
    BY <1>1, <1>2, <2>1, <2>2, AnsweredIssued, AdvancedIssued
  <2>4. Keys!HitsAreCached'
    BY <2>1 DEF Keys!IssueInv, Keys!HitsAreCached
  <2> QED BY <2>3, <2>4 DEF Keys!IssueInv
<1>6. CASE Keys!Keep(s)
  <2>1. loop[s].step # "idle" /\ Keys!Answer(s, loop[s], "admitted")
    BY <1>6 DEF Keys!Keep
  <2>2. Keys!IssuedStay' /\ Keys!IssuanceIsImmediate'
    BY <1>1, <1>2, <2>1, AnsweredIssued
  <2>3. cached' = [cached EXCEPT ![s] = [k \in DOMAIN cached[s] \union {loop[s].key} |->
                     IF k = loop[s].key THEN [until |-> Keys!Until(loop[s]), found |-> TRUE] ELSE cached[s][k]]]
    BY <1>6 DEF Keys!Keep
  <2>4. Keys!HitsAreCached'
    BY <2>3 DEF Keys!IssueInv, Keys!HitsAreCached, Keys!TypeOK
  <2> QED BY <2>2, <2>4 DEF Keys!IssueInv
<1> QED BY <1>3, <1>4, <1>5, <1>6

(* A step that changes the table, or the caches, or starts a server anew.    *)
LEMMA OthersIssue ==
  ASSUME Keys!TypeOK, Keys!IssueInv, Keys!Next,
         ~ \E s \in Server : (\E k \in ApiKey : Keys!Present(s, k)) \/ Keys!Drop(s) \/ Keys!Ask(s) \/ Keys!Keep(s)
  PROVE  Keys!IssueInv'
<1>1. \A k \in ApiKey : /\ credentials[k] # "unissued" => credentials'[k] # "unissued"
                        /\ credentials[k] = "revoked" => credentials'[k] = "revoked"
  BY DEF Keys!Next, Keys!Serve, Keys!RevokeOnLoop, Keys!RevokeOnThread, Keys!RevokeFromShell, Keys!Revoked,
         Keys!Forget, Keys!Restart, Keys!Issue, Keys!EditFile, Keys!Tick, Keys!TypeOK
<1>2. \A s \in Server : /\ loop'[s] = loop[s] \/ loop'[s] = Keys!Waiting
                        /\ verdict'[s] = verdict[s] \/ verdict'[s] = Keys!Waiting
                        /\ cached'[s] = cached[s] \/ cached'[s] = Keys!Empty
  BY DEF Keys!Next, Keys!Serve, Keys!RevokeOnLoop, Keys!RevokeOnThread, Keys!RevokeFromShell,
         Keys!Forget, Keys!Restart, Keys!Issue, Keys!EditFile, Keys!Tick, Keys!TypeOK
<1>3. Keys!IssuedStay'
  BY <1>1, <1>2, LoopAsked DEF Keys!IssueInv, Keys!IssuedStay, Keys!Waiting, ResolvesKey
<1>4. Keys!HitsAreCached'
  BY <1>2 DEF Keys!IssueInv, Keys!HitsAreCached, Keys!Empty
<1>5. Keys!IssuanceIsImmediate'
  <2>1. \A s \in Server : verdict[s] # Keys!Waiting => verdict[s].key \in ApiKey
    BY DEF Keys!TypeOK, Keys!Verdict
  <2> QED BY <1>1, <1>2, <2>1 DEF Keys!IssueInv, Keys!IssuanceIsImmediate
<1> QED BY <1>3, <1>4, <1>5 DEF Keys!IssueInv

LEMMA IssueStart == Keys!Init => Keys!IssueInv
BY DEF Keys!Init, Keys!IssueInv, Keys!IssuedStay, Keys!HitsAreCached, Keys!IssuanceIsImmediate, Keys!Empty, Keys!Waiting

LEMMA IssueStep == Keys!KeyInv /\ Keys!IssueInv /\ [Keys!Next]_(Keys!keyVars) => Keys!IssueInv'
<1> SUFFICES ASSUME Keys!KeyInv, Keys!IssueInv, [Keys!Next]_(Keys!keyVars) PROVE Keys!IssueInv'
  OBVIOUS
<1>1. CASE UNCHANGED Keys!keyVars
  BY <1>1 DEF Keys!keyVars, Keys!IssueInv, Keys!IssuedStay, Keys!HitsAreCached, Keys!IssuanceIsImmediate
<1>2. CASE Keys!Next
  BY <1>2, ResolutionsIssue, OthersIssue DEF Keys!KeyInv
<1> QED BY <1>1, <1>2

HIDE KeyAssumption

-----------------------------------------------------------------------------
(* Providers                                                                 *)

priority == v1
setting == v2
env == v3
reader == v4
resets == v5
steady == v6
kept == v7
faults == v8

USE ProviderAssumption DEF priority, setting, env, reader, resets, steady, kept, faults

(* The first of two or three values that is there.                           *)
LEMMA FirstOfTwo ==
  ASSUME NEW values, DOMAIN values = 1 .. 2, NEW otherwise
  PROVE  Providers!First(values, otherwise) =
           IF values[1] # None THEN values[1] ELSE IF values[2] # None THEN values[2] ELSE otherwise
<1>1. CASE values[1] # None
  <2> DEFINE P(i) == i \in DOMAIN values /\ values[i] # None /\ \A j \in 1 .. i - 1 : values[j] = None
  <2>1. P(1) /\ \A i \in DOMAIN values : P(i) => i = 1
    BY <1>1
  <2>2. (CHOOSE i \in DOMAIN values : values[i] # None /\ \A j \in 1 .. i - 1 : values[j] = None) = 1
    BY <2>1
  <2> QED BY <1>1, <2>2 DEF Providers!First
<1>2. CASE values[1] = None /\ values[2] # None
  <2> DEFINE P(i) == i \in DOMAIN values /\ values[i] # None /\ \A j \in 1 .. i - 1 : values[j] = None
  <2>1. P(2) /\ \A i \in DOMAIN values : P(i) => i = 2
    BY <1>2
  <2>2. (CHOOSE i \in DOMAIN values : values[i] # None /\ \A j \in 1 .. i - 1 : values[j] = None) = 2
    BY <2>1
  <2> QED BY <1>2, <2>2 DEF Providers!First
<1>3. CASE values[1] = None /\ values[2] = None
  BY <1>3 DEF Providers!First
<1> QED BY <1>1, <1>2, <1>3

LEMMA FirstIsOne ==
  ASSUME NEW values, DOMAIN values = 1 .. 3, NEW otherwise
  PROVE  \/ Providers!First(values, otherwise) = otherwise
         \/ \E i \in 1 .. 3 : values[i] # None /\ Providers!First(values, otherwise) = values[i]
<1> DEFINE P(i) == values[i] # None /\ \A j \in 1 .. i - 1 : values[j] = None
<1>1. CASE \E i \in DOMAIN values : values[i] # None
  <2>1. \E i \in DOMAIN values : P(i)
    <3>1. CASE values[1] # None
      BY <3>1
    <3>2. CASE values[1] = None /\ values[2] # None
      <4>1. P(2)
        BY <3>2
      <4> QED BY <4>1
    <3>3. CASE values[1] = None /\ values[2] = None
      <4>1. P(3)
        BY <1>1, <3>3
      <4> QED BY <4>1
    <3> QED BY <3>1, <3>2, <3>3
  <2> DEFINE first == CHOOSE i \in DOMAIN values : P(i)
  <2>2. first \in DOMAIN values /\ P(first)
    BY <2>1
  <2>3. Providers!First(values, otherwise) = values[first]
    BY <1>1 DEF Providers!First
  <2> QED BY <2>2, <2>3
<1>2. CASE ~ \E i \in DOMAIN values : values[i] # None
  BY <1>2 DEF Providers!First
<1> QED BY <1>1, <1>2

(* What is read, and what comes of it, are told apart.                       *)
LEMMA ReadingsAreNoAnswers ==
  ASSUME NEW x
  PROVE  ~(x \in Providers!Reading /\ x \in Providers!Resolved)
<1> SUFFICES ASSUME x \in Providers!Reading, x \in Providers!Resolved PROVE FALSE
  OBVIOUS
<1>1. DOMAIN x = {"at", "priority", "rows"}
  BY DEF Providers!Reading
<1>2. DOMAIN x = {"adapter", "model", "bills"}
  BY DEF Providers!Resolved
<1> QED BY <1>1, <1>2

(* Whose key a run is billed to.                                             *)
LEMMA KeyDecides ==
  ASSUME NEW reading, DOMAIN reading.rows = 1 .. 2, reading.rows[1] \in Providers!Row, reading.rows[2] \in Providers!Row
  PROVE  /\ Providers!Bills(reading) \in Providers!Scope \union {"env", None}
         /\ reading.rows[1].key # None => Providers!Bills(reading) \in {"tenant", None}
         /\ reading.rows[2].key # None => Providers!Bills(reading) # "env"
<1> DEFINE values == [i \in 1 .. 2 |-> IF reading.rows[i].key = None THEN None
                                       ELSE [scope |-> <<"tenant", "default">>[i], by |-> reading.rows[i].key]]
           found == Providers!First(values, None)
<1>1. Providers!KeyOf(reading) = found
  BY DEF Providers!KeyOf
<1>2. /\ values[1] = IF reading.rows[1].key = None THEN None ELSE [scope |-> "tenant", by |-> reading.rows[1].key]
      /\ values[2] = IF reading.rows[2].key = None THEN None ELSE [scope |-> "default", by |-> reading.rows[2].key]
      /\ DOMAIN values = 1 .. 2
  OBVIOUS
<1>3. found = IF values[1] # None THEN values[1] ELSE IF values[2] # None THEN values[2] ELSE None
  BY <1>2, FirstOfTwo
<1> HIDE DEF values, found
<1>4. /\ reading.rows[1].key # None => values[1] # None /\ values[1].scope = "tenant"
      /\ reading.rows[2].key # None => values[2] # None /\ values[2].scope = "default"
      /\ reading.rows[1].key = None => values[1] = None
      /\ reading.rows[2].key = None => values[2] = None
  BY <1>2 DEF Providers!Row, Providers!Scope
<1>5. /\ Providers!EnvironmentOr(None) \in {"env", None}
      /\ Providers!Bills(reading) = IF found = None THEN Providers!EnvironmentOr(None)
                                    ELSE IF Providers!Opens(found.by) THEN found.scope ELSE None
  BY <1>1 DEF Providers!EnvironmentOr, Providers!Bills
<1>6. None # "env"
  OBVIOUS
<1> QED BY <1>3, <1>4, <1>5, <1>6 DEF Providers!Scope
(* Two adapters never have the same place in an order, so one is selected.   *)
LEMMA PlacesDiffer ==
  ASSUME NEW order \in Seq(Providers!Adapter), "echo" \in Providers!Range(order)
  PROVE  /\ Providers!Position(order, "gemini") \in Int /\ Providers!Position(order, "echo") \in Int
         /\ Providers!Position(order, "gemini") # Providers!Position(order, "echo")
<1> DEFINE At(a) == CHOOSE i \in DOMAIN order : order[i] = a
<1>1. ASSUME NEW a \in Providers!Range(order)
      PROVE  At(a) \in 1 .. Len(order) /\ order[At(a)] = a
  <2>1. \E i \in DOMAIN order : order[i] = a
    BY <1>1 DEF Providers!Range
  <2>2. At(a) \in DOMAIN order /\ order[At(a)] = a
    BY <2>1
  <2> QED BY <2>2
<1>2. \A a : Providers!Position(order, a) = IF a \in Providers!Range(order) THEN At(a) ELSE Len(order) + 1
  BY DEF Providers!Position
<1> HIDE DEF At
<1>3. At("echo") \in 1 .. Len(order) /\ order[At("echo")] = "echo"
  BY <1>1
<1>4. CASE "gemini" \in Providers!Range(order)
  <2>1. At("gemini") \in 1 .. Len(order) /\ order[At("gemini")] = "gemini"
    BY <1>1, <1>4
  <2> QED BY <1>2, <1>3, <1>4, <2>1
<1>5. CASE "gemini" \notin Providers!Range(order)
  BY <1>2, <1>3, <1>5
<1> QED BY <1>4, <1>5

LEMMA OneIsSelected ==
  ASSUME NEW reading, Providers!Order(reading) \in Seq(Providers!Adapter)
  PROVE  Providers!Selected(reading) \in Providers!Adapter \union {None}
<1> DEFINE order == Providers!Order(reading)
           usable == {a \in Providers!Adapter :
                        IF a = "echo" THEN a \in Providers!Range(order) ELSE Providers!Bills(reading) # None}
           Best(a) == \A b \in usable \ {a} : Providers!Position(order, a) < Providers!Position(order, b)
<1>1. Providers!Selected(reading) = IF usable = {} THEN None ELSE CHOOSE a \in usable : Best(a)
  BY DEF Providers!Selected
<1>2. ASSUME usable # {} PROVE \E a \in usable : Best(a)
  <2>1. CASE "echo" \in usable /\ "gemini" \in usable
    <3>1. "echo" \in Providers!Range(order)
      BY <2>1
    <3>2. /\ Providers!Position(order, "gemini") \in Int /\ Providers!Position(order, "echo") \in Int
          /\ Providers!Position(order, "gemini") # Providers!Position(order, "echo")
      BY <3>1, PlacesDiffer
    <3>3. usable = {"echo", "gemini"}
      BY <2>1 DEF Providers!Adapter
    <3> HIDE DEF usable
    <3>4. CASE Providers!Position(order, "gemini") < Providers!Position(order, "echo")
      <4>1. Best("gemini")
        BY <3>3, <3>4
      <4> QED BY <3>3, <4>1
    <3>5. CASE Providers!Position(order, "echo") < Providers!Position(order, "gemini")
      <4>1. Best("echo")
        BY <3>3, <3>5
      <4> QED BY <3>3, <4>1
    <3> QED BY <3>2, <3>4, <3>5
  <2>2. CASE "echo" \in usable /\ "gemini" \notin usable
    <3>1. usable = {"echo"}
      BY <2>2 DEF Providers!Adapter
    <3> QED BY <3>1
  <2>3. CASE "echo" \notin usable
    <3>1. usable = {"gemini"}
      BY <1>2, <2>3 DEF Providers!Adapter
    <3> QED BY <3>1
  <2> QED BY <2>1, <2>2, <2>3
<1>3. usable # {} => (CHOOSE a \in usable : Best(a)) \in usable
  BY <1>2
<1> QED BY <1>1, <1>3

(* A row as a setting leaves it.                                             *)
LEMMA RowsAreTyped ==
  ASSUME Providers!TypeOK, NEW scope \in Providers!Scope, NEW model \in Configured \union {None},
         NEW key \in {"keep", "none", "new"}, key = "new" => env.master # None
  PROVE  /\ Providers!Updated(setting[scope], model, key) \in Providers!Row
         /\ key = "new" => Providers!Updated(setting[scope], model, key).key # None
         /\ key = "keep" => Providers!Updated(setting[scope], model, key).key = setting[scope].key
<1>1. setting[scope] \in Providers!Row /\ env.master \in Master \union {None}
  BY DEF Providers!TypeOK, Providers!Environment
<1> QED BY <1>1 DEF Providers!Updated, Providers!Row

LEMMA ProvidersStart == Providers!Init => Providers!ProviderInv
<1> SUFFICES ASSUME Providers!Init PROVE Providers!ProviderInv
  OBVIOUS
<1>1. Providers!TypeOK
  BY DEF Providers!Init, Providers!TypeOK, Providers!NoRow, Providers!Row
<1>2. Providers!SteadyKeysAreThere /\ Providers!ReadingsShowKeys /\ Providers!KeysAreNotPassedOver
  BY DEF Providers!Init, Providers!SteadyKeysAreThere, Providers!ReadingsShowKeys, Providers!KeysAreNotPassedOver
<1> QED BY <1>1, <1>2 DEF Providers!ProviderInv

(* The console's writes.                                                     *)
LEMMA SettingsAreStored ==
  ASSUME Providers!ProviderInv, NEW rows \in [Providers!Scope -> Providers!Row], Providers!Store(rows),
         reader' = reader, env' = env, faults' = faults, kept' \subseteq Providers!Scope,
         \A s \in kept' : rows[s].key # None, resets' \subseteq Operator,
         priority' \in [Providers!Scope -> Priorities \union {<<>>}]
  PROVE  Providers!ProviderInv'
<1>1. /\ setting' = rows
      /\ steady' = [r \in Reader |-> steady[r] \intersect Providers!Holding(rows)]
  BY DEF Providers!Store
<1>2. Providers!TypeOK'
  BY <1>1 DEF Providers!ProviderInv, Providers!TypeOK
<1>3. Providers!SteadyKeysAreThere'
  BY <1>1 DEF Providers!SteadyKeysAreThere, Providers!Holding
<1>4. Providers!ReadingsShowKeys' /\ Providers!KeysAreNotPassedOver'
  BY <1>1 DEF Providers!ProviderInv, Providers!ReadingsShowKeys, Providers!KeysAreNotPassedOver
<1> QED BY <1>2, <1>3, <1>4 DEF Providers!ProviderInv

LEMMA SettingsChange ==
  ASSUME Providers!ProviderInv, NEW scope \in Providers!Scope, NEW model \in Configured \union {None},
         NEW key \in {"keep", "none", "new"}, Providers!SetAdapter(scope, model, key)
  PROVE  Providers!ProviderInv'
<1> DEFINE rows == [setting EXCEPT ![scope] = Providers!Updated(setting[scope], model, key)]
<1>1. /\ key = "new" => env.master # None
      /\ Providers!Store(rows) /\ reader' = reader /\ env' = env /\ faults' = faults
      /\ resets' = resets /\ priority' = priority
      /\ kept' = CASE key = "keep" -> kept [] key = "none" -> kept \ {scope} [] key = "new" -> kept \union {scope}
  BY DEF Providers!SetAdapter
<1>2. Providers!TypeOK /\ \A s \in kept : setting[s].key # None
  BY DEF Providers!ProviderInv, Providers!KeysAreNotPassedOver
<1>3. rows \in [Providers!Scope -> Providers!Row]
      /\ \A s \in Providers!Scope : rows[s] = IF s = scope THEN Providers!Updated(setting[scope], model, key) ELSE setting[s]
  BY <1>1, <1>2, RowsAreTyped DEF Providers!TypeOK
<1> HIDE DEF rows
<1>4. kept' \subseteq Providers!Scope /\ \A s \in kept' : rows[s].key # None
  BY <1>1, <1>2, <1>3, RowsAreTyped DEF Providers!TypeOK
<1>5. resets' \subseteq Operator /\ priority' \in [Providers!Scope -> Priorities \union {<<>>}]
  BY <1>1, <1>2 DEF Providers!TypeOK
<1> QED BY <1>1, <1>3, <1>4, <1>5, SettingsAreStored

LEMMA RowsAreReset ==
  ASSUME Providers!ProviderInv, NEW o \in Operator, Providers!ResetRows(o)
  PROVE  Providers!ProviderInv'
<1> DEFINE rows == [setting EXCEPT !["tenant"] = Providers!NoRow]
<1>1. /\ Providers!Store(rows) /\ reader' = reader /\ env' = env /\ faults' = faults
      /\ resets' = resets \ {o} /\ priority' = priority /\ kept' = kept \ {"tenant"}
  BY DEF Providers!ResetRows
<1>2. Providers!TypeOK /\ \A s \in kept : setting[s].key # None
  BY DEF Providers!ProviderInv, Providers!KeysAreNotPassedOver
<1>3. rows \in [Providers!Scope -> Providers!Row] /\ \A s \in Providers!Scope \ {"tenant"} : rows[s] = setting[s]
  BY <1>2 DEF Providers!TypeOK, Providers!NoRow, Providers!Row
<1> HIDE DEF rows
<1>4. /\ kept' \subseteq Providers!Scope /\ \A s \in kept' : rows[s].key # None
      /\ resets' \subseteq Operator /\ priority' \in [Providers!Scope -> Priorities \union {<<>>}]
  BY <1>1, <1>2, <1>3 DEF Providers!TypeOK
<1> QED BY <1>1, <1>3, <1>4, SettingsAreStored

(* What leaves the rows alone.                                               *)
LEMMA RowsStay ==
  ASSUME Providers!ProviderInv,
         \/ \E scope \in Providers!Scope : Providers!SetPriority(scope)
         \/ \E o \in Operator : Providers!Reset(o) \/ Providers!ResetStops(o)
         \/ Providers!Restart
  PROVE  Providers!ProviderInv'
<1>1. /\ setting' = setting /\ steady' = steady /\ kept' = kept
      /\ reader' = reader \/ reader' = [r \in Reader |-> None]
  BY DEF Providers!SetPriority, Providers!Reset, Providers!ResetStops, Providers!Restart
<1>2. Providers!TypeOK'
  <2>1. /\ priority' \in [Providers!Scope -> Priorities \union {<<>>}] /\ env' \in Providers!Environment
        /\ resets' \subseteq Operator /\ faults' \in 0 .. MaxFaults
    BY DEF Providers!ProviderInv, Providers!TypeOK, Providers!Scope, Providers!SetPriority, Providers!Reset,
           Providers!ResetStops, Providers!Restart, Providers!Fault
  <2>2. reader' \in [Reader -> Providers!Reading \union Providers!Resolved \union {None}]
    BY <1>1 DEF Providers!ProviderInv, Providers!TypeOK
  <2> QED BY <1>1, <2>1, <2>2 DEF Providers!ProviderInv, Providers!TypeOK
<1>3. Providers!SteadyKeysAreThere'
  BY <1>1 DEF Providers!ProviderInv, Providers!SteadyKeysAreThere, Providers!Holding
<1>4. Providers!ReadingsShowKeys' /\ Providers!KeysAreNotPassedOver'
  BY <1>1 DEF Providers!ProviderInv, Providers!ReadingsShowKeys, Providers!KeysAreNotPassedOver
<1> QED BY <1>2, <1>3, <1>4 DEF Providers!ProviderInv
(* A reader begins, with the keys that are there now, or gives up.           *)
LEMMA ReadersBegin ==
  ASSUME Providers!ProviderInv, NEW r \in Reader, Providers!Begin(r) \/ Providers!ReadFails(r)
  PROVE  Providers!ProviderInv'
<1> DEFINE new == [at |-> 1, priority |-> <<>>, rows |-> <<>>]
<1>1. /\ priority' = priority /\ setting' = setting /\ env' = env /\ resets' = resets /\ kept' = kept
      /\ Providers!TypeOK
      /\ faults' \in 0 .. MaxFaults
  BY DEF Providers!Begin, Providers!ReadFails, Providers!Fault, Providers!ProviderInv, Providers!TypeOK
<1>2. /\ new \in Providers!Reading /\ new \notin Providers!Resolved /\ new.at = 1 /\ Len(new.rows) = 0
  <2>1. <<>> \in Seq(Providers!Row) /\ Len(<<>>) = 0
    OBVIOUS
  <2>2. new \in Providers!Reading
    BY <2>1 DEF Providers!Reading
  <2> QED BY <2>1, <2>2, ReadingsAreNoAnswers
<1>3. \/ reader' = [reader EXCEPT ![r] = new] /\ steady' = [steady EXCEPT ![r] = Providers!Holding(setting)]
      \/ reader' = [reader EXCEPT ![r] = None] /\ steady' = steady
  BY DEF Providers!Begin, Providers!ReadFails, Providers!Becomes
<1> HIDE DEF new
<1>4. Providers!TypeOK'
  BY <1>1, <1>2, <1>3 DEF Providers!TypeOK, Providers!Holding
<1>5. Providers!SteadyKeysAreThere'
  BY <1>1, <1>3 DEF Providers!ProviderInv, Providers!SteadyKeysAreThere, Providers!Holding, Providers!TypeOK
<1>6. Providers!ReadingsShowKeys' /\ Providers!KeysAreNotPassedOver'
  BY <1>1, <1>2, <1>3 DEF Providers!ProviderInv, Providers!ReadingsShowKeys, Providers!KeysAreNotPassedOver, Providers!TypeOK
<1> QED BY <1>4, <1>5, <1>6 DEF Providers!ProviderInv

(* A statement of a reader.  The last one resolves.                          *)
LEMMA ReadersRead ==
  ASSUME Providers!ProviderInv, NEW r \in Reader, Providers!Read(r)
  PROVE  Providers!ProviderInv'
<1> DEFINE reading == reader[r]
           scope == IF reading.at <= 2 THEN "tenant" ELSE "default"
           now == IF reading.at \in {1, 3}
                  THEN [reading EXCEPT !.priority = IF @ = <<>> THEN priority[scope] ELSE @]
                  ELSE [reading EXCEPT !.rows = Append(@, setting[scope])]
<1>1. /\ reading \in Providers!Reading
      /\ reader' = [reader EXCEPT ![r] = IF reading.at = 4 THEN Providers!Resolve(now)
                                         ELSE [now EXCEPT !.at = now.at + 1]]
      /\ priority' = priority /\ setting' = setting /\ env' = env /\ resets' = resets
      /\ steady' = steady /\ kept' = kept /\ faults' = faults
  BY DEF Providers!Read, Providers!Becomes
<1>2. /\ Providers!TypeOK /\ steady[r] \subseteq Providers!Holding(setting)
      /\ Len(reading.rows) = IF reading.at <= 2 THEN 0 ELSE 1
      /\ reading.at > 2 /\ "tenant" \in steady[r] => reading.rows[1].key # None
  BY <1>1 DEF Providers!ProviderInv, Providers!SteadyKeysAreThere, Providers!ReadingsShowKeys
<1>3. /\ reading.at \in 1 .. 4 /\ reading.priority \in Priorities \union {<<>>} /\ reading.rows \in Seq(Providers!Row)
      /\ scope \in Providers!Scope /\ setting[scope] \in Providers!Row /\ priority[scope] \in Priorities \union {<<>>}
  BY <1>1, <1>2 DEF Providers!Reading, Providers!TypeOK, Providers!Scope
<1>4. /\ now \in Providers!Reading /\ now.at = reading.at
      /\ now.rows = IF reading.at \in {1, 3} THEN reading.rows ELSE Append(reading.rows, setting[scope])
  <2>1. CASE reading.at \in {1, 3}
    <3>1. now = [reading EXCEPT !.priority = IF reading.priority = <<>> THEN priority[scope] ELSE reading.priority]
      BY <2>1
    <3> HIDE DEF now
    <3> QED BY <1>1, <1>3, <2>1, <3>1 DEF Providers!Reading
  <2>2. CASE reading.at \notin {1, 3}
    <3>1. now = [reading EXCEPT !.rows = Append(reading.rows, setting[scope])]
      BY <2>2
    <3>2. Append(reading.rows, setting[scope]) \in Seq(Providers!Row)
      BY <1>3
    <3> HIDE DEF now
    <3> QED BY <1>1, <1>3, <2>2, <3>1, <3>2 DEF Providers!Reading
  <2> QED BY <2>1, <2>2
<1> HIDE DEF now
<1>5. CASE reading.at # 4
  <2> DEFINE next == [now EXCEPT !.at = now.at + 1]
  <2>1. /\ next \in Providers!Reading /\ next \notin Providers!Resolved
        /\ next.at = reading.at + 1 /\ next.rows = now.rows
    <3>1. now.at + 1 \in 1 .. 4
      BY <1>3, <1>4, <1>5
    <3>2. next \in Providers!Reading /\ next.at = reading.at + 1 /\ next.rows = now.rows
      BY <1>4, <3>1 DEF Providers!Reading
    <3> QED BY <3>2, ReadingsAreNoAnswers
  <2>2. reader' = [reader EXCEPT ![r] = next]
    BY <1>1, <1>5
  <2> HIDE DEF next
  <2>3. /\ Len(next.rows) = IF next.at <= 2 THEN 0 ELSE 1
        /\ next.at > 2 /\ "tenant" \in steady[r] => next.rows[1].key # None
    <3>1. CASE reading.at \in {1, 3}
      BY <1>2, <1>3, <1>4, <2>1, <3>1
    <3>2. CASE reading.at = 2
      <4>1. next.rows = Append(reading.rows, setting["tenant"]) /\ Len(reading.rows) = 0
        BY <1>2, <1>4, <2>1, <3>2
      <4>2. Len(next.rows) = 1 /\ next.rows[1] = setting["tenant"]
        BY <1>3, <4>1
      <4> QED BY <1>2, <2>1, <3>2, <4>2 DEF Providers!Holding
    <3> QED BY <1>3, <1>5, <3>1, <3>2
  <2>4. Providers!TypeOK'
    BY <1>1, <1>2, <2>1, <2>2 DEF Providers!TypeOK
  <2>5. Providers!SteadyKeysAreThere'
    BY <1>1 DEF Providers!ProviderInv, Providers!SteadyKeysAreThere, Providers!Holding
  <2>6. Providers!ReadingsShowKeys'
    BY <1>1, <1>2, <2>2, <2>3 DEF Providers!ProviderInv, Providers!ReadingsShowKeys, Providers!TypeOK
  <2>7. Providers!KeysAreNotPassedOver'
    BY <1>1, <1>2, <2>1, <2>2 DEF Providers!ProviderInv, Providers!KeysAreNotPassedOver, Providers!TypeOK
  <2> QED BY <2>4, <2>5, <2>6, <2>7 DEF Providers!ProviderInv
<1>6. CASE reading.at = 4
  <2> DEFINE answer == Providers!Resolve(now)
  <2>1. reader' = [reader EXCEPT ![r] = answer]
    BY <1>1, <1>6
  <2>2. /\ DOMAIN now.rows = 1 .. 2 /\ now.rows[1] = reading.rows[1] /\ now.rows[2] = setting["default"]
        /\ now.rows[1] \in Providers!Row /\ now.rows[2] \in Providers!Row
    <3>1. now.rows = Append(reading.rows, setting["default"]) /\ Len(reading.rows) = 1
      BY <1>2, <1>4, <1>6
    <3>2. now.rows \in Seq(Providers!Row) /\ Len(now.rows) = 2
      BY <1>3, <1>6, <3>1
    <3> QED BY <1>3, <1>6, <3>1, <3>2
  <2>3. /\ Providers!Bills(now) \in Providers!Scope \union {"env", None}
        /\ "tenant" \in steady[r] => Providers!Bills(now) \in {"tenant", None}
        /\ "default" \in steady[r] => Providers!Bills(now) # "env"
    BY <1>2, <1>6, <2>2, KeyDecides DEF Providers!Holding
  <2>4. Providers!Selected(now) \in Providers!Adapter \union {None}
    <3>1. env.priority \in Priorities \union {<<>>}
      BY <1>2 DEF Providers!TypeOK, Providers!Environment
    <3>2. now.priority \in Priorities \union {<<>>}
      BY <1>4 DEF Providers!Reading
    <3>3. <<>> \in Seq(Providers!Adapter) /\ <<"gemini">> \in Seq(Providers!Adapter)
      BY DEF Providers!Adapter
    <3>4. Providers!Order(now) \in Seq(Providers!Adapter)
      BY <3>1, <3>2, <3>3 DEF Providers!Order
    <3> QED BY <3>4, OneIsSelected
  <2>5. Providers!First(<<now.rows[1].model, now.rows[2].model, env.model>>, Shipped) \in Configured \union {Shipped}
    <3> DEFINE models == <<now.rows[1].model, now.rows[2].model, env.model>>
    <3>1. DOMAIN models = 1 .. 3 /\ \A i \in 1 .. 3 : models[i] \in Configured \union {None}
      BY <1>2, <2>2 DEF Providers!TypeOK, Providers!Environment, Providers!Row
    <3> HIDE DEF models
    <3>2. \/ Providers!First(models, Shipped) = Shipped
          \/ \E i \in 1 .. 3 : models[i] # None /\ Providers!First(models, Shipped) = models[i]
      BY <3>1, FirstIsOne
    <3>3. Providers!First(models, Shipped) \in Configured \union {Shipped}
      BY <3>1, <3>2
    <3> QED BY <3>3 DEF models
  <2>6. answer \in Providers!Resolved /\ answer.bills = Providers!Bills(now)
    BY <2>3, <2>4, <2>5 DEF Providers!Resolve, Providers!Resolved
  <2>7. answer \notin Providers!Reading
    BY <2>6, ReadingsAreNoAnswers
  <2> HIDE DEF answer
  <2>8. Providers!TypeOK'
    BY <1>1, <1>2, <2>1, <2>6 DEF Providers!TypeOK
  <2>9. Providers!SteadyKeysAreThere'
    BY <1>1 DEF Providers!ProviderInv, Providers!SteadyKeysAreThere, Providers!Holding
  <2>10. Providers!ReadingsShowKeys'
    BY <1>1, <1>2, <2>1, <2>7 DEF Providers!ProviderInv, Providers!ReadingsShowKeys, Providers!TypeOK
  <2>11. Providers!KeysAreNotPassedOver'
    BY <1>1, <1>2, <2>1, <2>3, <2>6 DEF Providers!ProviderInv, Providers!KeysAreNotPassedOver, Providers!TypeOK
  <2> QED BY <2>8, <2>9, <2>10, <2>11 DEF Providers!ProviderInv
<1> QED BY <1>5, <1>6

LEMMA ProvidersStep == Providers!ProviderInv /\ [Providers!Next]_(Providers!providerVars) => Providers!ProviderInv'
<1>1. Providers!ProviderInv /\ Providers!Next => Providers!ProviderInv'
  BY SettingsChange, RowsAreReset, RowsStay, ReadersBegin, ReadersRead DEF Providers!Next
<1>2. Providers!ProviderInv /\ UNCHANGED Providers!providerVars => Providers!ProviderInv'
  BY DEF Providers!providerVars, Providers!ProviderInv, Providers!TypeOK, Providers!SteadyKeysAreThere, Providers!Holding,
         Providers!ReadingsShowKeys, Providers!KeysAreNotPassedOver
<1> QED BY <1>1, <1>2

-----------------------------------------------------------------------------
(* Evaluations                                                               *)

answered == v1
rows == v2
runs == v3
fresh == v4
handlers == v5
schema == v6
outages == v7
erased == v8
behind == v9
lost == v10

USE EvaluationAssumption DEF answered, rows, runs, fresh, handlers, schema, outages, erased, behind, lost

LEMMA EqualSizes == ASSUME NEW S PROVE Evaluations!Cardinality(S) = Cardinality(S)
BY DEF Evaluations!Cardinality, Cardinality

(* A request's step says what it carries.                                    *)
LEMMA StepsOfStates ==
  ASSUME NEW s \in Evaluations!State
  PROVE  /\ s.step \in Evaluations!Starting <=> s \in Evaluations!Begun
         /\ s.step \in Evaluations!Scoring <=> s \in Evaluations!Judging \union Evaluations!Writing
         /\ s.step = "write" <=> s \in Evaluations!Writing
         /\ s.step \in {"settle", "fail"} <=> s \in Evaluations!Judging
         /\ s.step \in Evaluations!Erasing <=> s \in Evaluations!Leaving \union Evaluations!Taking
         /\ s.step = "strip" <=> s \in Evaluations!Taking
         /\ s.step \in {"rows", "forget"} <=> s \in Evaluations!Leaving
         /\ s.step = "idle" <=> s = Evaluations!Idle
BY DEF Evaluations!State, Evaluations!Starting, Evaluations!Scoring, Evaluations!Erasing, Evaluations!Begun,
       Evaluations!Judging, Evaluations!Writing, Evaluations!Leaving, Evaluations!Taking, Evaluations!Idle

(* What somebody idle, or only erasing, is known not to be.                  *)
LEMMA IdleOwnsNothing == Evaluations!Idle \in Evaluations!State /\ Evaluations!OwnState(Evaluations!Idle)
<1>1. Evaluations!Idle \in Evaluations!State
  BY DEF Evaluations!State
<1>2. Evaluations!Idle.step = "idle"
  BY DEF Evaluations!Idle
<1> QED BY <1>1, <1>2, StepsOfStates DEF Evaluations!OwnState, Evaluations!Starting, Evaluations!Scoring, Evaluations!Erasing

(* Requests and starts, by handler.                                          *)
LEMMA StatesAreTyped ==
  ASSUME Evaluations!TypeOK, NEW h \in Handler
  PROVE  /\ handlers[h] \in Evaluations!State
         /\ h \in Evaluations!Starters <=>
              \/ handlers[h] \in Evaluations!Begun
              \/ handlers[h] \in Evaluations!Judging \union Evaluations!Writing /\ handlers[h].then # Evaluations!Idle
         /\ handlers[h] \in Evaluations!Begun => Evaluations!start(h) = handlers[h]
         /\ handlers[h] \in Evaluations!Judging \union Evaluations!Writing =>
              Evaluations!start(h) = handlers[h].then /\ handlers[h].then \in {Evaluations!Idle} \union Evaluations!Begun
<1>1. handlers[h] \in Evaluations!State
  BY DEF Evaluations!TypeOK
<1>2. handlers[h] \in Evaluations!Judging \union Evaluations!Writing => handlers[h].then \in {Evaluations!Idle} \union Evaluations!Begun
  BY DEF Evaluations!Judging, Evaluations!Writing
<1>3. handlers[h] \in Evaluations!Judging \union Evaluations!Writing => handlers[h].step \notin Evaluations!Starting
  BY <1>1, StepsOfStates DEF Evaluations!Starting, Evaluations!Scoring
<1> QED BY <1>1, <1>2, <1>3, StepsOfStates DEF Evaluations!Starters, Evaluations!start

(* The start a state stands for.                                             *)
Carries(s) == IF s \in Evaluations!Begun THEN {s.id}
              ELSE IF s \in Evaluations!Judging \union Evaluations!Writing /\ s.then # Evaluations!Idle THEN {s.then.id}
              ELSE {}

LEMMA StartsAreCarried ==
  Evaluations!TypeOK =>
    ((\A g, h \in Evaluations!Starters : Evaluations!start(g).id = Evaluations!start(h).id => g = h)
     <=> \A g, h \in Handler : Carries(handlers[g]) \intersect Carries(handlers[h]) # {} => g = h)
<1> SUFFICES ASSUME Evaluations!TypeOK
    PROVE  (\A g, h \in Evaluations!Starters : Evaluations!start(g).id = Evaluations!start(h).id => g = h)
           <=> \A g, h \in Handler : Carries(handlers[g]) \intersect Carries(handlers[h]) # {} => g = h
  OBVIOUS
<1>1. Evaluations!Starters \subseteq Handler
  BY DEF Evaluations!Starters
<1>2. \A h \in Handler : Carries(handlers[h]) = IF h \in Evaluations!Starters THEN {Evaluations!start(h).id} ELSE {}
  BY StatesAreTyped, StepsOfStates DEF Carries, Evaluations!Starting, Evaluations!Scoring
<1> HIDE DEF Carries
<1> QED BY <1>1, <1>2

LEMMA StartsAreCarriedAfter ==
  ASSUME Evaluations!TypeOK', \A g, h \in Handler : Carries(handlers'[g]) \intersect Carries(handlers'[h]) # {} => g = h
  PROVE  (\A g, h \in Evaluations!Starters : Evaluations!start(g).id = Evaluations!start(h).id => g = h)'
<1>1. (Evaluations!TypeOK =>
        ((\A g, h \in Evaluations!Starters : Evaluations!start(g).id = Evaluations!start(h).id => g = h)
         <=> \A g, h \in Handler : Carries(handlers[g]) \intersect Carries(handlers[h]) # {} => g = h))'
  BY StartsAreCarried, PTL
<1> QED BY <1>1

(* When requests only move on, while runs end and answers go, what they      *)
(* carry then has to be their own.                                           *)
LEMMA AllMove ==
  ASSUME Evaluations!EvaluationInv, handlers' \in [Handler -> Evaluations!State],
         rows' = rows, runs' \subseteq runs, fresh' = fresh, answered' \subseteq answered, erased' = erased, behind' = behind,
         lost \subseteq lost', lost' \subseteq Evaluation, schema' \in BOOLEAN, outages' \in 0 .. MaxFaults,
         \A g \in Handler : Evaluations!OwnState(handlers'[g]) /\ Carries(handlers'[g]) \subseteq Carries(handlers[g]),
         \A x \in runs' : \A g \in Handler : handlers[g] \in Evaluations!Begun /\ x[1] = handlers[g].id =>
            (handlers'[g] \in Evaluations!Begun /\ handlers'[g].id = x[1]) \/ x[1] \in lost'
  PROVE  Evaluations!EvaluationInv'
<1>1. Evaluations!TypeOK /\ Evaluations!TypeOK'
  BY DEF Evaluations!EvaluationInv, Evaluations!TypeOK
<1>2. ASSUME NEW g \in Handler PROVE Evaluations!OwnState(handlers[g])'
  BY DEF Evaluations!OwnState, Evaluations!OwnStart, Evaluations!AsRead, Evaluations!Rows, Evaluations!Unfinished
<1>3. \A g, i \in Handler : Carries(handlers[g]) \intersect Carries(handlers[i]) # {} => g = i
  BY <1>1, StartsAreCarried DEF Evaluations!EvaluationInv, Evaluations!RequestsAreOwn
<1>4. \A g, i \in Handler : Carries(handlers'[g]) \intersect Carries(handlers'[i]) # {} => g = i
  <2> HIDE DEF Carries
  <2> SUFFICES ASSUME NEW g \in Handler, NEW i \in Handler, NEW c \in Carries(handlers'[g]), c \in Carries(handlers'[i])
               PROVE  g = i
    OBVIOUS
  <2>1. Carries(handlers'[g]) \subseteq Carries(handlers[g]) /\ Carries(handlers'[i]) \subseteq Carries(handlers[i])
    OBVIOUS
  <2>2. c \in Carries(handlers[g]) /\ c \in Carries(handlers[i])
    BY <2>1
  <2> QED BY <1>3, <2>2
<1>5. Evaluations!RequestsAreOwn'
  BY <1>1, <1>2, <1>4, StartsAreCarriedAfter DEF Evaluations!RequestsAreOwn
<1>6. Evaluations!RowsAreSound' /\ Evaluations!ErasedDocumentsAreForgotten'
  BY DEF Evaluations!EvaluationInv, Evaluations!RowsAreSound, Evaluations!ErasedDocumentsAreForgotten, Evaluations!Rows
<1>7. Evaluations!RunsAreAccountedFor'
  <2> SUFFICES ASSUME NEW x \in runs'
               PROVE  \/ x[1] \in Evaluations!Rows \/ x[1] \in lost'
                      \/ \E g \in Handler : handlers'[g].step \in Evaluations!Starting /\ handlers'[g].id = x[1]
    BY DEF Evaluations!RunsAreAccountedFor, Evaluations!Rows
  <2>1. CASE x[1] \in Evaluations!Rows \/ x[1] \in lost
    BY <2>1
  <2>2. ASSUME NEW g \in Handler, handlers[g].step \in Evaluations!Starting, handlers[g].id = x[1]
        PROVE  x[1] \in lost' \/ \E i \in Handler : handlers'[i].step \in Evaluations!Starting /\ handlers'[i].id = x[1]
    <3>1. handlers[g] \in Evaluations!Begun
      BY <1>1, <2>2, StatesAreTyped, StepsOfStates
    <3>2. handlers'[g] \in Evaluations!Begun /\ handlers'[g].id = x[1] => handlers'[g].step \in Evaluations!Starting
      BY DEF Evaluations!Begun
    <3> QED BY <2>2, <3>1, <3>2
  <2> QED BY <2>1, <2>2 DEF Evaluations!EvaluationInv, Evaluations!RunsAreAccountedFor
<1> QED BY <1>1, <1>5, <1>6, <1>7 DEF Evaluations!EvaluationInv

LEMMA RequestsMove ==
  ASSUME Evaluations!EvaluationInv, NEW h \in Handler, NEW next \in Evaluations!State,
         handlers' = [handlers EXCEPT ![h] = next], rows' = rows, runs' \subseteq runs, fresh' = fresh,
         answered' \subseteq answered, erased' = erased, behind' = behind,
         lost \subseteq lost', lost' \subseteq Evaluation, schema' \in BOOLEAN, outages' \in 0 .. MaxFaults,
         Evaluations!OwnState(next), Carries(next) \subseteq Carries(handlers[h]),
         \A x \in runs' : handlers[h] \in Evaluations!Begun /\ x[1] = handlers[h].id =>
            (next \in Evaluations!Begun /\ next.id = x[1]) \/ x[1] \in lost'
  PROVE  Evaluations!EvaluationInv'
<1>1. \A g \in Handler : handlers'[g] = IF g = h THEN next ELSE handlers[g]
  BY DEF Evaluations!EvaluationInv, Evaluations!TypeOK
<1>2. handlers' \in [Handler -> Evaluations!State]
  BY DEF Evaluations!EvaluationInv, Evaluations!TypeOK
<1>3. \A g \in Handler : Evaluations!OwnState(handlers[g])
  BY DEF Evaluations!EvaluationInv, Evaluations!RequestsAreOwn
<1>4. \A g \in Handler : Evaluations!OwnState(handlers'[g]) /\ Carries(handlers'[g]) \subseteq Carries(handlers[g])
  <2> HIDE DEF Carries
  <2> QED BY <1>1, <1>3
<1>5. \A x \in runs' : \A g \in Handler : handlers[g] \in Evaluations!Begun /\ x[1] = handlers[g].id =>
        (handlers'[g] \in Evaluations!Begun /\ handlers'[g].id = x[1]) \/ x[1] \in lost'
  BY <1>1
<1> HIDE DEF Carries
<1> QED BY <1>2, <1>4, <1>5, AllMove

(* A request carries one thing.                                              *)
LEMMA StatesAreApart ==
  /\ \A s \in Evaluations!Begun : s \in Evaluations!State /\ s # Evaluations!Idle
       /\ s \notin Evaluations!Judging \union Evaluations!Writing \union Evaluations!Leaving \union Evaluations!Taking
  /\ \A s \in Evaluations!Judging : s \in Evaluations!State /\ s # Evaluations!Idle
       /\ s \notin Evaluations!Begun \union Evaluations!Writing \union Evaluations!Leaving \union Evaluations!Taking
  /\ \A s \in Evaluations!Writing : s \in Evaluations!State /\ s # Evaluations!Idle
       /\ s \notin Evaluations!Begun \union Evaluations!Judging \union Evaluations!Leaving \union Evaluations!Taking
  /\ \A s \in Evaluations!Leaving : s \in Evaluations!State /\ s # Evaluations!Idle
       /\ s \notin Evaluations!Begun \union Evaluations!Judging \union Evaluations!Writing \union Evaluations!Taking
  /\ \A s \in Evaluations!Taking : s \in Evaluations!State /\ s # Evaluations!Idle
       /\ s \notin Evaluations!Begun \union Evaluations!Judging \union Evaluations!Writing \union Evaluations!Leaving
<1>1. \A s \in Evaluations!Begun \union Evaluations!Judging \union Evaluations!Writing \union Evaluations!Leaving \union Evaluations!Taking :
        s \in Evaluations!State
  BY DEF Evaluations!State
<1> QED BY <1>1, StepsOfStates DEF Evaluations!Starting, Evaluations!Scoring, Evaluations!Erasing

LEMMA OwnStarts ==
  ASSUME NEW s \in Evaluations!Begun, Evaluations!OwnStart(s)
  PROVE  s \in Evaluations!State /\ Evaluations!OwnState(s) /\ Carries(s) = {s.id}
BY StatesAreApart DEF Evaluations!OwnState, Carries

LEMMA OwnJudgements ==
  ASSUME NEW s \in Evaluations!Judging, s.id \in Evaluations!Rows,
         s.then # Evaluations!Idle => s.then.step = "check" /\ Evaluations!OwnStart(s.then)
  PROVE  s \in Evaluations!State /\ Evaluations!OwnState(s)
         /\ Carries(s) = IF s.then # Evaluations!Idle THEN {s.then.id} ELSE {}
BY StatesAreApart DEF Evaluations!OwnState, Carries

(* A request that scores for a start goes back to it, or to nothing.         *)
LEMMA JudgesReturn ==
  ASSUME Evaluations!EvaluationInv, NEW h \in Handler, handlers[h] \in Evaluations!Judging \union Evaluations!Writing
  PROVE  /\ handlers[h].then \in Evaluations!State /\ Evaluations!OwnState(handlers[h].then)
         /\ handlers[h].then = Evaluations!Idle \/ handlers[h].then \in Evaluations!Begun
         /\ Carries(handlers[h].then) = Carries(handlers[h])
         /\ handlers[h].id \in Evaluations!Rows /\ handlers[h] \notin Evaluations!Begun
<1>1. /\ handlers[h].id \in Evaluations!Rows /\ handlers[h] \notin Evaluations!Begun
      /\ handlers[h].then # Evaluations!Idle => Evaluations!OwnStart(handlers[h].then)
  BY StatesAreApart DEF Evaluations!EvaluationInv, Evaluations!RequestsAreOwn, Evaluations!OwnState
<1>2. handlers[h].then \in {Evaluations!Idle} \union Evaluations!Begun
  BY StatesAreTyped DEF Evaluations!EvaluationInv
<1>3. CASE handlers[h].then = Evaluations!Idle
  <2>1. Evaluations!Idle \notin Evaluations!Begun \union Evaluations!Judging \union Evaluations!Writing
    BY StatesAreApart
  <2> QED BY <1>1, <1>3, <2>1, IdleOwnsNothing DEF Carries
<1>4. CASE handlers[h].then # Evaluations!Idle
  BY <1>1, <1>2, <1>4, OwnStarts DEF Carries
<1> QED BY <1>1, <1>3, <1>4

LEMMA StartsGoOn ==
  ASSUME NEW s \in Evaluations!Begun, NEW to \in Evaluations!Starting
  PROVE  LET next == [s EXCEPT !.step = to] IN
         next \in Evaluations!Begun /\ next.id = s.id /\ next.docs = s.docs /\ next.todo = s.todo /\ next.step = to
BY DEF Evaluations!Begun

LEMMA StartsArePending ==
  ASSUME Evaluations!EvaluationInv, NEW h \in Handler, Evaluations!Pending(h) PROVE Evaluations!EvaluationInv'
<1> DEFINE me == handlers[h]
<1>1. /\ rows' = rows /\ runs' = runs /\ fresh' = fresh /\ answered' = answered /\ erased' = erased /\ behind' = behind
      /\ lost' = lost /\ schema' = schema /\ outages' = outages /\ Evaluations!TypeOK
      /\ me.step = "begin"
      /\ lost \subseteq Evaluation /\ schema \in BOOLEAN /\ outages \in 0 .. MaxFaults
  BY DEF Evaluations!Pending, Evaluations!EvaluationInv, Evaluations!TypeOK
<1>2. me \in Evaluations!Begun /\ Evaluations!OwnStart(me) /\ Carries(me) = {me.id}
  <2>1. me \in Evaluations!Begun
    BY <1>1, StatesAreTyped, StepsOfStates DEF Evaluations!Starting
  <2> QED BY <2>1, OwnStarts DEF Evaluations!EvaluationInv, Evaluations!RequestsAreOwn, Evaluations!OwnState
<1>3. \A x \in runs : x[1] # me.id
  BY <1>1, <1>2 DEF Evaluations!OwnStart
<1>4. ASSUME NEW next \in Evaluations!State, handlers' = [handlers EXCEPT ![h] = next], Evaluations!OwnState(next),
             Carries(next) \subseteq Carries(me)
      PROVE  Evaluations!EvaluationInv'
  <2> HIDE DEF Carries
  <2> QED BY <1>1, <1>3, <1>4, RequestsMove
<1>5. ASSUME NEW to \in Evaluations!Starting \ {"withdraw"}
      PROVE  /\ [me EXCEPT !.step = to] \in Evaluations!Begun /\ Evaluations!OwnStart([me EXCEPT !.step = to])
             /\ [me EXCEPT !.step = to].id = me.id /\ [me EXCEPT !.step = to].step = to
  BY <1>2, <1>3, StartsGoOn DEF Evaluations!OwnStart
<1>6. CASE handlers' = [handlers EXCEPT ![h] = [me EXCEPT !.step = "submit"]]
  BY <1>2, <1>4, <1>5, <1>6, OwnStarts DEF Evaluations!Starting
<1>7. ASSUME NEW e \in Evaluations!Unfinished,
             handlers' = [handlers EXCEPT ![h] = [step |-> "settle", id |-> e, then |-> [me EXCEPT !.step = "check"]]]
      PROVE  Evaluations!EvaluationInv'
  <2> DEFINE then == [me EXCEPT !.step = "check"]
             next == [step |-> "settle", id |-> e, then |-> then]
  <2>1. then \in Evaluations!Begun /\ Evaluations!OwnStart(then) /\ then.id = me.id /\ then.step = "check"
    BY <1>5 DEF Evaluations!Starting
  <2>2. e \in Evaluations!Rows /\ e \in Evaluation
    BY DEF Evaluations!Unfinished, Evaluations!Rows
  <2> HIDE DEF then
  <2>3. next \in Evaluations!Judging /\ next.id = e /\ next.then = then
    BY <2>1, <2>2 DEF Evaluations!Judging
  <2>4. handlers' = [handlers EXCEPT ![h] = next]
    BY <1>7 DEF then
  <2> HIDE DEF next
  <2>5. next \in Evaluations!State /\ Evaluations!OwnState(next) /\ Carries(next) \subseteq Carries(me)
    BY <1>2, <2>1, <2>2, <2>3, OwnJudgements
  <2> QED BY <1>4, <2>4, <2>5
<1>8. CASE handlers' = [handlers EXCEPT ![h] = Evaluations!Idle]
  BY <1>4, <1>8, IdleOwnsNothing, StatesAreApart DEF Carries
<1> QED BY <1>6, <1>7, <1>8 DEF Evaluations!Pending, Evaluations!Go, Evaluations!Return

LEMMA StartsAreChecked ==
  ASSUME Evaluations!EvaluationInv, NEW h \in Handler, NEW e \in Evaluation, Evaluations!Checked(h, e)
  PROVE  Evaluations!EvaluationInv'
<1> DEFINE me == handlers[h]
<1>1. /\ rows' = rows /\ runs' = runs /\ fresh' = fresh /\ answered' = answered /\ erased' = erased /\ behind' = behind
      /\ lost' = lost /\ schema' = schema /\ outages' = outages /\ Evaluations!TypeOK
      /\ me.step = "check"
      /\ lost \subseteq Evaluation /\ schema \in BOOLEAN /\ outages \in 0 .. MaxFaults
  BY DEF Evaluations!Checked, Evaluations!EvaluationInv, Evaluations!TypeOK
<1>2. me \in Evaluations!Begun /\ Evaluations!OwnStart(me) /\ Carries(me) = {me.id}
  <2>1. me \in Evaluations!Begun
    BY <1>1, StatesAreTyped, StepsOfStates DEF Evaluations!Starting
  <2> QED BY <2>1, OwnStarts DEF Evaluations!EvaluationInv, Evaluations!RequestsAreOwn, Evaluations!OwnState
<1>3. \A x \in runs : x[1] # me.id
  BY <1>1, <1>2 DEF Evaluations!OwnStart
<1>4. ASSUME NEW next \in Evaluations!State, handlers' = [handlers EXCEPT ![h] = next], Evaluations!OwnState(next),
             Carries(next) \subseteq Carries(me)
      PROVE  Evaluations!EvaluationInv'
  <2> HIDE DEF Carries
  <2> QED BY <1>1, <1>3, <1>4, RequestsMove
<1>5. CASE handlers' = [handlers EXCEPT ![h] = [me EXCEPT !.step = "submit"]]
  <2>1. /\ [me EXCEPT !.step = "submit"] \in Evaluations!Begun /\ Evaluations!OwnStart([me EXCEPT !.step = "submit"])
        /\ [me EXCEPT !.step = "submit"].id = me.id
    BY <1>2, <1>3, StartsGoOn DEF Evaluations!OwnStart, Evaluations!Starting
  <2> QED BY <1>2, <1>4, <1>5, <2>1, OwnStarts
<1>6. CASE handlers' = [handlers EXCEPT ![h] = Evaluations!Idle]
  BY <1>4, <1>6, IdleOwnsNothing, StatesAreApart DEF Carries
<1> QED BY <1>5, <1>6 DEF Evaluations!Checked, Evaluations!Go, Evaluations!Return

(* Whoever is idle carries nothing.                                          *)
LEMMA IdleCarriesNothing ==
  ASSUME NEW h \in Handler, handlers[h] = Evaluations!Idle
  PROVE  Carries(handlers[h]) = {} /\ handlers[h] \notin Evaluations!Begun
BY StatesAreApart DEF Carries

LEMMA EvaluationsAreLookedAt ==
  ASSUME Evaluations!EvaluationInv, NEW h \in Handler, NEW e \in Evaluation, Evaluations!Look(h, e)
  PROVE  Evaluations!EvaluationInv'
<1> DEFINE next == [step |-> "settle", id |-> e, then |-> Evaluations!Idle]
<1>1. /\ rows' = rows /\ runs' = runs /\ fresh' = fresh /\ answered' = answered /\ erased' = erased /\ behind' = behind
      /\ lost' = lost /\ schema' = schema /\ outages' = outages /\ Evaluations!TypeOK
      /\ handlers[h] = Evaluations!Idle /\ e \in Evaluations!Rows
      /\ handlers' = [handlers EXCEPT ![h] = next]
      /\ lost \subseteq Evaluation /\ schema \in BOOLEAN /\ outages \in 0 .. MaxFaults
  BY DEF Evaluations!Look, Evaluations!Go, Evaluations!EvaluationInv, Evaluations!TypeOK, Evaluations!Unfinished
<1>2. next \in Evaluations!Judging /\ next.id = e /\ next.then = Evaluations!Idle
  BY DEF Evaluations!Judging
<1> HIDE DEF next
<1>3. next \in Evaluations!State /\ Evaluations!OwnState(next) /\ Carries(next) = {}
  BY <1>1, <1>2, OwnJudgements
<1> QED BY <1>1, <1>3, IdleCarriesNothing, RequestsMove

LEMMA EvaluationsAreScored ==
  ASSUME Evaluations!EvaluationInv, NEW h \in Handler, Evaluations!Score(h) PROVE Evaluations!EvaluationInv'
<1> DEFINE me == handlers[h]
<1>1. /\ rows' = rows /\ runs' = runs /\ fresh' = fresh /\ answered' = answered /\ erased' = erased /\ behind' = behind
      /\ lost' = lost /\ schema' = schema /\ outages' = outages /\ Evaluations!TypeOK
      /\ me \in Evaluations!Judging
      /\ lost \subseteq Evaluation /\ schema \in BOOLEAN /\ outages \in 0 .. MaxFaults
  BY StatesAreTyped, StepsOfStates DEF Evaluations!Score, Evaluations!EvaluationInv, Evaluations!TypeOK
<1>2. /\ me.then \in Evaluations!State /\ Evaluations!OwnState(me.then) /\ Carries(me.then) = Carries(me)
      /\ me.id \in Evaluations!Rows /\ me \notin Evaluations!Begun /\ me.then \in {Evaluations!Idle} \union Evaluations!Begun
      /\ me.then # Evaluations!Idle => me.then.step = "check" /\ Evaluations!OwnStart(me.then)
      /\ me.id \in Evaluation
  BY <1>1, JudgesReturn DEF Evaluations!EvaluationInv, Evaluations!RequestsAreOwn, Evaluations!OwnState, Evaluations!Rows
<1>3. ASSUME NEW next \in Evaluations!State, handlers' = [handlers EXCEPT ![h] = next], Evaluations!OwnState(next),
             Carries(next) \subseteq Carries(me)
      PROVE  Evaluations!EvaluationInv'
  <2> HIDE DEF Carries
  <2> QED BY <1>1, <1>2, <1>3, RequestsMove
<1>4. CASE handlers' = [handlers EXCEPT ![h] = me.then]
  BY <1>2, <1>3, <1>4
<1>5. CASE handlers' = [handlers EXCEPT ![h] = [step |-> "fail", id |-> me.id, then |-> me.then]]
  <2> DEFINE next == [step |-> "fail", id |-> me.id, then |-> me.then]
  <2>1. next \in Evaluations!Judging /\ next.id = me.id /\ next.then = me.then
    BY <1>2 DEF Evaluations!Judging
  <2>2. Carries(me) = IF me.then # Evaluations!Idle THEN {me.then.id} ELSE {}
    BY <1>1, <1>2 DEF Carries
  <2> HIDE DEF next
  <2>3. next \in Evaluations!State /\ Evaluations!OwnState(next) /\ Carries(next) \subseteq Carries(me)
    BY <1>2, <2>1, <2>2, OwnJudgements
  <2>4. handlers' = [handlers EXCEPT ![h] = next]
    BY <1>5 DEF next
  <2> QED BY <1>3, <2>3, <2>4
<1>6. CASE handlers' = [handlers EXCEPT ![h] = [step |-> "write", id |-> me.id, then |-> me.then, report |-> rows[me.id].docs]]
  <2> DEFINE next == [step |-> "write", id |-> me.id, then |-> me.then, report |-> rows[me.id].docs]
  <2>1. rows[me.id].docs \in SUBSET SourceDocument
    BY <1>1, <1>2 DEF Evaluations!TypeOK, Evaluations!Row, Evaluations!Rows
  <2>2. next \in Evaluations!Writing /\ next.id = me.id /\ next.then = me.then /\ next.report = rows[me.id].docs
    BY <1>2, <2>1 DEF Evaluations!Writing
  <2>3. Carries(me) = IF me.then # Evaluations!Idle THEN {me.then.id} ELSE {}
    BY <1>1, <1>2 DEF Carries
  <2> HIDE DEF next
  <2>4. next \in Evaluations!State /\ Evaluations!OwnState(next) /\ Carries(next) \subseteq Carries(me)
    BY <1>2, <2>2, <2>3, StatesAreApart DEF Carries, Evaluations!OwnState
  <2>5. handlers' = [handlers EXCEPT ![h] = next]
    BY <1>6 DEF next
  <2> QED BY <1>3, <2>4, <2>5
<1> QED BY <1>4, <1>5, <1>6 DEF Evaluations!Score, Evaluations!Go

LEMMA StatementsFail ==
  ASSUME Evaluations!EvaluationInv, NEW h \in Handler, Evaluations!Outage(h) PROVE Evaluations!EvaluationInv'
<1> DEFINE me == handlers[h]
<1>1. /\ rows' = rows /\ runs' = runs /\ fresh' = fresh /\ answered' = answered /\ erased' = erased /\ behind' = behind
      /\ schema' = schema /\ outages' \in 0 .. MaxFaults /\ Evaluations!TypeOK
      /\ me # Evaluations!Idle /\ me.step \notin Evaluations!Erasing /\ me \in Evaluations!State
      /\ lost \subseteq Evaluation /\ schema \in BOOLEAN
  BY StatesAreTyped DEF Evaluations!Outage, Evaluations!EvaluationInv, Evaluations!TypeOK
<1>2. CASE me.step \in Evaluations!Scoring
  <2>1. me \in Evaluations!Judging \union Evaluations!Writing /\ handlers' = [handlers EXCEPT ![h] = me.then] /\ lost' = lost
    BY <1>1, <1>2, StepsOfStates DEF Evaluations!Outage, Evaluations!Go
  <2> QED BY <1>1, <2>1, JudgesReturn, RequestsMove
<1>3. CASE me.step \notin Evaluations!Scoring
  <2>1. me \in Evaluations!Begun
    BY <1>1, <1>3, StepsOfStates DEF Evaluations!State
  <2>2. handlers' = [handlers EXCEPT ![h] = Evaluations!Idle] /\ lost' = lost \union {me.id} /\ me.id \in Evaluation
    BY <1>3, <2>1 DEF Evaluations!Outage, Evaluations!Return, Evaluations!Go, Evaluations!Begun
  <2>3. Carries(Evaluations!Idle) = {}
    BY StatesAreApart DEF Carries
  <2> QED BY <1>1, <2>2, <2>3, IdleOwnsNothing, RequestsMove
<1> QED BY <1>2, <1>3

(* A row that is settled or stripped.                                        *)
LEMMA RowsChange ==
  ASSUME Evaluations!EvaluationInv, NEW h \in Handler, handlers[h] \notin Evaluations!Begun,
         NEW next \in {Evaluations!Idle} \union Evaluations!Begun \union Evaluations!Leaving,
         Evaluations!OwnState(next), Carries(next) \subseteq Carries(handlers[h]),
         NEW e \in Evaluations!Rows, NEW new \in Evaluations!Row,
         new.docs \subseteq rows[e].docs, new.report \subseteq new.docs,
         \/ /\ new.forgotten = rows[e].forgotten /\ new.docs = rows[e].docs
            /\ rows[e].state = "unfinished" /\ new.state # "unfinished"
         \/ new.forgotten > rows[e].forgotten /\ new.state = rows[e].state,
         handlers' = [handlers EXCEPT ![h] = next], rows' = [rows EXCEPT ![e] = new],
         runs' = runs, fresh' = fresh, answered' = answered, erased' = erased, behind' = behind,
         lost' = lost, schema' = schema, outages' = outages
  PROVE  Evaluations!EvaluationInv'
<1>1. Evaluations!TypeOK /\ e \in Evaluation /\ next \in Evaluations!State /\ new # None
  BY DEF Evaluations!EvaluationInv, Evaluations!Rows, Evaluations!State
<1>2. Evaluations!TypeOK'
  BY <1>1 DEF Evaluations!TypeOK
<1>3. /\ \A g \in Handler : handlers'[g] = IF g = h THEN next ELSE handlers[g]
      /\ \A i \in Evaluation : rows'[i] = IF i = e THEN new ELSE rows[i]
  BY <1>1 DEF Evaluations!TypeOK
<1>4. Evaluations!Rows' = Evaluations!Rows
  BY <1>1, <1>3 DEF Evaluations!Rows
<1>5. \A i \in Evaluations!Rows : i \in Evaluation /\ rows[i] \in Evaluations!Row
  BY <1>1 DEF Evaluations!Rows, Evaluations!TypeOK
<1>6. ASSUME NEW g \in Handler
      PROVE  /\ Evaluations!OwnStart(handlers'[g]) => Evaluations!OwnStart(handlers[g])'
             /\ Evaluations!OwnStart(handlers'[g].then) => Evaluations!OwnStart(handlers[g].then)'
  BY <1>4 DEF Evaluations!OwnStart
<1>7. ASSUME NEW g \in Handler PROVE Evaluations!OwnState(handlers[g])'
  <2>1. CASE g = h
    <3>1. Evaluations!OwnState(next) /\ next \notin Evaluations!Judging \union Evaluations!Writing \union Evaluations!Taking
          /\ handlers'[g] = next
      BY <1>3, <2>1, StatesAreApart, StepsOfStates
    <3>2. /\ next \in Evaluations!Begun => Evaluations!OwnStart(next)
          /\ next \in Evaluations!Leaving /\ next.step = "forget" => next.doc \notin answered'
      BY <3>1 DEF Evaluations!OwnState
    <3> QED BY <1>6, <3>1, <3>2 DEF Evaluations!OwnState
  <2>2. CASE g # h
    <3> DEFINE s == handlers[g]
    <3>1. Evaluations!OwnState(s) /\ s \in Evaluations!State /\ handlers'[g] = s
      BY <1>1, <1>3, <2>2 DEF Evaluations!EvaluationInv, Evaluations!RequestsAreOwn, Evaluations!TypeOK
    <3> HIDE DEF s
    <3>2. s \in Evaluations!Begun => Evaluations!OwnStart(s)
      BY <3>1 DEF Evaluations!OwnState
    <3>3. s \in Evaluations!Judging \union Evaluations!Writing =>
            s.id \in Evaluations!Rows' /\ (s.then # Evaluations!Idle => s.then.step = "check" /\ Evaluations!OwnStart(s.then))
      BY <1>4, <3>1 DEF Evaluations!OwnState
    <3>4. s \in Evaluations!Writing /\ s.id \in Evaluations!Unfinished' => rows'[s.id].docs \subseteq s.report
      <4>1. s \in Evaluations!Writing /\ s.id \in Evaluations!Unfinished' => s.id \in Evaluations!Unfinished
        BY <1>3, <1>4, <1>5 DEF Evaluations!Unfinished
      <4> QED BY <1>3, <1>5, <3>1, <4>1 DEF Evaluations!OwnState, Evaluations!Unfinished
    <3>5. s \in Evaluations!Taking => s.doc \notin answered' /\ s.id \in Evaluations!Rows'
      BY <1>4, <3>1 DEF Evaluations!OwnState
    <3>6. s \in Evaluations!Leaving /\ s.step = "forget" => s.doc \notin answered'
      BY <3>1 DEF Evaluations!OwnState
    <3>7. ASSUME s \in Evaluations!Taking
          PROVE  LET row == rows'[s.id] IN
                 /\ row.forgotten >= s.read.forgotten
                 /\ row.forgotten = s.read.forgotten =>
                      /\ row.docs = s.read.docs
                      /\ row.state = "unfinished" \/ s.read.state # "unfinished" =>
                           row.report = s.read.report /\ (row.state = "unfinished") = (s.read.state = "unfinished")
      <4>1. Evaluations!AsRead(s) /\ s.id \in Evaluations!Rows /\ s.read \in Evaluations!Row
        BY <3>1, <3>7 DEF Evaluations!OwnState, Evaluations!Taking
      <4>2. /\ rows[s.id].forgotten \in Nat /\ new.forgotten \in Nat /\ s.read.forgotten \in Nat
        BY <1>5, <4>1 DEF Evaluations!Row
      <4>3. CASE s.id # e
        BY <1>3, <1>5, <4>1, <4>3 DEF Evaluations!AsRead
      <4>4. CASE s.id = e
        <5>1. rows'[s.id] = new
          BY <1>3, <1>5, <4>1, <4>4
        <5> QED BY <4>1, <4>2, <4>4, <5>1 DEF Evaluations!AsRead
      <4> QED BY <4>3, <4>4
    <3>8. s \in Evaluations!Taking => Evaluations!AsRead(handlers[g])'
      BY <3>1, <3>7 DEF Evaluations!AsRead
    <3> QED BY <1>6, <3>1, <3>2, <3>3, <3>4, <3>5, <3>6, <3>8 DEF Evaluations!OwnState
  <2> QED BY <2>1, <2>2
<1>8. Evaluations!RequestsAreOwn'
  <2>1. \A g, i \in Handler : Carries(handlers[g]) \intersect Carries(handlers[i]) # {} => g = i
    BY <1>1, StartsAreCarried DEF Evaluations!EvaluationInv, Evaluations!RequestsAreOwn
  <2>2. \A g, i \in Handler : Carries(handlers'[g]) \intersect Carries(handlers'[i]) # {} => g = i
    <3> HIDE DEF Carries
    <3> QED BY <1>3, <2>1
  <2> QED BY <1>2, <1>7, <2>2, StartsAreCarriedAfter DEF Evaluations!RequestsAreOwn
<1>9. Evaluations!RowsAreSound'
  BY <1>3, <1>4, <1>5 DEF Evaluations!EvaluationInv, Evaluations!RowsAreSound
<1>10. Evaluations!ErasedDocumentsAreForgotten'
  BY <1>3, <1>4, <1>5 DEF Evaluations!EvaluationInv, Evaluations!ErasedDocumentsAreForgotten
<1>11. Evaluations!RunsAreAccountedFor'
  <2>1. handlers[h].step \notin Evaluations!Starting
    BY <1>1, StatesAreTyped, StepsOfStates
  <2> SUFFICES ASSUME NEW x \in runs
               PROVE  x[1] \in Evaluations!Rows' \/ x[1] \in lost' \/ \E g \in Handler : handlers'[g].step \in Evaluations!Starting /\ handlers'[g].id = x[1]
    BY DEF Evaluations!RunsAreAccountedFor
  <2> QED BY <1>3, <1>4, <2>1 DEF Evaluations!EvaluationInv, Evaluations!RunsAreAccountedFor
<1> QED BY <1>2, <1>8, <1>9, <1>10, <1>11 DEF Evaluations!EvaluationInv

LEMMA ReportsAreWritten ==
  ASSUME Evaluations!EvaluationInv, NEW h \in Handler, Evaluations!Settle(h) PROVE Evaluations!EvaluationInv'
<1> DEFINE me == handlers[h]
<1>1. /\ runs' = runs /\ fresh' = fresh /\ answered' = answered /\ erased' = erased /\ behind' = behind
      /\ lost' = lost /\ schema' = schema /\ outages' = outages /\ Evaluations!TypeOK
      /\ me \in Evaluations!Writing
      /\ lost \subseteq Evaluation /\ schema \in BOOLEAN /\ outages \in 0 .. MaxFaults
      /\ handlers' = [handlers EXCEPT ![h] = me.then]
  BY StatesAreTyped, StepsOfStates DEF Evaluations!Settle, Evaluations!EvaluationInv, Evaluations!TypeOK, Evaluations!Go
<1>2. /\ me.then \in {Evaluations!Idle} \union Evaluations!Begun /\ me.then \in Evaluations!State /\ Evaluations!OwnState(me.then)
      /\ Carries(me.then) = Carries(me) /\ me.id \in Evaluations!Rows /\ me \notin Evaluations!Begun
      /\ me.id \in Evaluation
  BY <1>1, JudgesReturn DEF Evaluations!Rows
<1>3. CASE Evaluations!Settleable(me.id) /\ Evaluations!SameLength(me.id, me.report)
  <2> DEFINE new == [rows[me.id] EXCEPT !.state = "scored", !.report = me.report]
  <2>1. rows' = [rows EXCEPT ![me.id] = new]
    BY <1>1, <1>2, <1>3 DEF Evaluations!Settle, Evaluations!TypeOK
  <2>2. rows[me.id] \in Evaluations!Row /\ me.report \in SUBSET SourceDocument
    BY <1>1, <1>2 DEF Evaluations!TypeOK, Evaluations!Rows, Evaluations!Writing
  <2>3. /\ new \in Evaluations!Row /\ new.docs = rows[me.id].docs /\ new.report = me.report /\ new.state = "scored"
        /\ new.forgotten = rows[me.id].forgotten
    BY <2>2 DEF Evaluations!Row
  <2>4. me.report = rows[me.id].docs
    <3>1. me.id \in Evaluations!Unfinished /\ Cardinality(rows[me.id].docs) = Cardinality(me.report)
      BY <1>3, EqualSizes DEF Evaluations!Settleable, Evaluations!SameLength
    <3>2. rows[me.id].docs \in SUBSET me.report
      BY <1>1, <3>1 DEF Evaluations!EvaluationInv, Evaluations!RequestsAreOwn, Evaluations!OwnState
    <3>3. IsFiniteSet(me.report)
      BY <2>2, FS_Subset
    <3> QED BY <3>1, <3>2, <3>3, FS_Subset
  <2>5. rows[me.id].state = "unfinished"
    BY <1>3 DEF Evaluations!Settleable, Evaluations!Unfinished
  <2> HIDE DEF new
  <2> QED BY <1>1, <1>2, <2>1, <2>3, <2>4, <2>5, RowsChange
<1>4. CASE ~(Evaluations!Settleable(me.id) /\ Evaluations!SameLength(me.id, me.report))
  <2>1. rows' = rows
    BY <1>4 DEF Evaluations!Settle
  <2> QED BY <1>1, <1>2, <2>1, RequestsMove
<1> QED BY <1>3, <1>4

LEMMA FailuresAreWritten ==
  ASSUME Evaluations!EvaluationInv, NEW h \in Handler, Evaluations!Fail(h) PROVE Evaluations!EvaluationInv'
<1> DEFINE me == handlers[h]
<1>1. /\ runs' = runs /\ fresh' = fresh /\ answered' = answered /\ erased' = erased /\ behind' = behind
      /\ lost' = lost /\ schema' = schema /\ outages' = outages /\ Evaluations!TypeOK
      /\ me \in Evaluations!Judging
      /\ lost \subseteq Evaluation /\ schema \in BOOLEAN /\ outages \in 0 .. MaxFaults
      /\ handlers' = [handlers EXCEPT ![h] = me.then]
  BY StatesAreTyped, StepsOfStates DEF Evaluations!Fail, Evaluations!EvaluationInv, Evaluations!TypeOK, Evaluations!Go
<1>2. /\ me.then \in {Evaluations!Idle} \union Evaluations!Begun /\ me.then \in Evaluations!State /\ Evaluations!OwnState(me.then)
      /\ Carries(me.then) = Carries(me) /\ me.id \in Evaluations!Rows /\ me \notin Evaluations!Begun
      /\ me.id \in Evaluation
  BY <1>1, JudgesReturn DEF Evaluations!Rows
<1>3. CASE Evaluations!Settleable(me.id)
  <2> DEFINE new == [rows[me.id] EXCEPT !.state = "failed"]
  <2>1. rows' = [rows EXCEPT ![me.id] = new]
    BY <1>1, <1>2, <1>3 DEF Evaluations!Fail, Evaluations!TypeOK
  <2>2. rows[me.id] \in Evaluations!Row /\ rows[me.id].report \subseteq rows[me.id].docs
    BY <1>1, <1>2 DEF Evaluations!TypeOK, Evaluations!Rows, Evaluations!EvaluationInv, Evaluations!RowsAreSound
  <2>3. /\ new \in Evaluations!Row /\ new.docs = rows[me.id].docs /\ new.report = rows[me.id].report /\ new.state = "failed"
        /\ new.forgotten = rows[me.id].forgotten
    BY <2>2 DEF Evaluations!Row
  <2>4. rows[me.id].state = "unfinished"
    BY <1>3 DEF Evaluations!Settleable, Evaluations!Unfinished
  <2> HIDE DEF new
  <2> QED BY <1>1, <1>2, <2>1, <2>2, <2>3, <2>4, RowsChange
<1>4. CASE ~Evaluations!Settleable(me.id)
  <2>1. rows' = rows
    BY <1>4 DEF Evaluations!Fail
  <2> QED BY <1>1, <1>2, <2>1, RequestsMove
<1> QED BY <1>3, <1>4

(* What a strip writes is what the row holds, less the document.             *)
LEMMA StripsAreCurrent ==
  ASSUME Evaluations!EvaluationInv, NEW h \in Handler, Evaluations!Strip(h), Evaluations!Unchanged(handlers[h].id, handlers[h].read)
  PROVE  LET me == handlers[h]
             new == [docs |-> rows[me.id].docs \ {me.doc}, state |-> rows[me.id].state,
                     report |-> rows[me.id].report \ {me.doc}, forgotten |-> rows[me.id].forgotten + 1] IN
         /\ me \in Evaluations!Taking /\ me.id \in Evaluations!Rows /\ rows[me.id] \in Evaluations!Row
         /\ rows' = [rows EXCEPT ![me.id] = new]
<1> DEFINE me == handlers[h]
<1>1. me \in Evaluations!Taking /\ me \in Evaluations!State
  BY StatesAreTyped, StepsOfStates DEF Evaluations!Strip, Evaluations!EvaluationInv
<1>2. me.id \in Evaluations!Rows /\ Evaluations!AsRead(me) /\ me.read \in Evaluations!Row
  BY <1>1 DEF Evaluations!EvaluationInv, Evaluations!RequestsAreOwn, Evaluations!OwnState, Evaluations!Taking
<1>3. rows[me.id] \in Evaluations!Row /\ rows \in [Evaluation -> Evaluations!Row \union {None}] /\ me.id \in Evaluation
  BY <1>2 DEF Evaluations!EvaluationInv, Evaluations!TypeOK, Evaluations!Rows
<1>4. rows[me.id].forgotten = me.read.forgotten /\ (rows[me.id].state = "unfinished") = (me.read.state = "unfinished")
  BY DEF Evaluations!Unchanged
<1>5. rows[me.id].docs = me.read.docs /\ rows[me.id].report = me.read.report
  BY <1>2, <1>4 DEF Evaluations!AsRead
<1>6. rows' = [rows EXCEPT ![me.id] = [docs |-> me.read.docs \ {me.doc}, state |-> rows[me.id].state,
                                       report |-> me.read.report \ {me.doc}, forgotten |-> me.read.forgotten + 1]]
  BY <1>3 DEF Evaluations!Strip
<1> QED BY <1>1, <1>2, <1>3, <1>4, <1>5, <1>6

LEMMA DocumentsAreStripped ==
  ASSUME Evaluations!EvaluationInv, NEW h \in Handler, Evaluations!Strip(h) PROVE Evaluations!EvaluationInv'
<1> DEFINE me == handlers[h]
           next == [step |-> "forget", doc |-> me.doc]
<1>1. /\ runs' = runs /\ fresh' = fresh /\ answered' = answered /\ erased' = erased /\ behind' = behind
      /\ lost' = lost /\ schema' = schema /\ outages' = outages /\ Evaluations!TypeOK
      /\ me \in Evaluations!Taking
      /\ lost \subseteq Evaluation /\ schema \in BOOLEAN /\ outages \in 0 .. MaxFaults
      /\ handlers' = [handlers EXCEPT ![h] = next]
  BY StatesAreTyped, StepsOfStates DEF Evaluations!Strip, Evaluations!EvaluationInv, Evaluations!TypeOK, Evaluations!Go
<1>2. me.doc \notin answered /\ me.doc \in SourceDocument
  BY <1>1 DEF Evaluations!EvaluationInv, Evaluations!RequestsAreOwn, Evaluations!OwnState, Evaluations!Taking
<1>3. next \in Evaluations!Leaving /\ next.doc = me.doc
  BY <1>2 DEF Evaluations!Leaving
<1> HIDE DEF next
<1>4. next \in Evaluations!State /\ Evaluations!OwnState(next) /\ Carries(next) = {} /\ me \notin Evaluations!Begun
  BY <1>1, <1>2, <1>3, StatesAreApart DEF Evaluations!OwnState, Carries
<1>5. CASE Evaluations!Unchanged(me.id, me.read)
  <2> DEFINE new == [docs |-> rows[me.id].docs \ {me.doc}, state |-> rows[me.id].state,
                     report |-> rows[me.id].report \ {me.doc}, forgotten |-> rows[me.id].forgotten + 1]
  <2>1. me.id \in Evaluations!Rows /\ rows[me.id] \in Evaluations!Row /\ rows' = [rows EXCEPT ![me.id] = new]
    BY <1>5, StripsAreCurrent
  <2>2. rows[me.id].report \subseteq rows[me.id].docs
    BY <2>1 DEF Evaluations!EvaluationInv, Evaluations!RowsAreSound
  <2>3. /\ new \in Evaluations!Row /\ new.docs \subseteq rows[me.id].docs /\ new.report \subseteq new.docs
        /\ new.forgotten > rows[me.id].forgotten /\ new.state = rows[me.id].state
    BY <2>1, <2>2 DEF Evaluations!Row
  <2> HIDE DEF new
  <2> QED BY <1>1, <1>3, <1>4, <2>1, <2>3, RowsChange
<1>6. CASE ~Evaluations!Unchanged(me.id, me.read)
  <2>1. rows' = rows
    BY <1>6 DEF Evaluations!Strip
  <2> QED BY <1>1, <1>4, <2>1, RequestsMove
<1> QED BY <1>5, <1>6

LEMMA EvaluationTypes ==
  ASSUME Evaluations!EvaluationInv
  PROVE  /\ handlers \in [Handler -> Evaluations!State] /\ lost \subseteq Evaluation /\ schema \in BOOLEAN
         /\ outages \in 0 .. MaxFaults
         /\ \A g \in Handler : Evaluations!OwnState(handlers[g]) /\ handlers[g] \in Evaluations!State
         /\ \A g \in Handler : handlers[g] = Evaluations!Idle => Carries(handlers[g]) = {} /\ handlers[g] \notin Evaluations!Begun
BY IdleCarriesNothing DEF Evaluations!EvaluationInv, Evaluations!TypeOK, Evaluations!RequestsAreOwn

LEMMA RunsEnd ==
  ASSUME Evaluations!EvaluationInv, (\E x \in runs : Evaluations!EndRun(x)) \/ Evaluations!RemoveSchema
  PROVE  Evaluations!EvaluationInv'
<1>1. /\ handlers' = handlers /\ rows' = rows /\ runs' \subseteq runs /\ fresh' = fresh /\ answered' = answered
      /\ erased' = erased /\ behind' = behind /\ lost' = lost /\ schema' \in BOOLEAN /\ outages' = outages
  BY EvaluationTypes DEF Evaluations!EndRun, Evaluations!RemoveSchema
<1>2. \A x \in runs' : \A g \in Handler : handlers[g] \in Evaluations!Begun /\ x[1] = handlers[g].id =>
        (handlers'[g] \in Evaluations!Begun /\ handlers'[g].id = x[1]) \/ x[1] \in lost'
  BY <1>1
<1>3. \A g \in Handler : Evaluations!OwnState(handlers'[g]) /\ Carries(handlers'[g]) \subseteq Carries(handlers[g])
  <2> HIDE DEF Carries
  <2> QED BY <1>1, EvaluationTypes
<1> HIDE DEF Carries
<1> QED BY <1>1, <1>2, <1>3, EvaluationTypes, AllMove

LEMMA ErasuresBegin ==
  ASSUME Evaluations!EvaluationInv, NEW h \in Handler, NEW d \in SourceDocument, Evaluations!Erase(h, d)
  PROVE  Evaluations!EvaluationInv'
<1> DEFINE next == [step |-> "rows", doc |-> d]
<1>1. /\ handlers' = [handlers EXCEPT ![h] = next] /\ rows' = rows /\ runs' \subseteq runs /\ fresh' = fresh
      /\ answered' = answered /\ erased' = erased /\ behind' = behind /\ lost' = lost /\ schema' = schema
      /\ outages' = outages /\ handlers[h] = Evaluations!Idle
  BY DEF Evaluations!Erase, Evaluations!Go
<1>2. next \in Evaluations!Leaving /\ next.step = "rows"
  BY DEF Evaluations!Leaving
<1> HIDE DEF next
<1>3. next \in Evaluations!State /\ Evaluations!OwnState(next) /\ Carries(next) = {}
  BY <1>2, StatesAreApart DEF Evaluations!OwnState, Carries
<1> QED BY <1>1, <1>3, EvaluationTypes, RequestsMove

LEMMA ChecksAreDeleted ==
  ASSUME Evaluations!EvaluationInv, NEW h \in Handler, Evaluations!DeleteChecks(h)
  PROVE  Evaluations!EvaluationInv'
<1> DEFINE me == handlers[h]
           next == [me EXCEPT !.step = "forget"]
<1>1. /\ handlers' = [handlers EXCEPT ![h] = next] /\ rows' = rows /\ runs' = runs /\ fresh' = fresh
      /\ answered' = answered \ {me.doc} /\ erased' = erased /\ behind' = behind /\ lost' = lost /\ schema' = schema
      /\ outages' = outages /\ me \in Evaluations!Leaving
  BY StatesAreTyped, StepsOfStates DEF Evaluations!DeleteChecks, Evaluations!Go, Evaluations!EvaluationInv
<1>2. next \in Evaluations!Leaving /\ next.doc = me.doc
  BY <1>1 DEF Evaluations!Leaving
<1>3. me \notin Evaluations!Begun
  BY <1>1, StatesAreApart
<1> HIDE DEF next
<1>4. next \in Evaluations!State /\ Carries(next) = {}
  BY <1>2, StatesAreApart DEF Carries
<1>5. ASSUME NEW g \in Handler
      PROVE  /\ handlers'[g] = IF g = h THEN next ELSE handlers[g]
  BY <1>1, EvaluationTypes
<1>6. handlers' \in [Handler -> Evaluations!State]
  BY <1>1, <1>4, EvaluationTypes
<1>7. Evaluations!TypeOK /\ Evaluations!TypeOK'
  BY <1>1, <1>6 DEF Evaluations!EvaluationInv, Evaluations!TypeOK
<1>8. ASSUME NEW g \in Handler PROVE Evaluations!OwnState(handlers[g])'
  <2>1. CASE g = h
    BY <1>1, <1>2, <1>5, <2>1, StatesAreApart DEF Evaluations!OwnState
  <2>2. CASE g # h
    <3>1. Evaluations!OwnState(handlers'[g])
      BY <1>5, <2>2, EvaluationTypes
    <3> QED BY <1>1, <3>1 DEF Evaluations!OwnState, Evaluations!OwnStart, Evaluations!AsRead, Evaluations!Rows, Evaluations!Unfinished
  <2> QED BY <2>1, <2>2
<1>9. \A g, i \in Handler : Carries(handlers'[g]) \intersect Carries(handlers'[i]) # {} => g = i
  <2>1. \A g, i \in Handler : Carries(handlers[g]) \intersect Carries(handlers[i]) # {} => g = i
    BY <1>7, StartsAreCarried DEF Evaluations!EvaluationInv, Evaluations!RequestsAreOwn
  <2> HIDE DEF Carries
  <2> QED BY <1>4, <1>5, <2>1
<1>10. Evaluations!RequestsAreOwn'
  BY <1>7, <1>8, <1>9, StartsAreCarriedAfter DEF Evaluations!RequestsAreOwn
<1>11. Evaluations!RowsAreSound' /\ Evaluations!ErasedDocumentsAreForgotten'
  BY <1>1 DEF Evaluations!EvaluationInv, Evaluations!RowsAreSound, Evaluations!ErasedDocumentsAreForgotten, Evaluations!Rows
<1>12. Evaluations!RunsAreAccountedFor'
  <2>1. handlers[h].step \notin Evaluations!Starting
    BY <1>3, <1>7, StatesAreTyped, StepsOfStates
  <2> QED BY <1>1, <1>5, <2>1 DEF Evaluations!EvaluationInv, Evaluations!RunsAreAccountedFor, Evaluations!Rows
<1> QED BY <1>7, <1>10, <1>11, <1>12 DEF Evaluations!EvaluationInv

(* A document is checked while nobody erases it.                             *)
LEMMA DocumentsAreChecked ==
  ASSUME Evaluations!EvaluationInv, NEW d \in SourceDocument, Evaluations!Check(d) PROVE Evaluations!EvaluationInv'
<1>1. /\ handlers' = handlers /\ rows' = rows /\ runs' = runs /\ fresh' = fresh /\ answered' = answered \union {d}
      /\ erased' = erased /\ behind' = behind /\ lost' = lost /\ schema' = schema /\ outages' = outages
      /\ d \notin erased /\ \A g \in Handler : handlers[g].step \in Evaluations!Erasing => handlers[g].doc # d
  BY DEF Evaluations!Check
<1>2. Evaluations!TypeOK'
  BY <1>1 DEF Evaluations!EvaluationInv, Evaluations!TypeOK
<1>3. ASSUME NEW g \in Handler PROVE Evaluations!OwnState(handlers[g])'
  <2>1. Evaluations!OwnState(handlers[g]) /\ handlers[g] \in Evaluations!State
    BY EvaluationTypes
  <2>2. handlers[g] \in Evaluations!Leaving \union Evaluations!Taking => handlers[g].doc # d
    BY <1>1, <2>1, StepsOfStates
  <2> QED BY <1>1, <2>1, <2>2 DEF Evaluations!OwnState, Evaluations!OwnStart, Evaluations!AsRead, Evaluations!Rows, Evaluations!Unfinished
<1>4. Evaluations!RequestsAreOwn'
  BY <1>1, <1>3 DEF Evaluations!EvaluationInv, Evaluations!RequestsAreOwn, Evaluations!Starters, Evaluations!start
<1>5. Evaluations!RowsAreSound' /\ Evaluations!ErasedDocumentsAreForgotten' /\ Evaluations!RunsAreAccountedFor'
  BY <1>1 DEF Evaluations!EvaluationInv, Evaluations!RowsAreSound, Evaluations!ErasedDocumentsAreForgotten, Evaluations!Rows,
     Evaluations!RunsAreAccountedFor
<1> QED BY <1>2, <1>4, <1>5 DEF Evaluations!EvaluationInv

(* An erasure reads a row that holds the document, or ends.                  *)
LEMMA DocumentsAreForgotten ==
  ASSUME Evaluations!EvaluationInv, NEW h \in Handler, Evaluations!Forget(h) PROVE Evaluations!EvaluationInv'
<1> DEFINE me == handlers[h]
<1>1. /\ rows' = rows /\ runs' = runs /\ fresh' = fresh /\ answered' = answered /\ lost' = lost /\ schema' = schema
      /\ outages' = outages /\ Evaluations!TypeOK /\ me \in Evaluations!Leaving /\ me.step = "forget"
  BY StatesAreTyped, StepsOfStates DEF Evaluations!Forget, Evaluations!EvaluationInv
<1>2. me.doc \notin answered /\ me.doc \in SourceDocument /\ me \notin Evaluations!Begun
  BY <1>1, EvaluationTypes, StatesAreApart DEF Evaluations!OwnState, Evaluations!Leaving
<1>3. ASSUME NEW e \in Evaluations!Holders(me.doc), erased' = erased, behind' = behind,
             Evaluations!Go(h, [step |-> "strip", doc |-> me.doc, id |-> e, read |-> rows[e]])
      PROVE  Evaluations!EvaluationInv'
  <2> DEFINE next == [step |-> "strip", doc |-> me.doc, id |-> e, read |-> rows[e]]
  <2>1. e \in Evaluations!Rows /\ e \in Evaluation /\ rows[e] \in Evaluations!Row
    BY <1>1 DEF Evaluations!Holders, Evaluations!Rows, Evaluations!TypeOK
  <2>2. next \in Evaluations!Taking /\ next.id = e /\ next.read = rows[e] /\ next.doc = me.doc
    BY <1>2, <2>1 DEF Evaluations!Taking
  <2>3. handlers' = [handlers EXCEPT ![h] = next]
    BY <1>3 DEF Evaluations!Go
  <2> HIDE DEF next
  <2>4. Evaluations!AsRead(next)
    BY <2>1, <2>2 DEF Evaluations!AsRead, Evaluations!Row
  <2>5. next \in Evaluations!State /\ Evaluations!OwnState(next) /\ Carries(next) = {}
    BY <1>2, <2>1, <2>2, <2>4, StatesAreApart DEF Evaluations!OwnState, Carries
  <2> QED BY <1>1, <1>2, <1>3, <2>3, <2>5, EvaluationTypes, RequestsMove
<1>4. ASSUME Evaluations!Holders(me.doc) = {}, handlers' = [handlers EXCEPT ![h] = Evaluations!Idle],
             erased' = erased \union {me.doc},
             behind' = behind \union {Evaluations!start(g).id : g \in {g \in Evaluations!Starters : me.doc \in Evaluations!start(g).docs}}
      PROVE  Evaluations!EvaluationInv'
  <2>1. \A g \in Handler : handlers'[g] = IF g = h THEN Evaluations!Idle ELSE handlers[g]
    BY <1>4, EvaluationTypes
  <2>2. \A g \in Handler : Carries(handlers'[g]) \subseteq Carries(handlers[g])
    <3>1. Carries(Evaluations!Idle) = {}
      BY StatesAreApart DEF Carries
    <3> HIDE DEF Carries
    <3> QED BY <2>1, <3>1
  <2>3. \A g \in Evaluations!Starters : Evaluations!start(g) \in Evaluations!Begun
    BY <1>1, StatesAreTyped DEF Evaluations!Starters
  <2>4. Evaluations!TypeOK'
    <3>1. behind' \subseteq Evaluation
      BY <1>1, <1>4, <2>3 DEF Evaluations!TypeOK, Evaluations!Begun
    <3>2. handlers' \in [Handler -> Evaluations!State]
      BY <1>4, EvaluationTypes, IdleOwnsNothing
    <3> QED BY <1>1, <1>2, <1>4, <3>1, <3>2 DEF Evaluations!TypeOK
  <2>5. ASSUME NEW g \in Handler, g # h PROVE Evaluations!OwnState(handlers[g])'
    <3>1. /\ Evaluations!OwnState(handlers[g]) /\ handlers'[g] = handlers[g] /\ handlers[g] \in Evaluations!State
          /\ Evaluations!Rows' = Evaluations!Rows
      BY <1>1, <2>1, <2>5, EvaluationTypes DEF Evaluations!Rows
    <3>2. g \in Evaluations!Starters /\ Evaluations!OwnStart(Evaluations!start(g)) =>
            Evaluations!start(g).id \in behind' \/ erased' \intersect Evaluations!start(g).docs = {}
      BY <1>4 DEF Evaluations!OwnStart
    <3>3. handlers[g] \in Evaluations!Begun => Evaluations!OwnStart(handlers[g])'
      <4>1. handlers[g] \in Evaluations!Begun => Evaluations!OwnStart(handlers[g]) /\ g \in Evaluations!Starters /\ Evaluations!start(g) = handlers[g]
        BY <1>1, <3>1, StatesAreTyped DEF Evaluations!OwnState
      <4> QED BY <1>1, <3>1, <3>2, <4>1 DEF Evaluations!OwnStart
    <3>4. handlers[g] \in Evaluations!Judging \union Evaluations!Writing /\ handlers[g].then # Evaluations!Idle =>
            Evaluations!OwnStart(handlers[g].then)'
      <4>1. handlers[g] \in Evaluations!Judging \union Evaluations!Writing /\ handlers[g].then # Evaluations!Idle =>
              Evaluations!OwnStart(handlers[g].then) /\ g \in Evaluations!Starters /\ Evaluations!start(g) = handlers[g].then
        BY <1>1, <3>1, StatesAreTyped DEF Evaluations!OwnState
      <4> QED BY <1>1, <3>1, <3>2, <4>1 DEF Evaluations!OwnStart
    <3> QED BY <1>1, <3>1, <3>3, <3>4 DEF Evaluations!OwnState, Evaluations!AsRead, Evaluations!Unfinished
  <2>6. Evaluations!OwnState(handlers[h])'
    <3>1. handlers'[h] = Evaluations!Idle
      BY <2>1
    <3> QED BY <3>1, StatesAreApart DEF Evaluations!OwnState
  <2>7. \A g, i \in Handler : Carries(handlers'[g]) \intersect Carries(handlers'[i]) # {} => g = i
    <3>1. \A g, i \in Handler : Carries(handlers[g]) \intersect Carries(handlers[i]) # {} => g = i
      BY <1>1, StartsAreCarried DEF Evaluations!EvaluationInv, Evaluations!RequestsAreOwn
    <3> HIDE DEF Carries
    <3> QED BY <2>2, <3>1
  <2>8. Evaluations!RequestsAreOwn'
    BY <2>4, <2>5, <2>6, <2>7, StartsAreCarriedAfter DEF Evaluations!RequestsAreOwn
  <2>9. Evaluations!RowsAreSound'
    BY <1>1, <1>2, <1>4 DEF Evaluations!EvaluationInv, Evaluations!RowsAreSound, Evaluations!Rows
  <2>10. Evaluations!ErasedDocumentsAreForgotten'
    BY <1>1, <1>4 DEF Evaluations!EvaluationInv, Evaluations!RowsAreSound, Evaluations!ErasedDocumentsAreForgotten,
       Evaluations!Rows, Evaluations!Holders
  <2>11. Evaluations!RunsAreAccountedFor'
    <3>1. handlers[h].step \notin Evaluations!Starting
      BY <1>1 DEF Evaluations!Starting
    <3> QED BY <1>1, <2>1, <3>1 DEF Evaluations!EvaluationInv, Evaluations!RunsAreAccountedFor, Evaluations!Rows
  <2> QED BY <2>4, <2>8, <2>9, <2>10, <2>11 DEF Evaluations!EvaluationInv
<1> QED BY <1>3, <1>4 DEF Evaluations!Forget, Evaluations!Return, Evaluations!Go

(* What one start does leaves alone what the others carry.                   *)
LEMMA OthersStand ==
  ASSUME Evaluations!EvaluationInv, NEW h \in Handler, NEW id \in Evaluation,
         \A g \in Handler \ {h} : id \notin Carries(handlers[g]) /\ handlers'[g] = handlers[g],
         \A x \in runs' : x[1] # id => x \in runs,
         fresh' \subseteq fresh, Evaluations!Rows \subseteq Evaluations!Rows',
         Evaluations!Rows' \subseteq Evaluations!Rows \union {id}, \A e \in Evaluations!Rows : rows'[e] = rows[e],
         answered' = answered, erased' = erased, behind' = behind
  PROVE  \A g \in Handler \ {h} : Evaluations!OwnState(handlers[g])'
<1> SUFFICES ASSUME NEW g \in Handler \ {h} PROVE Evaluations!OwnState(handlers[g])'
  OBVIOUS
<1>1. Evaluations!OwnState(handlers[g]) /\ handlers[g] \in Evaluations!State /\ handlers'[g] = handlers[g]
  BY EvaluationTypes
<1>2. handlers[g] \in Evaluations!Begun => Evaluations!OwnStart(handlers[g])'
  <2>1. handlers[g] \in Evaluations!Begun => Evaluations!OwnStart(handlers[g]) /\ handlers[g].id # id
    BY <1>1 DEF Evaluations!OwnState, Carries
  <2> QED BY <1>1, <2>1 DEF Evaluations!OwnStart
<1>3. handlers[g] \in Evaluations!Judging \union Evaluations!Writing /\ handlers[g].then # Evaluations!Idle =>
        Evaluations!OwnStart(handlers[g].then)'
  <2>1. handlers[g] \in Evaluations!Judging \union Evaluations!Writing /\ handlers[g].then # Evaluations!Idle =>
          Evaluations!OwnStart(handlers[g].then) /\ handlers[g].then.id # id
    BY <1>1, StatesAreApart DEF Evaluations!OwnState, Carries
  <2> QED BY <1>1, <2>1 DEF Evaluations!OwnStart
<1>4. handlers[g] \in Evaluations!Writing /\ handlers[g].id \in Evaluations!Unfinished' => rows'[handlers[g].id].docs \subseteq handlers[g].report
  BY <1>1 DEF Evaluations!OwnState, Evaluations!Unfinished
<1>5. handlers[g] \in Evaluations!Taking => Evaluations!AsRead(handlers[g])'
  BY <1>1 DEF Evaluations!OwnState, Evaluations!AsRead
<1> QED BY <1>1, <1>2, <1>3, <1>4, <1>5 DEF Evaluations!OwnState

(* Nobody else carries the identity of a start, or a fresh one.              *)
LEMMA IdentitiesAreOwn ==
  ASSUME Evaluations!EvaluationInv, NEW h \in Handler
  PROVE  /\ \A g \in Handler \ {h} : Carries(handlers[g]) \intersect Carries(handlers[h]) = {}
         /\ \A g \in Handler : Carries(handlers[g]) \intersect (Evaluations!Rows \union fresh) = {}
<1>1. \A g, i \in Handler : Carries(handlers[g]) \intersect Carries(handlers[i]) # {} => g = i
  BY StartsAreCarried DEF Evaluations!EvaluationInv, Evaluations!RequestsAreOwn
<1>2. ASSUME NEW g \in Handler PROVE Carries(handlers[g]) \intersect (Evaluations!Rows \union fresh) = {}
  BY EvaluationTypes DEF Carries, Evaluations!OwnState, Evaluations!OwnStart
<1> HIDE DEF Carries
<1> QED BY <1>1, <1>2

LEMMA StartsBegin ==
  ASSUME Evaluations!EvaluationInv, NEW h \in Handler, NEW e \in Evaluation, Evaluations!Begin(h, e)
  PROVE  Evaluations!EvaluationInv'
<1> DEFINE next == [step |-> "begin", id |-> e, docs |-> answered, todo |-> answered]
<1>1. /\ handlers' = [handlers EXCEPT ![h] = next] /\ rows' = rows /\ runs' = runs /\ fresh' = fresh \ {e} /\ e \in fresh
      /\ answered' = answered /\ erased' = erased /\ behind' = behind /\ lost' = lost /\ schema' = schema
      /\ outages' = outages /\ handlers[h] = Evaluations!Idle /\ Evaluations!Rows' = Evaluations!Rows
      /\ Evaluations!RowsAreSound /\ Evaluations!TypeOK
  BY DEF Evaluations!Begin, Evaluations!Go, Evaluations!Rows, Evaluations!EvaluationInv
<1>2. next \in Evaluations!Begun /\ next.id = e /\ next.docs = answered /\ next.todo = answered /\ next.step = "begin"
  BY <1>1 DEF Evaluations!Begun, Evaluations!Starting, Evaluations!TypeOK
<1> HIDE DEF next
<1>3. \A g \in Handler : handlers'[g] = IF g = h THEN next ELSE handlers[g]
  BY <1>1, EvaluationTypes
<1>4. \A g \in Handler : e \notin Carries(handlers[g])
  BY <1>1, IdentitiesAreOwn
<1>5. Evaluations!TypeOK'
  <2>1. next \in Evaluations!State
    BY <1>2, StatesAreApart
  <2> QED BY <1>1, <2>1 DEF Evaluations!TypeOK
<1>6. \A g \in Handler \ {h} : Evaluations!OwnState(handlers[g])'
  <2> HIDE DEF Carries
  <2> QED BY <1>1, <1>3, <1>4, OthersStand
<1>7. Evaluations!OwnState(handlers[h])'
  <2>1. handlers'[h] = next
    BY <1>3
  <2>2. Evaluations!OwnStart(handlers[h])'
    BY <1>1, <1>2, <2>1 DEF Evaluations!OwnStart, Evaluations!RowsAreSound
  <2> QED BY <1>2, <2>1, <2>2, StatesAreApart DEF Evaluations!OwnState
<1>8. \A g, i \in Handler : Carries(handlers'[g]) \intersect Carries(handlers'[i]) # {} => g = i
  <2>1. Carries(next) = {e}
    BY <1>2 DEF Carries
  <2>2. \A g, i \in Handler : Carries(handlers[g]) \intersect Carries(handlers[i]) # {} => g = i
    BY <1>1, StartsAreCarried DEF Evaluations!EvaluationInv, Evaluations!RequestsAreOwn
  <2> HIDE DEF Carries
  <2> QED BY <1>3, <1>4, <2>1, <2>2
<1>9. Evaluations!RequestsAreOwn'
  BY <1>5, <1>6, <1>7, <1>8, StartsAreCarriedAfter DEF Evaluations!RequestsAreOwn
<1>10. Evaluations!RowsAreSound' /\ Evaluations!ErasedDocumentsAreForgotten'
  BY <1>1 DEF Evaluations!EvaluationInv, Evaluations!RowsAreSound, Evaluations!ErasedDocumentsAreForgotten
<1>11. Evaluations!RunsAreAccountedFor'
  <2>1. handlers[h].step \notin Evaluations!Starting
    BY <1>1 DEF Evaluations!Starting, Evaluations!Idle
  <2> QED BY <1>1, <1>3, <2>1 DEF Evaluations!EvaluationInv, Evaluations!RunsAreAccountedFor
<1> QED BY <1>5, <1>9, <1>10, <1>11 DEF Evaluations!EvaluationInv

LEMMA RunsAreSubmitted ==
  ASSUME Evaluations!EvaluationInv, NEW h \in Handler, NEW d \in SourceDocument, Evaluations!Submit(h, d)
  PROVE  Evaluations!EvaluationInv'
<1> DEFINE me == handlers[h]
           next == [me EXCEPT !.todo = me.todo \ {d}, !.step = IF me.todo = {d} THEN "create" ELSE me.step]
<1>1. /\ rows' = rows /\ fresh' = fresh /\ answered' = answered /\ erased' = erased /\ behind' = behind /\ lost' = lost
      /\ schema' = schema /\ outages' = outages /\ Evaluations!Rows' = Evaluations!Rows
      /\ runs' = runs \union {<<me.id, d>>} /\ me.step = "submit" /\ d \in me.todo
      /\ Evaluations!RowsAreSound /\ Evaluations!TypeOK
  BY DEF Evaluations!Submit, Evaluations!Rows, Evaluations!EvaluationInv
<1>2. me \in Evaluations!Begun /\ Evaluations!OwnStart(me) /\ Carries(me) = {me.id} /\ me.id \in Evaluation
  <2>1. me \in Evaluations!Begun
    BY <1>1, StatesAreTyped, StepsOfStates DEF Evaluations!Starting
  <2> QED BY <2>1, OwnStarts, EvaluationTypes DEF Evaluations!OwnState, Evaluations!Begun
<1>3. /\ next \in Evaluations!Begun /\ next.id = me.id /\ next.docs = me.docs /\ next.todo \subseteq me.todo
      /\ next.step \in {"submit", "create"}
  BY <1>1, <1>2 DEF Evaluations!Begun, Evaluations!Starting
<1>4. handlers' = [handlers EXCEPT ![h] = next]
  BY <1>2 DEF Evaluations!Submit, Evaluations!Go, Evaluations!Begun
<1> HIDE DEF next
<1>5. \A g \in Handler : handlers'[g] = IF g = h THEN next ELSE handlers[g]
  BY <1>4, EvaluationTypes
<1>6. \A g \in Handler \ {h} : me.id \notin Carries(handlers[g])
  BY <1>2, IdentitiesAreOwn
<1>7. Evaluations!TypeOK'
  <2>1. next \in Evaluations!State
    BY <1>3, StatesAreApart
  <2>2. <<me.id, d>> \in Evaluation \X SourceDocument
    BY <1>2
  <2> QED BY <1>1, <1>4, <2>1, <2>2 DEF Evaluations!TypeOK
<1>8. \A g \in Handler \ {h} : Evaluations!OwnState(handlers[g])'
  <2>1. \A x \in runs' : x[1] # me.id => x \in runs
    BY <1>1
  <2> HIDE DEF Carries
  <2> QED BY <1>1, <1>2, <1>5, <1>6, <2>1, OthersStand
<1>9. Evaluations!OwnState(handlers[h])'
  <2>1. handlers'[h] = next
    BY <1>5
  <2>2. \A x \in runs' : x[1] = me.id => x[2] \in me.docs
    BY <1>1, <1>2 DEF Evaluations!OwnStart
  <2>3. Evaluations!OwnStart(handlers[h])'
    BY <1>1, <1>2, <1>3, <2>1, <2>2 DEF Evaluations!OwnStart
  <2> QED BY <1>3, <2>1, <2>3, StatesAreApart DEF Evaluations!OwnState
<1>10. \A g, i \in Handler : Carries(handlers'[g]) \intersect Carries(handlers'[i]) # {} => g = i
  <2>1. Carries(next) = Carries(me)
    BY <1>2, <1>3 DEF Carries
  <2>2. \A g, i \in Handler : Carries(handlers[g]) \intersect Carries(handlers[i]) # {} => g = i
    BY <1>1, StartsAreCarried DEF Evaluations!EvaluationInv, Evaluations!RequestsAreOwn
  <2> HIDE DEF Carries
  <2> QED BY <1>5, <2>1, <2>2
<1>11. Evaluations!RequestsAreOwn'
  BY <1>7, <1>8, <1>9, <1>10, StartsAreCarriedAfter DEF Evaluations!RequestsAreOwn
<1>12. Evaluations!RowsAreSound' /\ Evaluations!ErasedDocumentsAreForgotten'
  BY <1>1, <1>2 DEF Evaluations!EvaluationInv, Evaluations!RowsAreSound, Evaluations!ErasedDocumentsAreForgotten, Evaluations!OwnStart
<1>13. Evaluations!RunsAreAccountedFor'
  <2>1. next.step \in Evaluations!Starting
    BY <1>3 DEF Evaluations!Starting
  <2>2. handlers'[h].step \in Evaluations!Starting /\ handlers'[h].id = me.id
    BY <1>3, <1>5, <2>1
  <2> QED BY <1>1, <1>5, <2>2 DEF Evaluations!EvaluationInv, Evaluations!RunsAreAccountedFor
<1> QED BY <1>7, <1>11, <1>12, <1>13 DEF Evaluations!EvaluationInv

(* A row is written, unless another start won.                               *)
LEMMA RowsAreCreated ==
  ASSUME Evaluations!EvaluationInv, NEW h \in Handler, Evaluations!Create(h) PROVE Evaluations!EvaluationInv'
<1> DEFINE me == handlers[h]
<1>1. /\ runs' = runs /\ fresh' = fresh /\ answered' = answered /\ erased' = erased /\ behind' = behind /\ lost' = lost
      /\ schema' = schema /\ outages' = outages /\ me.step = "create"
      /\ Evaluations!RowsAreSound /\ Evaluations!TypeOK
  BY DEF Evaluations!Create, Evaluations!EvaluationInv
<1>2. me \in Evaluations!Begun /\ Evaluations!OwnStart(me) /\ Carries(me) = {me.id} /\ me.id \in Evaluation /\ me.docs \subseteq SourceDocument
  <2>1. me \in Evaluations!Begun
    BY <1>1, StatesAreTyped, StepsOfStates DEF Evaluations!Starting
  <2> QED BY <2>1, OwnStarts, EvaluationTypes DEF Evaluations!OwnState, Evaluations!Begun
<1>3. CASE Evaluations!Vacant
  <2> DEFINE new == [docs |-> me.docs, state |-> "unfinished", report |-> {}, forgotten |-> 0]
  <2>1. rows' = [rows EXCEPT ![me.id] = new] /\ handlers' = [handlers EXCEPT ![h] = Evaluations!Idle]
    BY <1>3 DEF Evaluations!Create, Evaluations!Return, Evaluations!Go
  <2>2. new \in Evaluations!Row /\ new # None /\ new.docs = me.docs /\ new.report = {}
    BY <1>2 DEF Evaluations!Row
  <2> HIDE DEF new
  <2>3. /\ \A g \in Handler : handlers'[g] = IF g = h THEN Evaluations!Idle ELSE handlers[g]
        /\ \A e \in Evaluation : rows'[e] = IF e = me.id THEN new ELSE rows[e]
    BY <1>1, <2>1 DEF Evaluations!TypeOK
  <2>4. Evaluations!Rows' = Evaluations!Rows \union {me.id} /\ me.id \notin Evaluations!Rows
    BY <1>2, <2>2, <2>3 DEF Evaluations!Rows, Evaluations!OwnStart
  <2>5. \A e \in Evaluations!Rows : rows'[e] = rows[e]
    BY <2>3, <2>4 DEF Evaluations!Rows
  <2>6. Evaluations!TypeOK'
    BY <1>1, <2>1, <2>2, IdleOwnsNothing DEF Evaluations!TypeOK
  <2>7. \A g \in Handler \ {h} : Evaluations!OwnState(handlers[g])'
    <3>1. \A g \in Handler \ {h} : me.id \notin Carries(handlers[g])
      BY <1>2, IdentitiesAreOwn
    <3> HIDE DEF Carries
    <3> QED BY <1>1, <1>2, <2>3, <2>4, <2>5, <3>1, OthersStand
  <2>8. Evaluations!OwnState(handlers[h])'
    <3>1. handlers'[h] = Evaluations!Idle
      BY <2>3
    <3> QED BY <3>1, StatesAreApart DEF Evaluations!OwnState
  <2>9. \A g, i \in Handler : Carries(handlers'[g]) \intersect Carries(handlers'[i]) # {} => g = i
    <3>1. Carries(Evaluations!Idle) = {}
      BY StatesAreApart DEF Carries
    <3>2. \A g, i \in Handler : Carries(handlers[g]) \intersect Carries(handlers[i]) # {} => g = i
      BY <1>1, StartsAreCarried DEF Evaluations!EvaluationInv, Evaluations!RequestsAreOwn
    <3> HIDE DEF Carries
    <3> QED BY <2>3, <3>1, <3>2
  <2>10. Evaluations!RequestsAreOwn'
    BY <2>6, <2>7, <2>8, <2>9, StartsAreCarriedAfter DEF Evaluations!RequestsAreOwn
  <2>11. Evaluations!RowsAreSound' /\ Evaluations!ErasedDocumentsAreForgotten'
    BY <1>1, <1>2, <2>2, <2>3, <2>4, <2>5 DEF Evaluations!EvaluationInv, Evaluations!RowsAreSound,
       Evaluations!ErasedDocumentsAreForgotten, Evaluations!OwnStart
  <2>12. Evaluations!RunsAreAccountedFor'
    BY <1>1, <2>3, <2>4 DEF Evaluations!EvaluationInv, Evaluations!RunsAreAccountedFor
  <2> QED BY <2>6, <2>10, <2>11, <2>12 DEF Evaluations!EvaluationInv
<1>4. CASE ~Evaluations!Vacant
  <2> DEFINE next == [me EXCEPT !.step = "withdraw", !.todo = me.docs]
  <2>1. handlers' = [handlers EXCEPT ![h] = next] /\ rows' = rows
    BY <1>4 DEF Evaluations!Create, Evaluations!Go
  <2>2. next \in Evaluations!Begun /\ next.id = me.id /\ next.docs = me.docs /\ next.todo = me.docs /\ next.step = "withdraw"
    BY <1>2 DEF Evaluations!Begun, Evaluations!Starting
  <2> HIDE DEF next
  <2>3. Evaluations!OwnStart(next)
    BY <1>1, <1>2, <2>2 DEF Evaluations!OwnStart
  <2> QED BY <1>1, <1>2, <2>1, <2>2, <2>3, OwnStarts, EvaluationTypes, RequestsMove
<1> QED BY <1>3, <1>4

LEMMA RunsAreWithdrawn ==
  ASSUME Evaluations!EvaluationInv, NEW h \in Handler, Evaluations!Withdraw(h) PROVE Evaluations!EvaluationInv'
<1> DEFINE me == handlers[h]
<1>1. /\ rows' = rows /\ fresh' = fresh /\ answered' = answered /\ erased' = erased /\ behind' = behind /\ lost' = lost
      /\ schema' = schema /\ outages' = outages /\ me.step = "withdraw" /\ Evaluations!Rows' = Evaluations!Rows
      /\ Evaluations!RowsAreSound /\ Evaluations!TypeOK
  BY DEF Evaluations!Withdraw, Evaluations!EvaluationInv, Evaluations!Rows
<1>2. me \in Evaluations!Begun /\ Evaluations!OwnStart(me) /\ Carries(me) = {me.id} /\ me.id \in Evaluation
  <2>1. me \in Evaluations!Begun
    BY <1>1, StatesAreTyped, StepsOfStates DEF Evaluations!Starting
  <2> QED BY <2>1, OwnStarts, EvaluationTypes DEF Evaluations!OwnState, Evaluations!Begun
<1>3. CASE me.todo = {} /\ handlers' = [handlers EXCEPT ![h] = Evaluations!Idle] /\ runs' = runs
  <2>1. \A x \in runs : x[1] # me.id
    BY <1>1, <1>2, <1>3 DEF Evaluations!OwnStart
  <2>2. Carries(Evaluations!Idle) = {}
    BY StatesAreApart DEF Carries
  <2> QED BY <1>1, <1>3, <2>1, <2>2, IdleOwnsNothing, EvaluationTypes, RequestsMove
<1>4. ASSUME NEW d \in me.todo, runs' = runs \ {<<me.id, d>>}, Evaluations!Go(h, [me EXCEPT !.todo = @ \ {d}])
      PROVE  Evaluations!EvaluationInv'
  <2> DEFINE next == [me EXCEPT !.todo = me.todo \ {d}]
  <2>1. handlers' = [handlers EXCEPT ![h] = next]
    BY <1>2, <1>4 DEF Evaluations!Go, Evaluations!Begun
  <2>2. next \in Evaluations!Begun /\ next.id = me.id /\ next.docs = me.docs /\ next.todo = me.todo \ {d} /\ next.step = "withdraw"
    BY <1>1, <1>2 DEF Evaluations!Begun
  <2> HIDE DEF next
  <2>3. \A g \in Handler : handlers'[g] = IF g = h THEN next ELSE handlers[g]
    BY <2>1, EvaluationTypes
  <2>4. Evaluations!TypeOK'
    <3>1. next \in Evaluations!State
      BY <2>2, StatesAreApart
    <3> QED BY <1>1, <1>4, <2>1, <3>1 DEF Evaluations!TypeOK
  <2>5. \A g \in Handler \ {h} : Evaluations!OwnState(handlers[g])'
    <3>1. \A g \in Handler \ {h} : me.id \notin Carries(handlers[g])
      BY <1>2, IdentitiesAreOwn
    <3> HIDE DEF Carries
    <3> QED BY <1>1, <1>2, <1>4, <2>3, <3>1, OthersStand
  <2>6. Evaluations!OwnState(handlers[h])'
    <3>1. handlers'[h] = next
      BY <2>3
    <3>2. \A x \in runs' : x[1] = me.id => x[2] \in me.todo \ {d}
      <4>1. runs \subseteq Evaluation \X SourceDocument
        BY <1>1 DEF Evaluations!TypeOK
      <4> QED BY <1>1, <1>2, <1>4, <4>1 DEF Evaluations!OwnStart
    <3>3. Evaluations!OwnStart(handlers[h])'
      BY <1>1, <1>2, <2>2, <3>1, <3>2 DEF Evaluations!OwnStart
    <3> QED BY <2>2, <3>1, <3>3, StatesAreApart DEF Evaluations!OwnState
  <2>7. \A g, i \in Handler : Carries(handlers'[g]) \intersect Carries(handlers'[i]) # {} => g = i
    <3>1. Carries(next) = Carries(me)
      BY <1>2, <2>2 DEF Carries
    <3>2. \A g, i \in Handler : Carries(handlers[g]) \intersect Carries(handlers[i]) # {} => g = i
      BY <1>1, StartsAreCarried DEF Evaluations!EvaluationInv, Evaluations!RequestsAreOwn
    <3> HIDE DEF Carries
    <3> QED BY <2>3, <3>1, <3>2
  <2>8. Evaluations!RequestsAreOwn'
    BY <2>4, <2>5, <2>6, <2>7, StartsAreCarriedAfter DEF Evaluations!RequestsAreOwn
  <2>9. Evaluations!RowsAreSound' /\ Evaluations!ErasedDocumentsAreForgotten'
    BY <1>1, <1>4 DEF Evaluations!EvaluationInv, Evaluations!RowsAreSound, Evaluations!ErasedDocumentsAreForgotten
  <2>10. Evaluations!RunsAreAccountedFor'
    <3>1. handlers'[h].step = handlers[h].step /\ handlers'[h].id = handlers[h].id
      BY <1>1, <2>2, <2>3
    <3> QED BY <1>1, <1>4, <2>3, <3>1 DEF Evaluations!EvaluationInv, Evaluations!RunsAreAccountedFor
  <2> QED BY <2>4, <2>8, <2>9, <2>10 DEF Evaluations!EvaluationInv
<1> QED BY <1>3, <1>4 DEF Evaluations!Withdraw, Evaluations!OwnRuns, Evaluations!Return, Evaluations!Go

LEMMA EvaluationsStart == ASSUME Evaluations!Init PROVE Evaluations!EvaluationInv
<1>1. Evaluations!TypeOK /\ Evaluations!Rows = {} /\ \A h \in Handler : handlers[h] = Evaluations!Idle
  BY IdleOwnsNothing DEF Evaluations!Init, Evaluations!TypeOK, Evaluations!Rows
<1>2. Evaluations!RequestsAreOwn
  <2>1. Evaluations!Starters = {}
    BY <1>1 DEF Evaluations!Starters, Evaluations!Idle, Evaluations!Starting, Evaluations!Scoring
  <2> QED BY <1>1, <2>1, IdleOwnsNothing DEF Evaluations!RequestsAreOwn
<1> QED BY <1>1, <1>2 DEF Evaluations!Init, Evaluations!EvaluationInv, Evaluations!RowsAreSound,
        Evaluations!ErasedDocumentsAreForgotten, Evaluations!RunsAreAccountedFor

LEMMA EvaluationsStep == Evaluations!EvaluationInv /\ [Evaluations!Next]_(Evaluations!evaluationVars) => Evaluations!EvaluationInv'
<1>1. ASSUME Evaluations!EvaluationInv, UNCHANGED Evaluations!evaluationVars PROVE Evaluations!EvaluationInv'
  <2>1. \A g \in Handler : Evaluations!OwnState(handlers'[g]) /\ Carries(handlers'[g]) \subseteq Carries(handlers[g])
    <3> HIDE DEF Carries
    <3> QED BY <1>1, EvaluationTypes DEF Evaluations!evaluationVars
  <2> HIDE DEF Carries
  <2> QED BY <1>1, <2>1, EvaluationTypes, AllMove DEF Evaluations!evaluationVars
<1>2. ASSUME Evaluations!EvaluationInv, NEW h \in Handler,
             Evaluations!Start(h) \/ Evaluations!Evaluate(h) \/ Evaluations!Forgetting(h) \/ Evaluations!Outage(h)
      PROVE  Evaluations!EvaluationInv'
  BY <1>2, StartsArePending, StartsAreChecked, RunsAreSubmitted, RowsAreCreated, RunsAreWithdrawn, EvaluationsAreScored,
     ReportsAreWritten, FailuresAreWritten, ChecksAreDeleted, DocumentsAreForgotten, DocumentsAreStripped, StatementsFail
     DEF Evaluations!Start, Evaluations!Evaluate, Evaluations!Forgetting
<1>3. ASSUME Evaluations!EvaluationInv, Evaluations!Next PROVE Evaluations!EvaluationInv'
  BY <1>2, <1>3, StartsBegin, EvaluationsAreLookedAt, ErasuresBegin, DocumentsAreChecked, RunsEnd DEF Evaluations!Next
<1> QED BY <1>1, <1>3

(* What a row says of its documents is settled once: what is written later   *)
(* takes away an erased document and nothing else.                           *)
LEMMA VerdictsAreKept == Evaluations!EvaluationInv /\ Evaluations!Next => Evaluations!KeepsVerdicts
<1> SUFFICES ASSUME Evaluations!EvaluationInv, Evaluations!Next, NEW e \in Evaluations!Rows, rows[e].state # "unfinished"
             PROVE  rows'[e].state = rows[e].state /\ rows'[e].report \subseteq rows[e].report
  BY DEF Evaluations!KeepsVerdicts
<1>1. e \in Evaluation /\ rows[e] \in Evaluations!Row /\ rows \in [Evaluation -> Evaluations!Row \union {None}]
      /\ e \notin Evaluations!Unfinished
  BY DEF Evaluations!EvaluationInv, Evaluations!TypeOK, Evaluations!Rows, Evaluations!Unfinished
<1>2. CASE rows' = rows
  BY <1>1, <1>2
<1>3. ASSUME NEW h \in Handler, Evaluations!Create(h) PROVE rows'[e] = rows[e]
  <2>1. handlers[h].id \notin Evaluations!Rows
    <3>1. handlers[h] \in Evaluations!Begun
      BY <1>3, EvaluationTypes, StepsOfStates DEF Evaluations!Create, Evaluations!Starting
    <3> QED BY <3>1, EvaluationTypes DEF Evaluations!OwnState, Evaluations!OwnStart
  <2> QED BY <1>1, <1>3, <2>1 DEF Evaluations!Create
<1>4. ASSUME NEW h \in Handler, Evaluations!Settle(h) \/ Evaluations!Fail(h) PROVE rows'[e] = rows[e]
  BY <1>1, <1>4 DEF Evaluations!Settle, Evaluations!Fail, Evaluations!Settleable
<1>5. ASSUME NEW h \in Handler, Evaluations!Strip(h)
      PROVE  rows'[e].state = rows[e].state /\ rows'[e].report \subseteq rows[e].report
  <2>1. CASE Evaluations!Unchanged(handlers[h].id, handlers[h].read)
    <3> DEFINE me == handlers[h]
               new == [docs |-> rows[me.id].docs \ {me.doc}, state |-> rows[me.id].state,
                       report |-> rows[me.id].report \ {me.doc}, forgotten |-> rows[me.id].forgotten + 1]
    <3>1. rows' = [rows EXCEPT ![me.id] = new]
      BY <1>5, <2>1, StripsAreCurrent
    <3>2. new.state = rows[me.id].state /\ new.report \subseteq rows[me.id].report
      OBVIOUS
    <3> HIDE DEF new
    <3> QED BY <1>1, <3>1, <3>2
  <2>2. CASE ~Evaluations!Unchanged(handlers[h].id, handlers[h].read)
    BY <1>5, <2>2 DEF Evaluations!Strip
  <2> QED BY <2>1, <2>2
<1>6. ASSUME NEW h \in Handler, Evaluations!Start(h) \/ Evaluations!Evaluate(h) \/ Evaluations!Forgetting(h) \/ Evaluations!Outage(h)
      PROVE  rows' = rows \/ Evaluations!Create(h) \/ Evaluations!Settle(h) \/ Evaluations!Fail(h) \/ Evaluations!Strip(h)
  BY <1>6 DEF Evaluations!Start, Evaluations!Evaluate, Evaluations!Forgetting, Evaluations!Outage, Evaluations!Pending,
     Evaluations!Checked, Evaluations!Submit, Evaluations!Withdraw, Evaluations!Score, Evaluations!DeleteChecks, Evaluations!Forget
<1>7. \/ \E h \in Handler : Evaluations!Start(h) \/ Evaluations!Evaluate(h) \/ Evaluations!Forgetting(h) \/ Evaluations!Outage(h)
      \/ rows' = rows
  BY DEF Evaluations!Next, Evaluations!Begin, Evaluations!Look, Evaluations!Erase, Evaluations!Check, Evaluations!EndRun, Evaluations!RemoveSchema
<1> QED BY <1>2, <1>3, <1>4, <1>5, <1>6, <1>7

HIDE EvaluationAssumption DEF answered, rows, runs, fresh, handlers, schema, outages, erased, behind, lost

-----------------------------------------------------------------------------
(* The artifact store                                                        *)

backend == v1
rooted == v2
entries == v3
documents == v4
temporaries == v5
pc == v6
op == v7
todo == v8
answer == v9
failures == v10
listed == v11
cleared == v12
accepted == v13
unseen == v14

USE StoreAssumption DEF backend, rooted, entries, documents, temporaries, pc, op, todo, answer, failures, listed, cleared,
                        accepted, unseen

WritingPc == {"write", "link", "relook"}

(* A step of one process that files and removes nothing.                     *)
LEMMA ProcessesMove ==
  ASSUME ArtifactStore!StoreInv, NEW p \in Handler, NEW step \in ArtifactStore!StorePc,
         NEW o \in ArtifactStore!Operation \union {None}, NEW keys \in SUBSET Artifact,
         pc' = [pc EXCEPT ![p] = step], op' = [op EXCEPT ![p] = o], todo' = [todo EXCEPT ![p] = keys],
         listed' = [listed EXCEPT ![p] = keys], answer' \in [Handler -> ArtifactStore!Answer],
         backend' = backend, rooted' = rooted, entries' = entries, documents' \subseteq SourceDocument, failures' \in 0 .. MaxFaults,
         cleared' = cleared, unseen' = unseen,
         step \in WritingPc => pc[p] \in WritingPc /\ o = op[p] /\ (step = "write" => pc[p] = "write"),
         step \in {"delete"} => o \in ArtifactStore!Operation /\ o.key \in Artifact,
         step = "blob" => o \in ArtifactStore!Operation /\ o.key \in SourceDocument,
         temporaries' \in SUBSET (Handler \X {"crashed", "live"}),
         \A q \in Handler : <<q, "live">> \in temporaries' =>
           IF q = p THEN step \in {"link", "blob"} ELSE <<q, "live">> \in temporaries,
         accepted' \in [Artifact -> SUBSET Content],
         \A k \in Artifact : \/ accepted'[k] = accepted[k] \/ (backend = "s3" /\ k \in unseen)
                             \/ entries[k] # None /\ accepted'[k] = accepted[k] \union {entries[k].content}
  PROVE  ArtifactStore!StoreInv'
<1>1. ArtifactStore!TypeOK /\ ArtifactStore!TypeOK'
  BY DEF ArtifactStore!StoreInv, ArtifactStore!TypeOK
<1>7. \A q \in Handler : /\ pc'[q] = IF q = p THEN step ELSE pc[q]
                         /\ op'[q] = IF q = p THEN o ELSE op[q]
                         /\ todo'[q] = IF q = p THEN keys ELSE todo[q]
                         /\ listed'[q] = IF q = p THEN keys ELSE listed[q]
  BY <1>1 DEF ArtifactStore!TypeOK
<1>2. ArtifactStore!Carrying'
  BY <1>7 DEF ArtifactStore!StoreInv, ArtifactStore!Carrying, WritingPc
<1>3. ArtifactStore!FiledAsAccepted'
  BY DEF ArtifactStore!StoreInv, ArtifactStore!FiledAsAccepted
<1>4. ArtifactStore!OneWriter'
  BY <1>7 DEF ArtifactStore!StoreInv, ArtifactStore!OneWriter, ArtifactStore!Writers, WritingPc
<1>5. ArtifactStore!ListedIsGone' /\ ArtifactStore!RemovedIsGone'
  BY <1>7 DEF ArtifactStore!StoreInv, ArtifactStore!ListedIsGone, ArtifactStore!RemovedIsGone
<1>6. ArtifactStore!TemporariesAreTransient'
  BY <1>7 DEF ArtifactStore!StoreInv, ArtifactStore!TemporariesAreTransient
<1> QED BY <1>1, <1>2, <1>3, <1>4, <1>5, <1>6 DEF ArtifactStore!StoreInv

(* Its operation ends, or goes on, and nothing is filed.                     *)
LEMMA ProcessesEnd ==
  ASSUME ArtifactStore!StoreInv, NEW p \in Handler, NEW a \in ArtifactStore!Answer, ArtifactStore!Done(p, a),
         backend' = backend, rooted' = rooted, entries' = entries, documents' \subseteq SourceDocument, failures' \in 0 .. MaxFaults,
         cleared' = cleared, unseen' = unseen,
         temporaries' \in SUBSET (Handler \X {"crashed", "live"}),
         \A q \in Handler : <<q, "live">> \in temporaries' => q # p /\ <<q, "live">> \in temporaries,
         accepted' \in [Artifact -> SUBSET Content],
         \A k \in Artifact : \/ accepted'[k] = accepted[k] \/ (backend = "s3" /\ k \in unseen)
                             \/ entries[k] # None /\ accepted'[k] = accepted[k] \union {entries[k].content}
  PROVE  ArtifactStore!StoreInv'
<1>1. "idle" \in ArtifactStore!StorePc /\ "idle" \notin WritingPc /\ ArtifactStore!TypeOK
  BY DEF ArtifactStore!StorePc, WritingPc, ArtifactStore!StoreInv
<1>2. /\ pc' = [pc EXCEPT ![p] = "idle"] /\ op' = [op EXCEPT ![p] = None] /\ todo' = [todo EXCEPT ![p] = {}]
      /\ listed' = [listed EXCEPT ![p] = {}] /\ answer' \in [Handler -> ArtifactStore!Answer]
  BY <1>1 DEF ArtifactStore!Done, ArtifactStore!TypeOK
<1>3. /\ {} \in SUBSET Artifact /\ None \in ArtifactStore!Operation \union {None}
      /\ "idle" \in WritingPc => pc[p] \in WritingPc /\ None = op[p] /\ ("idle" = "write" => pc[p] = "write")
      /\ "idle" \in {"delete"} => None \in ArtifactStore!Operation /\ None.key \in Artifact
      /\ "idle" = "blob" => None \in ArtifactStore!Operation /\ None.key \in SourceDocument
      /\ \A q \in Handler : <<q, "live">> \in temporaries' =>
           IF q = p THEN "idle" \in {"link", "blob"} ELSE <<q, "live">> \in temporaries
  BY <1>1
<1> QED BY <1>1, <1>2, <1>3, ProcessesMove

LEMMA StoreTypes ==
  ASSUME ArtifactStore!StoreInv
  PROVE  /\ ArtifactStore!TypeOK /\ documents \subseteq SourceDocument /\ failures \in 0 .. MaxFaults
         /\ temporaries \in SUBSET (Handler \X {"crashed", "live"}) /\ accepted \in [Artifact -> SUBSET Content]
         /\ entries \in [Artifact -> ArtifactStore!Envelope \union {None}]
         /\ \A q \in Handler : <<q, "live">> \in temporaries => pc[q] \in {"link", "blob"}
         /\ \A q \in Handler : pc[q] \in ArtifactStore!StorePc /\ op[q] \in ArtifactStore!Operation \union {None}
         /\ ArtifactStore!Fault => failures' \in 0 .. MaxFaults
BY DEF ArtifactStore!StoreInv, ArtifactStore!TypeOK, ArtifactStore!TemporariesAreTransient, ArtifactStore!Fault

(* What a reader or an idle process is told changes nothing.                 *)
LEMMA ReadsEnd ==
  ASSUME ArtifactStore!StoreInv, NEW p \in Handler,
         \/ \E k \in Artifact, f \in Format : ArtifactStore!Get(p, k, f)
         \/ \E d \in SourceDocument : ArtifactStore!GetBlob(p, d) \/ ArtifactStore!DeleteBlob(p, d)
  PROVE  ArtifactStore!StoreInv'
<1>1. PICK a \in ArtifactStore!Answer : ArtifactStore!Done(p, a)
  BY DEF ArtifactStore!Get, ArtifactStore!Read, ArtifactStore!GetBlob, ArtifactStore!DeleteBlob, ArtifactStore!Answer
<1>2. /\ backend' = backend /\ rooted' = rooted /\ entries' = entries /\ documents' \subseteq documents /\ failures' = failures
      /\ cleared' = cleared /\ unseen' = unseen /\ accepted' = accepted /\ temporaries' = temporaries /\ pc[p] = "idle"
  BY DEF ArtifactStore!Get, ArtifactStore!GetBlob, ArtifactStore!DeleteBlob, ArtifactStore!NoFault, ArtifactStore!setting,
     ArtifactStore!store, ArtifactStore!history
<1> QED BY <1>1, <1>2, StoreTypes, ProcessesEnd

LEMMA PutsLook ==
  ASSUME ArtifactStore!StoreInv, NEW p \in Handler, NEW k \in Artifact, NEW c \in Content, NEW f \in Format,
         ArtifactStore!Put(p, k, c, f), ArtifactStore!Read(k) # "miss"
  PROVE  ArtifactStore!StoreInv'
<1>1. /\ backend' = backend /\ rooted' = rooted /\ entries' = entries /\ documents' = documents /\ failures' = failures
      /\ cleared' = cleared /\ unseen' = unseen /\ temporaries' = temporaries /\ pc[p] = "idle"
  BY DEF ArtifactStore!Put, ArtifactStore!Read, ArtifactStore!NoFault, ArtifactStore!setting, ArtifactStore!store, ArtifactStore!history
<1>2. PICK a \in ArtifactStore!Answer : ArtifactStore!Done(p, a)
  <2>1. CASE ArtifactStore!Read(k) = "integrity"
    BY <2>1 DEF ArtifactStore!Put, ArtifactStore!Answer
  <2>2. CASE ArtifactStore!Read(k) = "found"
    BY <2>2 DEF ArtifactStore!Put, ArtifactStore!Answer
  <2> QED BY <2>1, <2>2 DEF ArtifactStore!Read
<1>3. \/ accepted' = accepted
      \/ entries[k] # None /\ entries[k].content = c /\ accepted' = [accepted EXCEPT ![k] = accepted[k] \union {c}]
  <2>1. CASE ArtifactStore!Read(k) = "integrity"
    BY <2>1 DEF ArtifactStore!Put, ArtifactStore!history
  <2>2. CASE ArtifactStore!Read(k) = "found"
    <3>1. entries[k] # None
      BY <2>2 DEF ArtifactStore!Read
    <3>2. accepted' = IF entries[k].content = c THEN [accepted EXCEPT ![k] = accepted[k] \union {c}] ELSE accepted
      BY <2>2, StoreTypes DEF ArtifactStore!Put
    <3> QED BY <3>1, <3>2
  <2> QED BY <2>1, <2>2 DEF ArtifactStore!Read
<1>4. /\ accepted' \in [Artifact -> SUBSET Content]
      /\ \A i \in Artifact : accepted'[i] = accepted[i] \/ (entries[i] # None /\ accepted'[i] = accepted[i] \union {entries[i].content})
  BY <1>3, StoreTypes
<1> QED BY <1>1, <1>2, <1>4, StoreTypes, ProcessesEnd

(* What a put of objects that came back files is its own, unless another      *)
(* writer may have been there.                                                *)
LEMMA ObjectsAreAccepted ==
  ASSUME ArtifactStore!StoreInv, NEW p \in Handler, pc[p] = "relook", backend = "s3", ArtifactStore!Accept(p)
  PROVE  /\ accepted' \in [Artifact -> SUBSET Content]
         /\ \A i \in Artifact : \/ accepted'[i] = accepted[i] \/ i \in unseen
                                \/ entries[i] # None /\ accepted'[i] = accepted[i] \union {entries[i].content}
<1> DEFINE k == op[p].key
<1>1. op[p] \in ArtifactStore!Operation /\ k \in Artifact
  BY DEF ArtifactStore!StoreInv, ArtifactStore!Carrying
<1>2. op[p].content \in Content
  BY <1>1 DEF ArtifactStore!Operation
<1>3. \/ accepted' = accepted
      \/ entries[k] # None /\ accepted' = [accepted EXCEPT ![k] = accepted[k] \union {op[p].content}]
  BY <1>1, StoreTypes DEF ArtifactStore!Accept
<1>4. k \in unseen \/ entries[k] = None \/ entries[k].content = op[p].content
  <2>1. p \in ArtifactStore!Writers(k)
    BY DEF ArtifactStore!Writers
  <2> QED BY <1>1, <2>1 DEF ArtifactStore!StoreInv, ArtifactStore!OneWriter
<1> QED BY <1>1, <1>2, <1>3, <1>4, StoreTypes

(* A loser of a race looks at what is filed again.                           *)
LEMMA LosersLookAgain ==
  ASSUME ArtifactStore!StoreInv, NEW p \in Handler, ArtifactStore!Relook(p) \/ ArtifactStore!RelookObject(p)
  PROVE  ArtifactStore!StoreInv'
<1> DEFINE k == op[p].key
           same == ArtifactStore!Read(k) = "found" /\ ArtifactStore!SameContent(p)
<1>1. /\ backend' = backend /\ rooted' = rooted /\ entries' = entries /\ documents' = documents /\ failures' = failures
      /\ cleared' = cleared /\ unseen' = unseen /\ temporaries' = temporaries /\ pc[p] = "relook"
  BY DEF ArtifactStore!Relook, ArtifactStore!RelookObject, ArtifactStore!NoFault, ArtifactStore!setting, ArtifactStore!store
<1>2. op[p] \in ArtifactStore!Operation /\ k \in Artifact
  BY <1>1 DEF ArtifactStore!StoreInv, ArtifactStore!Carrying
<1>3. PICK a \in ArtifactStore!Answer : ArtifactStore!Done(p, a)
  BY DEF ArtifactStore!Relook, ArtifactStore!RelookObject, ArtifactStore!Answer
<1>4. CASE ArtifactStore!Relook(p)
  <2>1. accepted' = IF same THEN [accepted EXCEPT ![k] = accepted[k] \union {op[p].content}] ELSE accepted
    BY <1>2, <1>4, StoreTypes DEF ArtifactStore!Relook
  <2>2. same => entries[k] # None /\ entries[k].content = op[p].content
    BY DEF ArtifactStore!Read, ArtifactStore!SameContent
  <2>3. op[p].content \in Content
    BY <1>2 DEF ArtifactStore!Operation
  <2> HIDE DEF same
  <2>4. /\ accepted' \in [Artifact -> SUBSET Content]
        /\ \A i \in Artifact : accepted'[i] = accepted[i] \/ (entries[i] # None /\ accepted'[i] = accepted[i] \union {entries[i].content})
    BY <1>2, <2>1, <2>2, <2>3, StoreTypes
  <2> QED BY <1>1, <1>3, <2>4, StoreTypes, ProcessesEnd
<1>5. CASE ArtifactStore!RelookObject(p)
  <2>1. backend = "s3" /\ (accepted' = accepted \/ ArtifactStore!Accept(p))
    BY <1>5 DEF ArtifactStore!RelookObject
  <2>2. /\ accepted' \in [Artifact -> SUBSET Content]
        /\ \A i \in Artifact : \/ accepted'[i] = accepted[i] \/ i \in unseen
                               \/ entries[i] # None /\ accepted'[i] = accepted[i] \union {entries[i].content}
    BY <1>1, <2>1, StoreTypes, ObjectsAreAccepted
  <2> QED BY <1>1, <1>3, <2>1, <2>2, StoreTypes, ProcessesEnd
<1> QED BY <1>4, <1>5

LEMMA RemovalsBegin ==
  ASSUME ArtifactStore!StoreInv, NEW p \in Handler,
         \/ \E k \in Artifact : ArtifactStore!HeadObject(p, k)
         \/ \E keys \in SUBSET Artifact : ArtifactStore!Clear(p, keys)
         \/ ArtifactStore!DeletePrefix(p)
  PROVE  ArtifactStore!StoreInv'
<1>1. /\ backend' = backend /\ rooted' = rooted /\ entries' = entries /\ documents' = documents /\ failures' = failures
      /\ cleared' = cleared /\ unseen' = unseen /\ temporaries' = temporaries /\ accepted' = accepted /\ pc[p] = "idle"
  BY DEF ArtifactStore!HeadObject, ArtifactStore!Clear, ArtifactStore!DeletePrefix, ArtifactStore!NoFault,
     ArtifactStore!setting, ArtifactStore!store, ArtifactStore!history
<1>2. \/ \E a \in ArtifactStore!Answer : ArtifactStore!Done(p, a)
      \/ \E keys \in SUBSET Artifact : ArtifactStore!At(p, "prefix", None, keys)
      \/ \E k \in Artifact : entries[k] # None /\ ArtifactStore!At(p, "delete", [key |-> k, content |-> entries[k].content, format |-> entries[k].format], {})
  <2>1. ASSUME NEW k \in Artifact, ArtifactStore!HeadObject(p, k)
        PROVE  \/ \E a \in ArtifactStore!Answer : ArtifactStore!Done(p, a)
               \/ entries[k] # None /\ ArtifactStore!At(p, "delete", [key |-> k, content |-> entries[k].content, format |-> entries[k].format], {})
    BY <2>1 DEF ArtifactStore!HeadObject, ArtifactStore!Answer
  <2>2. ASSUME NEW keys \in SUBSET Artifact, ArtifactStore!Clear(p, keys)
        PROVE  \E ks \in SUBSET Artifact : ArtifactStore!At(p, "prefix", None, ks)
    BY <2>2 DEF ArtifactStore!Clear, ArtifactStore!Listed
  <2>3. ASSUME ArtifactStore!DeletePrefix(p)
        PROVE  \/ \E a \in ArtifactStore!Answer : ArtifactStore!Done(p, a)
               \/ \E keys \in SUBSET Artifact : ArtifactStore!At(p, "prefix", None, keys)
    BY <2>3 DEF ArtifactStore!DeletePrefix, ArtifactStore!Listed, ArtifactStore!Answer
  <2> QED BY <2>1, <2>2, <2>3
<1>3. ASSUME NEW a \in ArtifactStore!Answer, ArtifactStore!Done(p, a) PROVE ArtifactStore!StoreInv'
  BY <1>1, <1>3, StoreTypes, ProcessesEnd
<1>4. ASSUME NEW step \in {"prefix", "delete"}, NEW o \in ArtifactStore!Operation \union {None}, NEW keys \in SUBSET Artifact,
             ArtifactStore!At(p, step, o, keys), step = "delete" => o \in ArtifactStore!Operation /\ o.key \in Artifact
      PROVE  ArtifactStore!StoreInv'
  <2>1. /\ pc' = [pc EXCEPT ![p] = step] /\ op' = [op EXCEPT ![p] = o] /\ todo' = [todo EXCEPT ![p] = keys]
        /\ listed' = [listed EXCEPT ![p] = keys] /\ answer' \in [Handler -> ArtifactStore!Answer]
    BY <1>4, StoreTypes DEF ArtifactStore!At, ArtifactStore!TypeOK, ArtifactStore!Answer
  <2>2. step \in ArtifactStore!StorePc /\ step \notin WritingPc /\ step # "blob"
    BY DEF ArtifactStore!StorePc, WritingPc
  <2>3. \A q \in Handler : <<q, "live">> \in temporaries' => IF q = p THEN step \in {"link", "blob"} ELSE <<q, "live">> \in temporaries
    BY <1>1, StoreTypes
  <2> QED BY <1>1, <1>4, <2>1, <2>2, <2>3, StoreTypes, ProcessesMove
<1>5. ASSUME NEW k \in Artifact, entries[k] # None
      PROVE  [key |-> k, content |-> entries[k].content, format |-> entries[k].format] \in ArtifactStore!Operation
  <2>1. entries[k] \in ArtifactStore!Envelope
    BY <1>5, StoreTypes
  <2> QED BY <2>1 DEF ArtifactStore!Envelope, ArtifactStore!Operation
<1>6. ASSUME NEW k \in Artifact, entries[k] # None,
             ArtifactStore!At(p, "delete", [key |-> k, content |-> entries[k].content, format |-> entries[k].format], {})
      PROVE  ArtifactStore!StoreInv'
  <2> DEFINE o == [key |-> k, content |-> entries[k].content, format |-> entries[k].format]
  <2>1. o \in ArtifactStore!Operation /\ o.key \in Artifact
    BY <1>5, <1>6
  <2> HIDE DEF o
  <2>2. ArtifactStore!At(p, "delete", o, {})
    BY <1>6 DEF o
  <2> QED BY <1>4, <2>1, <2>2
<1> QED BY <1>2, <1>3, <1>4, <1>6

(* Blobs and temporary files.                                                *)
LEMMA FilesAreWritten ==
  ASSUME ArtifactStore!StoreInv, NEW p \in Handler,
         \/ ArtifactStore!WriteTemporary(p) \/ ArtifactStore!ReplaceBlob(p)
         \/ \E d \in SourceDocument : ArtifactStore!PutBlob(p, d)
  PROVE  ArtifactStore!StoreInv'
<1>1. /\ backend' = backend /\ rooted' = rooted /\ entries' = entries /\ failures' = failures
      /\ cleared' = cleared /\ unseen' = unseen /\ accepted' = accepted
  BY DEF ArtifactStore!WriteTemporary, ArtifactStore!PutBlob, ArtifactStore!ReplaceBlob, ArtifactStore!NoFault,
     ArtifactStore!setting, ArtifactStore!store, ArtifactStore!history
<1>2. CASE ArtifactStore!WriteTemporary(p)
  <2>1. /\ pc[p] = "write" /\ temporaries' = temporaries \union {<<p, "live">>} /\ documents' = documents
        /\ pc' = [pc EXCEPT ![p] = "link"] /\ op' = [op EXCEPT ![p] = op[p]] /\ todo' = [todo EXCEPT ![p] = {}]
        /\ listed' = [listed EXCEPT ![p] = {}] /\ answer' \in [Handler -> ArtifactStore!Answer]
    BY <1>2, StoreTypes DEF ArtifactStore!WriteTemporary, ArtifactStore!At, ArtifactStore!TypeOK, ArtifactStore!Answer, ArtifactStore!store
  <2>2. /\ "link" \in ArtifactStore!StorePc /\ "link" \in WritingPc /\ pc[p] \in WritingPc
        /\ op[p] \in ArtifactStore!Operation \union {None} /\ {} \in SUBSET Artifact
    BY <2>1, StoreTypes DEF ArtifactStore!StorePc, WritingPc
  <2>3. /\ temporaries' \in SUBSET (Handler \X {"crashed", "live"})
        /\ \A q \in Handler : <<q, "live">> \in temporaries' => IF q = p THEN "link" \in {"link", "blob"} ELSE <<q, "live">> \in temporaries
    BY <2>1, StoreTypes
  <2> QED BY <1>1, <2>1, <2>2, <2>3, StoreTypes, ProcessesMove
<1>3. CASE ArtifactStore!ReplaceBlob(p)
  <2>1. /\ pc[p] = "blob" /\ documents' = documents \union {op[p].key} /\ temporaries' = temporaries \ {<<p, "live">>}
        /\ ArtifactStore!Done(p, "stored")
    BY <1>3 DEF ArtifactStore!ReplaceBlob
  <2>2. op[p].key \in SourceDocument /\ "stored" \in ArtifactStore!Answer
    BY <2>1 DEF ArtifactStore!StoreInv, ArtifactStore!Carrying, ArtifactStore!Answer
  <2> QED BY <1>1, <2>1, <2>2, StoreTypes, ProcessesEnd
<1>4. ASSUME NEW d \in SourceDocument, ArtifactStore!PutBlob(p, d) PROVE ArtifactStore!StoreInv'
  <2>1. CASE backend = "files" /\ d \notin documents
    <3> DEFINE o == [key |-> d, content |-> CHOOSE c \in Content : TRUE, format |-> CHOOSE f \in Format : TRUE]
    <3>1. o \in ArtifactStore!Operation /\ o.key = d
      <4>1. (CHOOSE c \in Content : TRUE) \in Content /\ (CHOOSE f \in Format : TRUE) \in Format
        OBVIOUS
      <4> QED BY <4>1 DEF ArtifactStore!Operation
    <3>2. /\ temporaries' = temporaries \union {<<p, "live">>} /\ documents' = documents
          /\ pc' = [pc EXCEPT ![p] = "blob"] /\ op' = [op EXCEPT ![p] = o] /\ todo' = [todo EXCEPT ![p] = {}]
          /\ listed' = [listed EXCEPT ![p] = {}] /\ answer' \in [Handler -> ArtifactStore!Answer]
      BY <1>4, <2>1, StoreTypes DEF ArtifactStore!PutBlob, ArtifactStore!At, ArtifactStore!TypeOK, ArtifactStore!Answer
    <3> HIDE DEF o
    <3>3. "blob" \in ArtifactStore!StorePc /\ "blob" \notin WritingPc /\ {} \in SUBSET Artifact
      BY DEF ArtifactStore!StorePc, WritingPc
    <3>4. /\ temporaries' \in SUBSET (Handler \X {"crashed", "live"})
          /\ \A q \in Handler : <<q, "live">> \in temporaries' => IF q = p THEN "blob" \in {"link", "blob"} ELSE <<q, "live">> \in temporaries
      BY <3>2, StoreTypes
    <3> QED BY <1>1, <3>1, <3>2, <3>3, <3>4, StoreTypes, ProcessesMove
  <2>2. CASE ~(backend = "files" /\ d \notin documents)
    <3>1. documents' = documents \union {d} /\ ArtifactStore!Done(p, "stored") /\ temporaries' = temporaries /\ pc[p] = "idle"
      BY <1>4, <2>2 DEF ArtifactStore!PutBlob
    <3>2. "stored" \in ArtifactStore!Answer
      BY DEF ArtifactStore!Answer
    <3> QED BY <1>1, <3>1, <3>2, StoreTypes, ProcessesEnd
  <2> QED BY <2>1, <2>2
<1> QED BY <1>2, <1>3, <1>4

(* What fails is dropped, or raises, and leaves what is filed alone.         *)
LEMMA OperationsFail ==
  ASSUME ArtifactStore!StoreInv, NEW p \in Handler,
         ArtifactStore!Unreachable(p) \/ ArtifactStore!LinkFails(p) \/ ArtifactStore!Crash(p)
  PROVE  ArtifactStore!StoreInv'
<1>1. /\ backend' = backend /\ rooted' = rooted /\ entries' = entries /\ failures' \in 0 .. MaxFaults /\ documents' = documents
      /\ cleared' = cleared /\ unseen' = unseen
  BY StoreTypes DEF ArtifactStore!Unreachable, ArtifactStore!LinkFails, ArtifactStore!Crash,
     ArtifactStore!setting, ArtifactStore!store, ArtifactStore!history
<1>2. PICK a \in ArtifactStore!Answer : ArtifactStore!Done(p, a)
  BY DEF ArtifactStore!Unreachable, ArtifactStore!LinkFails, ArtifactStore!Crash, ArtifactStore!Answer
<1>3. /\ temporaries' \in SUBSET (Handler \X {"crashed", "live"})
      /\ \A q \in Handler : <<q, "live">> \in temporaries' => q # p /\ <<q, "live">> \in temporaries
  <2>1. CASE ArtifactStore!Unreachable(p)
    <3>1. temporaries' = temporaries /\ pc[p] \notin {"link", "blob"}
      BY <2>1 DEF ArtifactStore!Unreachable
    <3> QED BY <3>1, StoreTypes
  <2>2. CASE ArtifactStore!LinkFails(p)
    BY <2>2, StoreTypes DEF ArtifactStore!LinkFails, ArtifactStore!Unlinked
  <2>3. CASE ArtifactStore!Crash(p)
    BY <2>3, StoreTypes DEF ArtifactStore!Crash
  <2> QED BY <2>1, <2>2, <2>3
<1>4. /\ accepted' \in [Artifact -> SUBSET Content]
      /\ \A i \in Artifact : \/ accepted'[i] = accepted[i] \/ (backend = "s3" /\ i \in unseen)
                             \/ entries[i] # None /\ accepted'[i] = accepted[i] \union {entries[i].content}
  <2>1. accepted' = accepted \/ (pc[p] = "relook" /\ backend = "s3" /\ ArtifactStore!Accept(p))
    BY DEF ArtifactStore!Unreachable, ArtifactStore!LinkFails, ArtifactStore!Crash, ArtifactStore!history
  <2>2. CASE accepted' = accepted
    BY <2>2, StoreTypes
  <2>3. CASE pc[p] = "relook" /\ backend = "s3" /\ ArtifactStore!Accept(p)
    BY <2>3, ObjectsAreAccepted
  <2> QED BY <2>1, <2>2, <2>3
<1> QED BY <1>1, <1>2, <1>3, <1>4, StoreTypes, ProcessesEnd

LEMMA EntriesStay ==
  ASSUME ArtifactStore!StoreInv, NEW p \in Handler, ArtifactStore!Unremovable(p) PROVE ArtifactStore!StoreInv'
<1>1. /\ backend' = backend /\ rooted' = rooted /\ entries' = entries /\ failures' \in 0 .. MaxFaults /\ documents' = documents
      /\ cleared' = cleared /\ unseen' = unseen /\ accepted' = accepted /\ temporaries' = temporaries /\ pc[p] = "prefix"
  BY StoreTypes DEF ArtifactStore!Unremovable, ArtifactStore!setting, ArtifactStore!store, ArtifactStore!history
<1>2. CASE ArtifactStore!GivesUp
  <2>1. ArtifactStore!Done(p, "unavailable") /\ "unavailable" \in ArtifactStore!Answer
    BY <1>2 DEF ArtifactStore!Unremovable, ArtifactStore!Answer
  <2> QED BY <1>1, <2>1, StoreTypes, ProcessesEnd
<1>3. CASE ~ArtifactStore!GivesUp
  <2>1. /\ pc' = pc /\ op' = op /\ answer' = answer /\ listed' = listed /\ backend # "s3"
        /\ \E k \in Artifact : todo' = [todo EXCEPT ![p] = todo[p] \ {k}]
    BY <1>3, StoreTypes DEF ArtifactStore!Unremovable, ArtifactStore!GivesUp, ArtifactStore!TypeOK
  <2>2. ArtifactStore!TypeOK'
    BY <1>1, <2>1, StoreTypes DEF ArtifactStore!TypeOK
  <2>3. ArtifactStore!Carrying' /\ ArtifactStore!FiledAsAccepted' /\ ArtifactStore!TemporariesAreTransient'
        /\ ArtifactStore!OneWriter' /\ ArtifactStore!ListedIsGone' /\ ArtifactStore!RemovedIsGone'
    BY <1>1, <2>1 DEF ArtifactStore!StoreInv, ArtifactStore!Carrying, ArtifactStore!FiledAsAccepted,
       ArtifactStore!TemporariesAreTransient, ArtifactStore!OneWriter, ArtifactStore!Writers, ArtifactStore!ListedIsGone, ArtifactStore!RemovedIsGone
  <2> QED BY <2>2, <2>3 DEF ArtifactStore!StoreInv
<1> QED BY <1>2, <1>3

(* A writer begins: it found nothing, or could not look.                     *)
LEMMA WritersBegin ==
  ASSUME ArtifactStore!StoreInv, NEW p \in Handler, NEW k \in Artifact, NEW c \in Content, NEW f \in Format,
         \/ ArtifactStore!Put(p, k, c, f) /\ ArtifactStore!Read(k) = "miss"
         \/ ArtifactStore!PutBlind(p, k, c, f)
  PROVE  ArtifactStore!StoreInv'
<1> DEFINE o == [key |-> k, content |-> c, format |-> f]
<1>1. /\ backend' = backend /\ rooted' = rooted /\ entries' = entries /\ documents' = documents /\ failures' \in 0 .. MaxFaults
      /\ temporaries' = temporaries /\ cleared' = cleared /\ accepted' = accepted /\ pc[p] = "idle"
      /\ ArtifactStore!At(p, "write", o, {})
      /\ \/ unseen' = unseen \union {k}
         \/ unseen' = unseen /\ ArtifactStore!Writers(k) = {} /\ entries[k] = None
  <2>1. CASE ArtifactStore!PutBlind(p, k, c, f)
    BY <2>1, StoreTypes DEF ArtifactStore!PutBlind, ArtifactStore!setting, ArtifactStore!store
  <2>2. CASE ArtifactStore!Put(p, k, c, f) /\ ArtifactStore!Read(k) = "miss"
    <3>2. /\ ArtifactStore!At(p, "write", o, {})
          /\ unseen' = IF ArtifactStore!Writers(k) = {} /\ entries[k] = None THEN unseen ELSE unseen \union {k}
          /\ cleared' = cleared /\ accepted' = accepted
      BY <2>2 DEF ArtifactStore!Put
    <3>3. /\ backend' = backend /\ rooted' = rooted /\ entries' = entries /\ documents' = documents /\ failures' = failures
          /\ temporaries' = temporaries /\ pc[p] = "idle"
      BY <2>2 DEF ArtifactStore!Put, ArtifactStore!NoFault, ArtifactStore!setting, ArtifactStore!store
    <3> QED BY <3>2, <3>3, StoreTypes
  <2> QED BY <2>1, <2>2
<1>2. o \in ArtifactStore!Operation /\ o.key = k
  BY DEF ArtifactStore!Operation
<1> HIDE DEF o
<1>3. /\ pc' = [pc EXCEPT ![p] = "write"] /\ op' = [op EXCEPT ![p] = o] /\ todo' = [todo EXCEPT ![p] = {}]
      /\ listed' = [listed EXCEPT ![p] = {}] /\ answer' \in [Handler -> ArtifactStore!Answer]
  BY <1>1, StoreTypes DEF ArtifactStore!At, ArtifactStore!TypeOK, ArtifactStore!Answer
<1>4. \A q \in Handler : /\ pc'[q] = IF q = p THEN "write" ELSE pc[q]
                         /\ op'[q] = IF q = p THEN o ELSE op[q]
                         /\ todo'[q] = IF q = p THEN {} ELSE todo[q]
                         /\ listed'[q] = IF q = p THEN {} ELSE listed[q]
  BY <1>3, StoreTypes DEF ArtifactStore!TypeOK
<1>5. ArtifactStore!TypeOK'
  <2>1. "write" \in ArtifactStore!StorePc
    BY DEF ArtifactStore!StorePc
  <2> QED BY <1>1, <1>2, <1>3, <2>1, StoreTypes DEF ArtifactStore!TypeOK
<1>6. ArtifactStore!Carrying'
  BY <1>2, <1>4 DEF ArtifactStore!StoreInv, ArtifactStore!Carrying
<1>7. ArtifactStore!FiledAsAccepted'
  BY <1>1 DEF ArtifactStore!StoreInv, ArtifactStore!FiledAsAccepted
<1>8. ArtifactStore!OneWriter'
  <2> SUFFICES ASSUME NEW i \in Artifact, backend' = "s3", i \notin unseen'
               PROVE  /\ \A q, r \in ArtifactStore!Writers(i)' : q = r
                      /\ \A q \in ArtifactStore!Writers(i)' : entries'[i] = None \/ (pc'[q] # "write" /\ entries'[i].content = op'[q].content)
    BY DEF ArtifactStore!OneWriter
  <2>1. /\ \A q, r \in ArtifactStore!Writers(i) : q = r
        /\ \A q \in ArtifactStore!Writers(i) : entries[i] = None \/ (pc[q] # "write" /\ entries[i].content = op[q].content)
    BY <1>1 DEF ArtifactStore!StoreInv, ArtifactStore!OneWriter
  <2>2. i = k => ArtifactStore!Writers(i) = {} /\ entries[i] = None
    BY <1>1
  <2>3. ArtifactStore!Writers(i)' \subseteq IF i = k THEN {p} ELSE ArtifactStore!Writers(i)
    BY <1>2, <1>4, <2>2 DEF ArtifactStore!Writers
  <2>4. \A q \in ArtifactStore!Writers(i)' : q \in Handler
    BY DEF ArtifactStore!Writers
  <2>5. i # k => p \notin ArtifactStore!Writers(i)'
    BY <1>2, <1>4 DEF ArtifactStore!Writers
  <2> QED BY <1>1, <1>4, <2>1, <2>2, <2>3, <2>4, <2>5
<1>9. ArtifactStore!ListedIsGone' /\ ArtifactStore!RemovedIsGone'
  BY <1>1, <1>4 DEF ArtifactStore!StoreInv, ArtifactStore!ListedIsGone, ArtifactStore!RemovedIsGone
<1>10. ArtifactStore!TemporariesAreTransient'
  BY <1>1, <1>4 DEF ArtifactStore!StoreInv, ArtifactStore!TemporariesAreTransient
<1> QED BY <1>5, <1>6, <1>7, <1>8, <1>9, <1>10 DEF ArtifactStore!StoreInv

(* What is filed is not on the list of any removal.                          *)
LEMMA FilingsAreNew ==
  ASSUME ArtifactStore!StoreInv, NEW k \in Artifact, NEW e \in ArtifactStore!Envelope,
         entries' = [entries EXCEPT ![k] = e], ArtifactStore!FiledAnew(k), todo' = todo, backend' = backend
  PROVE  /\ ArtifactStore!ListedIsGone' /\ ArtifactStore!RemovedIsGone'
         /\ listed' \in [Handler -> SUBSET Artifact] /\ cleared' \subseteq Artifact
         /\ entries' \in [Artifact -> ArtifactStore!Envelope \union {None}]
         /\ \A i \in Artifact : entries'[i] = IF i = k THEN e ELSE entries[i]
<1>1. /\ listed \in [Handler -> SUBSET Artifact] /\ cleared \subseteq Artifact
      /\ entries \in [Artifact -> ArtifactStore!Envelope \union {None}]
  BY DEF ArtifactStore!StoreInv, ArtifactStore!TypeOK
<1>2. /\ listed' = [q \in Handler |-> listed[q] \ {k}] /\ cleared' = cleared \ {k}
  BY DEF ArtifactStore!FiledAnew
<1> QED BY <1>1, <1>2 DEF ArtifactStore!StoreInv, ArtifactStore!ListedIsGone, ArtifactStore!RemovedIsGone

LEMMA ObjectsArePut ==
  ASSUME ArtifactStore!StoreInv, NEW p \in Handler, ArtifactStore!PutObject(p) PROVE ArtifactStore!StoreInv'
<1> DEFINE k == op[p].key
           e == ArtifactStore!Filed(op[p])
<1>1. /\ backend' = backend /\ rooted' = rooted /\ documents' = documents /\ failures' = failures /\ temporaries' = temporaries
      /\ op' = op /\ todo' = todo /\ answer' = answer /\ accepted' = accepted /\ unseen' = unseen /\ pc[p] = "write"
      /\ backend = "s3" /\ ArtifactStore!FiledAnew(k) /\ pc' = [pc EXCEPT ![p] = "relook"]
      /\ entries' = [entries EXCEPT ![k] = e]
  BY DEF ArtifactStore!PutObject, ArtifactStore!NoFault, ArtifactStore!setting
<1>2. op[p] \in ArtifactStore!Operation /\ k \in Artifact
  BY <1>1 DEF ArtifactStore!StoreInv, ArtifactStore!Carrying
<1>3. e \in ArtifactStore!Envelope /\ e # None /\ e.content = op[p].content
  BY <1>2 DEF ArtifactStore!Filed, ArtifactStore!Envelope, ArtifactStore!Operation
<1> HIDE DEF e
<1>4. /\ ArtifactStore!ListedIsGone' /\ ArtifactStore!RemovedIsGone'
      /\ listed' \in [Handler -> SUBSET Artifact] /\ cleared' \subseteq Artifact
      /\ entries' \in [Artifact -> ArtifactStore!Envelope \union {None}]
      /\ \A i \in Artifact : entries'[i] = IF i = k THEN e ELSE entries[i]
  BY <1>1, <1>2, <1>3, FilingsAreNew
<1>5. \A q \in Handler : pc'[q] = IF q = p THEN "relook" ELSE pc[q]
  BY <1>1, StoreTypes DEF ArtifactStore!TypeOK
<1>6. ArtifactStore!TypeOK'
  BY <1>1, <1>4, StoreTypes DEF ArtifactStore!TypeOK, ArtifactStore!StorePc
<1>7. ArtifactStore!Carrying' /\ ArtifactStore!TemporariesAreTransient'
  BY <1>1, <1>5 DEF ArtifactStore!StoreInv, ArtifactStore!Carrying, ArtifactStore!TemporariesAreTransient
<1>8. p \in ArtifactStore!Writers(k) /\ \A i \in Artifact : ArtifactStore!Writers(i)' = ArtifactStore!Writers(i)
  BY <1>1, <1>5 DEF ArtifactStore!Writers
<1>9. ArtifactStore!FiledAsAccepted'
  <2>1. k \notin unseen => accepted[k] = {}
    BY <1>1, <1>2, <1>8 DEF ArtifactStore!StoreInv, ArtifactStore!OneWriter, ArtifactStore!FiledAsAccepted
  <2> QED BY <1>1, <1>4, <2>1 DEF ArtifactStore!StoreInv, ArtifactStore!FiledAsAccepted
<1>10. ArtifactStore!OneWriter'
  <2> SUFFICES ASSUME NEW i \in Artifact, i \notin unseen
               PROVE  /\ \A q, r \in ArtifactStore!Writers(i) : q = r
                      /\ \A q \in ArtifactStore!Writers(i) : entries'[i] = None \/ (pc'[q] # "write" /\ entries'[i].content = op[q].content)
    BY <1>1, <1>8 DEF ArtifactStore!OneWriter
  <2>1. /\ \A q, r \in ArtifactStore!Writers(i) : q = r
        /\ \A q \in ArtifactStore!Writers(i) : q \in Handler /\ (entries[i] = None \/ (pc[q] # "write" /\ entries[i].content = op[q].content))
    BY <1>1 DEF ArtifactStore!StoreInv, ArtifactStore!OneWriter, ArtifactStore!Writers
  <2> QED BY <1>3, <1>4, <1>5, <1>8, <2>1
<1> QED BY <1>4, <1>6, <1>7, <1>9, <1>10 DEF ArtifactStore!StoreInv

(* A temporary file takes its name, unless it is taken.                      *)
LEMMA FilesAreLinked ==
  ASSUME ArtifactStore!StoreInv, NEW p \in Handler, ArtifactStore!Link(p) PROVE ArtifactStore!StoreInv'
<1> DEFINE k == op[p].key
           e == ArtifactStore!Filed(op[p])
<1>1. /\ backend' = backend /\ rooted' = rooted /\ documents' = documents /\ failures' = failures
      /\ temporaries' = temporaries \ {<<p, "live">>} /\ pc[p] = "link"
  BY DEF ArtifactStore!Link, ArtifactStore!NoFault, ArtifactStore!setting, ArtifactStore!Unlinked
<1>2. op[p] \in ArtifactStore!Operation /\ k \in Artifact /\ op[p].content \in Content
  BY <1>1 DEF ArtifactStore!StoreInv, ArtifactStore!Carrying, ArtifactStore!Operation
<1>3. CASE ArtifactStore!Taken(k)
  <2>1. /\ entries' = entries /\ cleared' = cleared /\ unseen' = unseen /\ accepted' = accepted
        /\ pc' = [pc EXCEPT ![p] = "relook"] /\ op' = [op EXCEPT ![p] = op[p]] /\ todo' = [todo EXCEPT ![p] = {}]
        /\ listed' = [listed EXCEPT ![p] = {}] /\ answer' \in [Handler -> ArtifactStore!Answer]
    BY <1>3, StoreTypes DEF ArtifactStore!Link, ArtifactStore!At, ArtifactStore!TypeOK, ArtifactStore!Answer, ArtifactStore!history
  <2>2. "relook" \in ArtifactStore!StorePc /\ "relook" \in WritingPc /\ pc[p] \in WritingPc /\ {} \in SUBSET Artifact
    BY <1>1 DEF ArtifactStore!StorePc, WritingPc
  <2>3. /\ temporaries' \in SUBSET (Handler \X {"crashed", "live"})
        /\ \A q \in Handler : <<q, "live">> \in temporaries' => IF q = p THEN "relook" \in {"link", "blob"} ELSE <<q, "live">> \in temporaries
    BY <1>1, StoreTypes
  <2> QED BY <1>1, <1>2, <2>1, <2>2, <2>3, StoreTypes, ProcessesMove
<1>4. CASE ~ArtifactStore!Taken(k)
  <2>1. /\ entries' = [entries EXCEPT ![k] = e] /\ entries[k] = None
        /\ accepted' = [accepted EXCEPT ![k] = accepted[k] \union {op[p].content}]
        /\ pc' = [pc EXCEPT ![p] = "idle"] /\ op' = [op EXCEPT ![p] = None] /\ answer' = [answer EXCEPT ![p] = "stored"]
        /\ ArtifactStore!FiledAnew(k) /\ todo' = todo /\ unseen' = unseen
    BY <1>2, <1>4, StoreTypes DEF ArtifactStore!Link, ArtifactStore!Taken
  <2>2. e \in ArtifactStore!Envelope /\ e # None /\ e.content = op[p].content
    BY <1>2 DEF ArtifactStore!Filed, ArtifactStore!Envelope, ArtifactStore!Operation
  <2> HIDE DEF e
  <2>3. /\ ArtifactStore!ListedIsGone' /\ ArtifactStore!RemovedIsGone'
        /\ listed' \in [Handler -> SUBSET Artifact] /\ cleared' \subseteq Artifact
        /\ entries' \in [Artifact -> ArtifactStore!Envelope \union {None}]
        /\ \A i \in Artifact : entries'[i] = IF i = k THEN e ELSE entries[i]
    BY <1>1, <1>2, <2>1, <2>2, FilingsAreNew
  <2>4. \A q \in Handler : pc'[q] = (IF q = p THEN "idle" ELSE pc[q]) /\ op'[q] = (IF q = p THEN None ELSE op[q])
    BY <2>1, StoreTypes DEF ArtifactStore!TypeOK
  <2>5. ArtifactStore!TypeOK'
    BY <1>1, <1>2, <2>1, <2>3, StoreTypes DEF ArtifactStore!TypeOK, ArtifactStore!StorePc, ArtifactStore!Answer
  <2>6. ArtifactStore!Carrying' /\ ArtifactStore!TemporariesAreTransient'
    BY <1>1, <2>4 DEF ArtifactStore!StoreInv, ArtifactStore!Carrying, ArtifactStore!TemporariesAreTransient
  <2>7. ArtifactStore!FiledAsAccepted'
    <3>1. \A i \in Artifact : accepted'[i] = IF i = k THEN accepted[k] \union {op[p].content} ELSE accepted[i]
      BY <2>1, StoreTypes
    <3>2. backend = "files" \/ k \notin unseen => accepted[k] = {}
      BY <1>2, <2>1 DEF ArtifactStore!StoreInv, ArtifactStore!FiledAsAccepted
    <3> QED BY <1>1, <2>1, <2>2, <2>3, <3>1, <3>2 DEF ArtifactStore!StoreInv, ArtifactStore!FiledAsAccepted
  <2>8. ArtifactStore!OneWriter'
    <3> SUFFICES ASSUME NEW i \in Artifact, backend = "s3", i \notin unseen
                 PROVE  /\ \A q, r \in ArtifactStore!Writers(i)' : q = r
                        /\ \A q \in ArtifactStore!Writers(i)' : entries'[i] = None \/ (pc'[q] # "write" /\ entries'[i].content = op'[q].content)
      BY <1>1, <2>1 DEF ArtifactStore!OneWriter
    <3>1. /\ \A q, r \in ArtifactStore!Writers(i) : q = r
          /\ \A q \in ArtifactStore!Writers(i) : entries[i] = None \/ (pc[q] # "write" /\ entries[i].content = op[q].content)
      BY DEF ArtifactStore!StoreInv, ArtifactStore!OneWriter
    <3>2. \A q \in ArtifactStore!Writers(i)' : q \in ArtifactStore!Writers(i) /\ q # p /\ pc'[q] = pc[q] /\ op'[q] = op[q]
      BY <2>4 DEF ArtifactStore!Writers
    <3>3. p \in ArtifactStore!Writers(k)
      BY <1>1 DEF ArtifactStore!Writers
    <3> QED BY <2>3, <3>1, <3>2, <3>3
  <2> QED BY <2>3, <2>5, <2>6, <2>7, <2>8 DEF ArtifactStore!StoreInv
<1> QED BY <1>3, <1>4

(* What is removed is forgotten.                                             *)
LEMMA EntriesAreRemoved ==
  ASSUME ArtifactStore!StoreInv, NEW k \in Artifact, entries' = [entries EXCEPT ![k] = None], ArtifactStore!Forget({k}),
         backend' = backend, rooted' = rooted, documents' = documents, failures' = failures, temporaries' = temporaries,
         cleared' = cleared, unseen' = unseen, NEW p \in Handler,
         \/ /\ pc' = [pc EXCEPT ![p] = "idle"] /\ op' = [op EXCEPT ![p] = None] /\ todo' = [todo EXCEPT ![p] = {}]
            /\ listed' = [listed EXCEPT ![p] = {}] /\ answer' \in [Handler -> ArtifactStore!Answer]
            /\ pc[p] \notin {"link", "blob"}
         \/ /\ pc' = pc /\ op' = op /\ todo' = [todo EXCEPT ![p] = todo[p] \ {k}]
            /\ listed' = listed /\ answer' = answer
  PROVE  ArtifactStore!StoreInv'
<1>1. /\ \A i \in Artifact : entries'[i] = (IF i = k THEN None ELSE entries[i]) /\ accepted'[i] = (IF i = k THEN {} ELSE accepted[i])
      /\ accepted' \in [Artifact -> SUBSET Content] /\ entries' \in [Artifact -> ArtifactStore!Envelope \union {None}]
  BY StoreTypes DEF ArtifactStore!Forget
<1>2. /\ \A q \in Handler : (pc'[q] = pc[q] /\ op'[q] = op[q]) \/ pc'[q] = "idle"
      /\ \A q \in Handler : listed'[q] \ todo'[q] \subseteq (listed[q] \ todo[q]) \union {k}
      /\ \A q \in Handler : <<q, "live">> \in temporaries => pc'[q] = pc[q]
  BY StoreTypes DEF ArtifactStore!TypeOK
<1>3. ArtifactStore!TypeOK'
  BY <1>1, StoreTypes DEF ArtifactStore!TypeOK, ArtifactStore!StorePc
<1>4. ArtifactStore!Carrying' /\ ArtifactStore!TemporariesAreTransient'
  BY <1>2 DEF ArtifactStore!StoreInv, ArtifactStore!Carrying, ArtifactStore!TemporariesAreTransient
<1>5. ArtifactStore!FiledAsAccepted'
  BY <1>1 DEF ArtifactStore!StoreInv, ArtifactStore!FiledAsAccepted
<1>6. ArtifactStore!OneWriter'
  <2> SUFFICES ASSUME NEW i \in Artifact, backend = "s3", i \notin unseen
               PROVE  /\ \A q, r \in ArtifactStore!Writers(i)' : q = r
                      /\ \A q \in ArtifactStore!Writers(i)' : entries'[i] = None \/ (pc'[q] # "write" /\ entries'[i].content = op'[q].content)
    BY DEF ArtifactStore!OneWriter
  <2>1. /\ \A q, r \in ArtifactStore!Writers(i) : q = r
        /\ \A q \in ArtifactStore!Writers(i) : entries[i] = None \/ (pc[q] # "write" /\ entries[i].content = op[q].content)
    BY DEF ArtifactStore!StoreInv, ArtifactStore!OneWriter
  <2>2. \A q \in ArtifactStore!Writers(i)' : q \in ArtifactStore!Writers(i) /\ pc'[q] = pc[q] /\ op'[q] = op[q]
    BY <1>2 DEF ArtifactStore!Writers
  <2> QED BY <1>1, <2>1, <2>2
<1>7. ArtifactStore!ListedIsGone' /\ ArtifactStore!RemovedIsGone'
  <2>1. \A q \in Handler : listed'[q] \subseteq Artifact
    BY <1>3 DEF ArtifactStore!TypeOK
  <2>2. cleared \subseteq Artifact
    BY StoreTypes DEF ArtifactStore!TypeOK
  <2> QED BY <1>1, <1>2, <2>1, <2>2 DEF ArtifactStore!StoreInv, ArtifactStore!ListedIsGone, ArtifactStore!RemovedIsGone
<1> QED BY <1>3, <1>4, <1>5, <1>6, <1>7 DEF ArtifactStore!StoreInv

LEMMA RemovalsGoOn ==
  ASSUME ArtifactStore!StoreInv, NEW p \in Handler,
         \/ \E k \in Artifact : ArtifactStore!Delete(p, k)
         \/ ArtifactStore!DeleteObject(p) \/ ArtifactStore!RemoveListed(p)
  PROVE  ArtifactStore!StoreInv'
<1>1. /\ backend' = backend /\ rooted' = rooted /\ documents' = documents /\ failures' = failures /\ temporaries' = temporaries
      /\ unseen' = unseen
  BY DEF ArtifactStore!Delete, ArtifactStore!DeleteObject, ArtifactStore!RemoveListed, ArtifactStore!NoFault, ArtifactStore!setting
<1>2. ASSUME NEW a \in ArtifactStore!Answer, ArtifactStore!Done(p, a)
      PROVE  /\ pc' = [pc EXCEPT ![p] = "idle"] /\ op' = [op EXCEPT ![p] = None] /\ todo' = [todo EXCEPT ![p] = {}]
             /\ listed' = [listed EXCEPT ![p] = {}] /\ answer' \in [Handler -> ArtifactStore!Answer]
  BY <1>2, StoreTypes DEF ArtifactStore!Done, ArtifactStore!TypeOK
<1>3. {"absent", "removed"} \subseteq ArtifactStore!Answer
  BY DEF ArtifactStore!Answer
<1>4. ASSUME NEW k \in Artifact, ArtifactStore!Delete(p, k) PROVE ArtifactStore!StoreInv'
  <2>1. /\ pc[p] = "idle" /\ entries' = [entries EXCEPT ![k] = None] /\ ArtifactStore!Forget({k}) /\ cleared' = cleared
        /\ \E a \in {"absent", "removed"} : ArtifactStore!Done(p, a)
    BY <1>4 DEF ArtifactStore!Delete
  <2> QED BY <1>1, <1>2, <1>3, <2>1, EntriesAreRemoved
<1>5. CASE ArtifactStore!DeleteObject(p)
  <2>1. /\ pc[p] = "delete" /\ entries' = [entries EXCEPT ![op[p].key] = None] /\ ArtifactStore!Forget({op[p].key})
        /\ cleared' = cleared /\ ArtifactStore!Done(p, "removed")
    BY <1>5 DEF ArtifactStore!DeleteObject
  <2>2. op[p].key \in Artifact
    BY <2>1 DEF ArtifactStore!StoreInv, ArtifactStore!Carrying
  <2> QED BY <1>1, <1>2, <1>3, <2>1, <2>2, EntriesAreRemoved
<1>6. CASE ArtifactStore!RemoveListed(p) /\ todo[p] # {}
  <2>1. PICK k \in todo[p] : /\ entries' = [entries EXCEPT ![k] = None] /\ ArtifactStore!Forget({k})
                             /\ todo' = [todo EXCEPT ![p] = @ \ {k}]
                             /\ pc' = pc /\ op' = op /\ answer' = answer /\ listed' = listed /\ cleared' = cleared
    BY <1>6 DEF ArtifactStore!RemoveListed
  <2>2. k \in Artifact /\ todo' = [todo EXCEPT ![p] = todo[p] \ {k}]
    BY <2>1, StoreTypes DEF ArtifactStore!TypeOK
  <2> QED BY <1>1, <2>1, <2>2, EntriesAreRemoved
<1>7. CASE ArtifactStore!RemoveListed(p) /\ todo[p] = {}
  <2>1. /\ pc[p] = "prefix" /\ ArtifactStore!Done(p, "removed") /\ cleared' = cleared \union listed[p]
        /\ entries' = entries /\ accepted' = accepted
    BY <1>7 DEF ArtifactStore!RemoveListed
  <2>2. /\ pc' = [pc EXCEPT ![p] = "idle"] /\ op' = [op EXCEPT ![p] = None] /\ todo' = [todo EXCEPT ![p] = {}]
        /\ listed' = [listed EXCEPT ![p] = {}] /\ answer' \in [Handler -> ArtifactStore!Answer]
    BY <1>2, <1>3, <2>1
  <2>3. \A q \in Handler : /\ pc'[q] = IF q = p THEN "idle" ELSE pc[q]
                           /\ op'[q] = IF q = p THEN None ELSE op[q]
                           /\ todo'[q] = IF q = p THEN {} ELSE todo[q]
                           /\ listed'[q] = IF q = p THEN {} ELSE listed[q]
    BY <2>2, StoreTypes DEF ArtifactStore!TypeOK
  <2>4. ArtifactStore!TypeOK'
    BY <1>1, <2>1, <2>2, StoreTypes DEF ArtifactStore!TypeOK, ArtifactStore!StorePc
  <2>5. ArtifactStore!Carrying' /\ ArtifactStore!TemporariesAreTransient'
    BY <1>1, <2>1, <2>3 DEF ArtifactStore!StoreInv, ArtifactStore!Carrying, ArtifactStore!TemporariesAreTransient
  <2>6. ArtifactStore!FiledAsAccepted' /\ ArtifactStore!OneWriter'
    BY <1>1, <2>1, <2>3 DEF ArtifactStore!StoreInv, ArtifactStore!FiledAsAccepted, ArtifactStore!OneWriter, ArtifactStore!Writers
  <2>7. ArtifactStore!ListedIsGone'
    BY <1>1, <2>1, <2>3 DEF ArtifactStore!StoreInv, ArtifactStore!ListedIsGone
  <2>8. ArtifactStore!RemovedIsGone'
    BY <1>1, <1>7, <2>1 DEF ArtifactStore!StoreInv, ArtifactStore!ListedIsGone, ArtifactStore!RemovedIsGone
  <2> QED BY <2>4, <2>5, <2>6, <2>7, <2>8 DEF ArtifactStore!StoreInv
<1> QED BY <1>4, <1>5, <1>6, <1>7

LEMMA BytesRot ==
  ASSUME ArtifactStore!StoreInv, NEW k \in Artifact, ArtifactStore!Corrupt(k) PROVE ArtifactStore!StoreInv'
<1>1. /\ backend' = backend /\ rooted' = rooted /\ documents' = documents /\ temporaries' = temporaries /\ failures' \in 0 .. MaxFaults
      /\ pc' = pc /\ op' = op /\ todo' = todo /\ answer' = answer /\ listed' = listed /\ cleared' = cleared
      /\ accepted' = accepted /\ unseen' = unseen /\ entries[k] # None
  BY StoreTypes DEF ArtifactStore!Corrupt, ArtifactStore!setting, ArtifactStore!history
<1>2. entries[k] \in ArtifactStore!Envelope
  BY <1>1, StoreTypes
<1>3. PICK b \in ArtifactStore!Rotted : entries' = [entries EXCEPT ![k].bytes = b]
  BY DEF ArtifactStore!Corrupt
<1> DEFINE e == [entries[k] EXCEPT !.bytes = b]
<1>4. e \in ArtifactStore!Envelope /\ e.content = entries[k].content
  BY <1>2 DEF ArtifactStore!Envelope, ArtifactStore!Rotted
<1>5. entries' = [entries EXCEPT ![k] = e]
  BY <1>3, StoreTypes
<1> HIDE DEF e
<1>6. /\ entries' \in [Artifact -> ArtifactStore!Envelope \union {None}] /\ e # None
      /\ \A i \in Artifact : entries'[i] = IF i = k THEN e ELSE entries[i]
  BY <1>4, <1>5, StoreTypes
<1>7. ArtifactStore!TypeOK'
  BY <1>1, <1>6, StoreTypes DEF ArtifactStore!TypeOK
<1>8. ArtifactStore!Carrying' /\ ArtifactStore!TemporariesAreTransient'
  BY <1>1 DEF ArtifactStore!StoreInv, ArtifactStore!Carrying, ArtifactStore!TemporariesAreTransient
<1>9. ArtifactStore!FiledAsAccepted'
  BY <1>1, <1>4, <1>6 DEF ArtifactStore!StoreInv, ArtifactStore!FiledAsAccepted
<1>10. ArtifactStore!OneWriter'
  BY <1>1, <1>4, <1>6 DEF ArtifactStore!StoreInv, ArtifactStore!OneWriter, ArtifactStore!Writers
<1>11. ArtifactStore!ListedIsGone' /\ ArtifactStore!RemovedIsGone'
  <2>1. cleared \subseteq Artifact /\ \A q \in Handler : listed[q] \subseteq Artifact
    BY StoreTypes DEF ArtifactStore!TypeOK
  <2> QED BY <1>1, <1>6, <2>1 DEF ArtifactStore!StoreInv, ArtifactStore!ListedIsGone, ArtifactStore!RemovedIsGone
<1> QED BY <1>7, <1>8, <1>9, <1>10, <1>11 DEF ArtifactStore!StoreInv

LEMMA StoreStarts == ASSUME ArtifactStore!Init PROVE ArtifactStore!StoreInv
<1>1. ArtifactStore!TypeOK
  <2>1. "idle" \in ArtifactStore!StorePc /\ "none" \in ArtifactStore!Answer
    BY DEF ArtifactStore!StorePc, ArtifactStore!Answer
  <2> QED BY <2>1 DEF ArtifactStore!Init, ArtifactStore!TypeOK
<1>2. \A p \in Handler : pc[p] = "idle" /\ listed[p] = {}
  BY DEF ArtifactStore!Init
<1>3. \A k \in Artifact : entries[k] = None /\ accepted[k] = {}
  BY DEF ArtifactStore!Init
<1>4. temporaries = {} /\ cleared = {}
  BY DEF ArtifactStore!Init
<1>5. \A k \in Artifact : ArtifactStore!Writers(k) = {}
  BY <1>2 DEF ArtifactStore!Writers
<1>6. ArtifactStore!OneWriter
  BY <1>5 DEF ArtifactStore!OneWriter
<1> QED BY <1>1, <1>2, <1>3, <1>4, <1>6 DEF ArtifactStore!StoreInv, ArtifactStore!Carrying,
        ArtifactStore!FiledAsAccepted, ArtifactStore!ListedIsGone,
        ArtifactStore!TemporariesAreTransient, ArtifactStore!RemovedIsGone

LEMMA StoreStep == ArtifactStore!StoreInv /\ [ArtifactStore!Next]_(ArtifactStore!storeVars) => ArtifactStore!StoreInv'
<1>1. ASSUME ArtifactStore!StoreInv, UNCHANGED ArtifactStore!storeVars PROVE ArtifactStore!StoreInv'
  BY <1>1 DEF ArtifactStore!storeVars, ArtifactStore!StoreInv, ArtifactStore!TypeOK, ArtifactStore!Carrying,
     ArtifactStore!FiledAsAccepted, ArtifactStore!OneWriter, ArtifactStore!Writers, ArtifactStore!ListedIsGone,
     ArtifactStore!TemporariesAreTransient, ArtifactStore!RemovedIsGone
<1>2. ASSUME ArtifactStore!StoreInv, NEW p \in Handler, NEW k \in Artifact, NEW c \in Content, NEW f \in Format,
             ArtifactStore!Put(p, k, c, f) \/ ArtifactStore!PutBlind(p, k, c, f)
      PROVE  ArtifactStore!StoreInv'
  BY <1>2, PutsLook, WritersBegin
<1>3. ASSUME ArtifactStore!StoreInv, ArtifactStore!Next PROVE ArtifactStore!StoreInv'
  <2>1. ArtifactStore!Listed \in SUBSET Artifact /\ \A keys : ArtifactStore!OfStage(keys) \in SUBSET Artifact
    BY DEF ArtifactStore!Listed, ArtifactStore!OfStage
  <2> QED BY <2>1, <1>2, <1>3, ReadsEnd, LosersLookAgain, RemovalsBegin, FilesAreWritten, OperationsFail, EntriesStay, ObjectsArePut,
     FilesAreLinked, RemovalsGoOn, BytesRot DEF ArtifactStore!Next
<1> QED BY <1>1, <1>3

(* One content at most came back under an identity.                          *)
LEMMA OneContentIsAccepted == ArtifactStore!StoreInv => ArtifactStore!DivergenceIsSeen
<1> SUFFICES ASSUME ArtifactStore!StoreInv, NEW k \in Artifact, ArtifactStore!Cardinality(accepted[k]) > 1
             PROVE  backend = "s3" /\ k \in unseen
  BY DEF ArtifactStore!DivergenceIsSeen
<1>1. ArtifactStore!Cardinality(accepted[k]) = Cardinality(accepted[k])
  BY DEF ArtifactStore!Cardinality, Cardinality
<1>2. /\ accepted[k] # {}
      /\ \A c : accepted[k] # {c}
  <2>1. ASSUME accepted[k] = {} PROVE FALSE
    <3>1. Cardinality(accepted[k]) = 0
      BY <2>1, FS_EmptySet
    <3> QED BY <1>1, <3>1
  <2>2. ASSUME NEW c, accepted[k] = {c} PROVE FALSE
    <3>1. Cardinality({c}) = 1
      BY FS_Singleton
    <3>2. Cardinality(accepted[k]) = 1
      BY <2>2, <3>1
    <3> QED BY <1>1, <3>2
  <2> QED BY <2>1, <2>2
<1> QED BY <1>2 DEF ArtifactStore!StoreInv, ArtifactStore!FiledAsAccepted, ArtifactStore!TypeOK, ArtifactStore!Backends

(* Bytes found damaged stay as they are until somebody removes them.         *)
LEMMA DamageIsKept == ArtifactStore!StoreInv /\ ArtifactStore!Next => ArtifactStore!KeepsEvidence
<1> SUFFICES ASSUME ArtifactStore!StoreInv, ArtifactStore!Next, NEW k \in Artifact,
                    backend = "files", entries[k] # None, entries[k].bytes # "whole"
             PROVE  entries'[k] = None \/ entries'[k].bytes # "whole"
  BY DEF ArtifactStore!KeepsEvidence
<1>1. entries \in [Artifact -> ArtifactStore!Envelope \union {None}] /\ entries[k] \in ArtifactStore!Envelope
  BY StoreTypes
<1>2. CASE entries' = entries
  BY <1>2
<1>3. ASSUME NEW i, entries' = [entries EXCEPT ![i] = None] PROVE entries'[k] = None \/ entries'[k].bytes # "whole"
  BY <1>1, <1>3
<1>4. ASSUME NEW p \in Handler, ArtifactStore!Link(p) PROVE entries'[k] = entries[k]
  BY <1>1, <1>4 DEF ArtifactStore!Link, ArtifactStore!Taken
<1>5. ASSUME NEW i \in Artifact, ArtifactStore!Corrupt(i) PROVE entries'[k].bytes # "whole"
  <2>1. PICK b \in ArtifactStore!Rotted : entries' = [entries EXCEPT ![i].bytes = b]
    BY <1>5 DEF ArtifactStore!Corrupt
  <2>2. CASE i = k
    <3>1. entries'[k] = [entries[k] EXCEPT !.bytes = b]
      BY <1>1, <2>1, <2>2
    <3> QED BY <1>1, <3>1 DEF ArtifactStore!Envelope, ArtifactStore!Rotted
  <2> QED BY <1>1, <2>1, <2>2
<1>6. \/ entries' = entries
      \/ \E i : entries' = [entries EXCEPT ![i] = None]
      \/ \E p \in Handler : ArtifactStore!Link(p)
      \/ \E i \in Artifact : ArtifactStore!Corrupt(i)
  <2>1. ASSUME NEW p \in Handler, NEW i \in Artifact, NEW c \in Content, NEW f \in Format,
               ArtifactStore!Put(p, i, c, f) \/ ArtifactStore!PutBlind(p, i, c, f) \/ ArtifactStore!Get(p, i, f)
        PROVE  entries' = entries
    BY <2>1 DEF ArtifactStore!Put, ArtifactStore!PutBlind, ArtifactStore!Get, ArtifactStore!store
  <2>3. ASSUME NEW p \in Handler,
               \/ ArtifactStore!ReplaceBlob(p) \/ ArtifactStore!Unreachable(p) \/ ArtifactStore!LinkFails(p)
               \/ ArtifactStore!Unremovable(p) \/ ArtifactStore!Crash(p)
        PROVE  entries' = entries
    BY <2>3 DEF ArtifactStore!ReplaceBlob, ArtifactStore!Unreachable, ArtifactStore!LinkFails, ArtifactStore!Unremovable,
       ArtifactStore!Crash, ArtifactStore!store
  <2>4. ASSUME NEW p \in Handler,
               \/ \E i \in Artifact : ArtifactStore!Delete(p, i)
               \/ ArtifactStore!DeleteObject(p) \/ ArtifactStore!RemoveListed(p)
        PROVE  entries' = entries \/ \E i : entries' = [entries EXCEPT ![i] = None]
    BY <2>4 DEF ArtifactStore!Delete, ArtifactStore!DeleteObject, ArtifactStore!RemoveListed
  <2>5. ASSUME NEW p \in Handler, ArtifactStore!PutObject(p) PROVE FALSE
    BY <2>5 DEF ArtifactStore!PutObject
  <2>6. ASSUME NEW p \in Handler, NEW d \in SourceDocument,
               ArtifactStore!PutBlob(p, d) \/ ArtifactStore!GetBlob(p, d) \/ ArtifactStore!DeleteBlob(p, d)
        PROVE  entries' = entries
    BY <2>6 DEF ArtifactStore!PutBlob, ArtifactStore!GetBlob, ArtifactStore!DeleteBlob, ArtifactStore!store
  <2>7. ASSUME NEW p \in Handler, NEW S,
               \/ ArtifactStore!Clear(p, S) \/ ArtifactStore!WriteTemporary(p) \/ ArtifactStore!Relook(p)
               \/ ArtifactStore!RelookObject(p) \/ ArtifactStore!DeletePrefix(p)
        PROVE  entries' = entries
    BY <2>7 DEF ArtifactStore!Clear, ArtifactStore!WriteTemporary, ArtifactStore!Relook, ArtifactStore!RelookObject,
       ArtifactStore!DeletePrefix, ArtifactStore!store
  <2>2. ASSUME NEW p \in Handler, NEW i \in Artifact, ArtifactStore!HeadObject(p, i) PROVE entries' = entries
    BY <2>2 DEF ArtifactStore!HeadObject, ArtifactStore!store
  <2> QED BY <2>1, <2>2, <2>3, <2>4, <2>5, <2>6, <2>7 DEF ArtifactStore!Next
<1> QED BY <1>2, <1>3, <1>4, <1>5, <1>6

HIDE StoreAssumption DEF backend, rooted, entries, documents, temporaries, pc, op, todo, answer, failures, listed, cleared,
                         accepted, unseen

-----------------------------------------------------------------------------
==============================================================================
