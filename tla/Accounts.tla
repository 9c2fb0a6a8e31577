------------------------------ MODULE Accounts ------------------------------
(***************************************************************************)
(* The console's accounts and sessions (src/docdoc/runs/console_accounts   *)
(* .py behind src/docdoc/api/console.py and `docdoc console-user`).  Every *)
(* statement commits on its own, so each is one step; scrypt runs between  *)
(* the statement that reads an account and the one that answers.           *)
(***************************************************************************)
EXTENDS Naturals, FiniteSets

CONSTANTS
  User, Password,
  Browser,          \* requests under way at once
  Operator,         \* `docdoc console-user` commands under way at once
  MaxFailedLogins,  \* MAX_FAILED_LOGINS
  Lockout,          \* LOCKOUT
  Idle,             \* the deployment's idle bound for a session
  MaxSessions,      \* bound: tokens ever issued
  MaxTime,          \* bound: ticks of the clock
  NoAccount

Time  == 0 .. MaxTime
Token == 1 .. MaxSessions
\* A row of console_users; lockedUntil is 0 where the column is NULL.
Account == [password: Password, disabled: BOOLEAN, failed: Nat, lockedUntil: Nat]
\* A row of console_sessions.  `password` is history: what was verified.
Session == [user: User, seen: Time, password: Password]

VARIABLES
  accounts, sessions, time,
  tokens,      \* tokens issued so far
  request,     \* what each request in flight has read
  command,     \* the user whose sessions a command has still to delete
  guesses,     \* history: wrong passwords compared since the counter was cleared
  interrupted  \* history: users whose sessions a command died before deleting

accountVars == <<accounts, sessions, time, tokens, request, command, guesses, interrupted>>

Idling == [step |-> "idle"]
Request == {Idling}
  \union [step: {"verified", "wrong"}, user: User, password: Password, now: Time]
  \union [step: {"dead", "alive"}, token: Token, now: Time]

TypeOK ==
  /\ accounts \in [User -> Account \union {NoAccount}]
  /\ \A u \in User : accounts[u] # NoAccount =>
       accounts[u].failed < MaxFailedLogins /\ accounts[u].lockedUntil <= MaxTime + Lockout
  /\ \E live \in SUBSET Token : sessions \in [live -> Session]
  /\ time \in Time /\ tokens \in 0 .. MaxSessions
  /\ request \in [Browser -> Request]
  /\ command \in [Operator -> User \union {NoAccount}]
  /\ guesses \in [User -> Nat] /\ interrupted \subseteq User

Init ==
  /\ accounts = [u \in User |-> NoAccount]
  /\ sessions = [t \in {} |-> 0]
  /\ time = 0 /\ tokens = 0
  /\ request = [b \in Browser |-> Idling]
  /\ command = [o \in Operator |-> NoAccount]
  /\ guesses = [u \in User |-> 0] /\ interrupted = {}

Active(u) == accounts[u] # NoAccount /\ ~accounts[u].disabled

\* Whether a row refuses logins, by the clock of the request that asks.
Locked(account, now) == account.lockedUntil # 0 /\ now < account.lockedUntil

Alive(session, now) == now < session.seen + Idle

Without(gone) == [t \in DOMAIN sessions \ gone |-> sessions[t]]

-----------------------------------------------------------------------------
(* `docdoc console-user`                                                   *)

Fresh(p) == [password |-> p, disabled |-> FALSE, failed |-> 0, lockedUntil |-> 0]

Cleared(u) == guesses' = [guesses EXCEPT ![u] = 0]

\* A new account, or a disabled one revived: the sessions are left alone.
Add(o, u, p) ==
  /\ command[o] = NoAccount /\ ~Active(u)
  /\ accounts' = [accounts EXCEPT ![u] = Fresh(p)]
  /\ Cleared(u)
  /\ UNCHANGED <<sessions, time, tokens, request, command, interrupted>>

SetPassword(o, u, p) ==
  /\ command[o] = NoAccount /\ Active(u)
  /\ accounts' = [accounts EXCEPT ![u] = Fresh(p)]
  /\ command' = [command EXCEPT ![o] = u]
  /\ Cleared(u)
  /\ UNCHANGED <<sessions, time, tokens, request, interrupted>>

Disable(o, u) ==
  /\ command[o] = NoAccount /\ Active(u)
  /\ accounts' = [accounts EXCEPT ![u].disabled = TRUE]
  /\ command' = [command EXCEPT ![o] = u]
  /\ UNCHANGED <<sessions, time, tokens, request, guesses, interrupted>>

\* The second statement of either.
SignEveryoneOut(o) ==
  /\ command[o] # NoAccount
  /\ sessions' = Without({t \in DOMAIN sessions : sessions[t].user = command[o]})
  /\ interrupted' = interrupted \ {command[o]}
  /\ command' = [command EXCEPT ![o] = NoAccount]
  /\ UNCHANGED <<accounts, time, tokens, request, guesses>>

\* The command dies, or its second connection fails: nothing repeats it.
Interrupt(o) ==
  /\ command[o] # NoAccount
  /\ interrupted' = interrupted \union {command[o]}
  /\ command' = [command EXCEPT ![o] = NoAccount]
  /\ UNCHANGED <<accounts, sessions, time, tokens, request, guesses>>

-----------------------------------------------------------------------------
(* login                                                                   *)

\* One read decides whether the password is compared at all, and with what.
Login(b, u, p) ==
  /\ request[b] = Idling /\ tokens < MaxSessions
  /\ Active(u) /\ ~Locked(accounts[u], time)
  /\ request' = [request EXCEPT ![b] =
       [step |-> IF p = accounts[u].password THEN "verified" ELSE "wrong",
        user |-> u, password |-> p, now |-> time]]
  /\ guesses' = IF p = accounts[u].password THEN guesses ELSE [guesses EXCEPT ![u] = @ + 1]
  /\ UNCHANGED <<accounts, sessions, time, tokens, command, interrupted>>

VerifiedOnce(r) == TRUE

\* What the statement that opens the session states again.
StillVerified(r) ==
  /\ Active(r.user) /\ accounts[r.user].password = r.password
  /\ ~Locked(accounts[r.user], r.now)

OpenSession(b) ==
  LET r == request[b] IN
  /\ r.step = "verified" /\ StillVerified(r)
  /\ tokens < MaxSessions /\ tokens' = tokens + 1
  /\ sessions' = [t \in DOMAIN sessions \union {tokens'} |->
       IF t = tokens' THEN [user |-> r.user, seen |-> r.now, password |-> r.password]
                      ELSE sessions[t]]
  /\ accounts' = [accounts EXCEPT ![r.user].failed = 0, ![r.user].lockedUntil = 0]
  /\ Cleared(r.user)
  /\ request' = [request EXCEPT ![b] = Idling]
  /\ UNCHANGED <<time, command, interrupted>>

CountUnchecked(account, now) == TRUE

\* The row the failure is counted in, as the UPDATE finds it.
MayCount(account, now) == ~Locked(account, now)

\* The failure that reaches the limit does not lock, the next one does.
AfterFailureLate(account, now) ==
  IF account.failed >= MaxFailedLogins
  THEN [account EXCEPT !.failed = 0, !.lockedUntil = now + Lockout]
  ELSE [account EXCEPT !.failed = @ + 1, !.lockedUntil = 0]

AfterFailure(account, now) ==
  IF account.failed + 1 >= MaxFailedLogins
  THEN [account EXCEPT !.failed = 0, !.lockedUntil = now + Lockout]
  ELSE [account EXCEPT !.failed = @ + 1, !.lockedUntil = 0]

\* A wrong password, or a right one whose account changed meanwhile.
RecordFailure(b) ==
  LET r == request[b]
      counts == MayCount(accounts[r.user], r.now) IN
  /\ \/ r.step = "wrong"
     \/ r.step = "verified" /\ ~StillVerified(r)
  /\ accounts' = IF counts THEN [accounts EXCEPT ![r.user] = AfterFailure(@, r.now)]
                           ELSE accounts
  /\ guesses' = IF counts /\ accounts'[r.user].lockedUntil # 0
                THEN [guesses EXCEPT ![r.user] = 0] ELSE guesses
  /\ request' = [request EXCEPT ![b] = Idling]
  /\ UNCHANGED <<sessions, time, tokens, command, interrupted>>

-----------------------------------------------------------------------------
(* The gate in front of every other route, and signing out                 *)

\* Whether a session lets a request through, as the one read finds it.
LetsThrough(session, now) == ~accounts[session.user].disabled /\ Alive(session, now)

Resolve(b, t) ==
  /\ request[b] = Idling /\ t \in DOMAIN sessions
  /\ request' = [request EXCEPT ![b] =
       [step |-> IF LetsThrough(sessions[t], time) THEN "alive" ELSE "dead",
        token |-> t, now |-> time]]
  /\ UNCHANGED <<accounts, sessions, time, tokens, command, guesses, interrupted>>

\* The session is touched, unless it is gone by now.  Without one nobody comes
\* past the gate.
Touch(b) ==
  LET r == request[b] IN
  /\ r.step = "alive"
  /\ sessions' = IF r.token \in DOMAIN sessions
                 THEN [sessions EXCEPT ![r.token].seen = r.now] ELSE sessions
  /\ request' = [request EXCEPT ![b] = Idling]
  /\ UNCHANGED <<accounts, time, tokens, command, guesses, interrupted>>

\* The refused session is deleted, or the route behind the gate signs out.
End(b) ==
  LET r == request[b] IN
  /\ r.step \in {"dead", "alive"}
  /\ sessions' = Without({r.token})
  /\ request' = [request EXCEPT ![b] = Idling]
  /\ UNCHANGED <<accounts, time, tokens, command, guesses, interrupted>>

Tick ==
  /\ time < MaxTime /\ time' = time + 1
  /\ UNCHANGED <<accounts, sessions, tokens, request, command, guesses, interrupted>>

Administer(o) ==
  \/ \E u \in User, p \in Password : Add(o, u, p) \/ SetPassword(o, u, p)
  \/ \E u \in User : Disable(o, u)
  \/ SignEveryoneOut(o) \/ Interrupt(o)

SignIn(b) ==
  \/ \E u \in User, p \in Password : Login(b, u, p)
  \/ OpenSession(b) \/ RecordFailure(b)

Visit(b) == (\E t \in Token : Resolve(b, t)) \/ Touch(b) \/ End(b)

Next ==
  \/ \E o \in Operator : Administer(o)
  \/ \E b \in Browser : SignIn(b) \/ Visit(b)
  \/ Tick

Spec == Init /\ [][Next]_accountVars

-----------------------------------------------------------------------------
(* Properties                                                              *)

InForce(u) == accounts[u] # NoAccount /\ Locked(accounts[u], time)

\* A lock in force is neither lifted nor moved, by however many logins that
\* read the account before it was locked: only an operator who sets a
\* password or revives the account ends it early.
HoldsLocks == \A u \in User :
  InForce(u) => \/ accounts'[u].lockedUntil = accounts[u].lockedUntil
                \/ \E o \in Operator, p \in Password : Add(o, u, p) \/ SetPassword(o, u, p)
LocksHold == [][HoldsLocks]_accountVars

\* Guessing concurrently gains at most one guess per request in flight: between
\* two times the counter is cleared, the wrong passwords compared are those it
\* counts and those whose requests are still to count them.
GuessesAreBounded == \A u \in User :
  guesses[u] <= MaxFailedLogins - 1 + Cardinality(Browser)

\* Whoever holds a session knows the password the account has now, unless the
\* deletion that goes with a change is still to come or died on its way.
SessionsAreCurrent == \A t \in DOMAIN sessions : LET u == sessions[t].user IN
  \/ sessions[t].password = accounts[u].password /\ ~accounts[u].disabled
  \/ \E o \in Operator : command[o] = u
  \/ u \in interrupted

-----------------------------------------------------------------------------
(* What makes the properties inductive                                     *)

LoggingIn(b) == request[b].step \in {"verified", "wrong"}

\* Requests read accounts that exist, and the clock before now; sessions are of
\* users that exist.
RequestsAreKnown ==
  /\ \A b \in Browser : LoggingIn(b) =>
       accounts[request[b].user] # NoAccount /\ request[b].now <= time
  /\ \A t \in DOMAIN sessions : accounts[sessions[t].user] # NoAccount

\* The wrong passwords for u that are still to be counted.
Uncounted(u) == {b \in Browser :
  /\ request[b].step = "wrong" /\ request[b].user = u
  /\ MayCount(accounts[u], request[b].now)}

\* Every wrong password compared is counted, or will be.
GuessesAreCounted == \A u \in User :
  IF accounts[u] = NoAccount THEN guesses[u] = 0
  ELSE guesses[u] <= accounts[u].failed + Cardinality(Uncounted(u))

AccountInv == TypeOK /\ RequestsAreKnown /\ GuessesAreCounted /\ SessionsAreCurrent

=============================================================================
