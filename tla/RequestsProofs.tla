---------------------------- MODULE RequestsProofs ----------------------------
(* What the HTTP surface says of runs, for every number of tenants, requests, *)
(* runs and pages, and how many runs it admits.                               *)
EXTENDS Requests, FiniteSetTheorems, TLAPS

scene == v1
instant == v2
row == v3
stone == v4
onFile == v5
result == v6
checks == v7
callback == v8
handler == v9
told == v10
held == v11
walk == v12

USE ApiAssumption DEF scene, instant, row, stone, onFile, result, checks, callback, handler, told, held, walk

-----------------------------------------------------------------------------
(* Pages                                                                     *)

(* A finite set has an element that nothing in it precedes.                  *)
LEMMA Foremost ==
  ASSUME NEW S, S # {}, IsFiniteSet(S), NEW R,
         \A x \in S : <<x, x>> \notin R,
         \A x, y, z \in S : <<x, y>> \in R /\ <<y, z>> \in R => <<x, z>> \in R
  PROVE  \E x \in S : \A y \in S : <<y, x>> \notin R
<1> DEFINE Before(x) == {y \in S : <<y, x>> \in R}
           T == {Before(x) : x \in S}
<1>1. T \subseteq FiniteSubsetsOf(S) /\ T # {}
  <2>1. \A x \in S : Before(x) \in SUBSET S /\ IsFiniteSet(Before(x))
    BY FS_Subset
  <2> HIDE DEF Before
  <2> QED BY <2>1 DEF FiniteSubsetsOf
<1>2. PICK A \in T : \A B \in T : ~(<<B, A>> \in StrictSubsetOrdering(S))
  <2> HIDE DEF T
  <2> QED BY <1>1, FS_StrictSubsetOrderingWellFounded, WFMin
<1>3. PICK x \in S : A = Before(x)
  OBVIOUS
<1>4. ASSUME NEW y \in S, <<y, x>> \in R PROVE FALSE
  <2>1. /\ \A z : z \in Before(y) <=> z \in S /\ <<z, y>> \in R
        /\ \A z : z \in Before(x) <=> z \in S /\ <<z, x>> \in R
    OBVIOUS
  <2>2. Before(y) \in T
    OBVIOUS
  <2> HIDE DEF Before
  <2>3. Before(y) \subseteq Before(x) /\ y \in Before(x) /\ y \notin Before(y)
    BY <1>4, <2>1
  <2>4. Before(y) \in SUBSET S /\ Before(x) \in SUBSET S
    BY <2>1
  <2>5. <<Before(y), Before(x)>> \in StrictSubsetOrdering(S)
    BY <2>3, <2>4 DEF StrictSubsetOrdering
  <2> QED BY <1>2, <1>3, <2>2, <2>5
<1> QED BY <1>4

(* Rows are listed in a total order, the newest first.                       *)
LEMMA RowsAreOrdered ==
  ASSUME Api!TypeOK
  PROVE  /\ \A r \in ApiRun : ~Api!Newer(r, r) /\ row[r].created \in Nat
         /\ \A r, s \in ApiRun : r = s \/ Api!Newer(r, s) \/ Api!Newer(s, r)
         /\ \A r, s \in ApiRun : ~(Api!Newer(r, s) /\ Api!Newer(s, r))
         /\ \A r, s, t \in ApiRun : Api!Newer(r, s) /\ Api!Newer(s, t) => Api!Newer(r, t)
         /\ \A r, s \in ApiRun : Api!OlderThan(r, [created |-> row[s].created, run |-> s]) <=> Api!Newer(s, r)
<1>1. \A r \in ApiRun : row[r].created \in Nat /\ r \in Nat
  BY DEF Api!TypeOK, Api!RunRow
<1> QED BY <1>1 DEF Api!Newer, Api!OlderThan

(* A page is the newest rows of what is left, as many as go on it.           *)
LEMMA PagesAre ==
  ASSUME Api!TypeOK, NEW S \in SUBSET ApiRun, NEW page, page = Api!Page(S)
  PROVE  /\ page \subseteq S /\ IsFiniteSet(page) /\ Api!Cardinality(page) \in 0 .. PageSize
         /\ Api!Cardinality(page) # PageSize => page = S
         /\ Api!Cardinality(page) = PageSize =>
              LET last == CHOOSE r \in page : \A s \in page : s = r \/ Api!Newer(s, r) IN
              /\ last \in page
              /\ \A s \in page : s = last \/ Api!Newer(s, last)
              /\ \A s \in S \ page : Api!Newer(last, s)
<1> DEFINE Ahead(r) == {s \in S : Api!Newer(s, r)}
           last == CHOOSE r \in page : \A s \in page : s = r \/ Api!Newer(s, r)
<1>1. \A X : Api!Cardinality(X) = Cardinality(X)
  BY DEF Api!Cardinality, Cardinality
<1>2. /\ page \subseteq S /\ IsFiniteSet(S) /\ IsFiniteSet(page)
      /\ \A r \in S : r \in page <=> Cardinality(Ahead(r)) < PageSize
  BY <1>1, FS_Subset DEF Api!Page
<1>3. ASSUME NEW r \in S PROVE IsFiniteSet(Ahead(r)) /\ Cardinality(Ahead(r)) \in Nat
  BY <1>2, FS_Subset, FS_CardinalityType
<1>4. /\ \A r \in S : \A s : s \in Ahead(r) <=> s \in S /\ Api!Newer(s, r)
      /\ \A r \in S : Ahead(r) \subseteq S
  OBVIOUS
<1> HIDE DEF Ahead
<1>5. ASSUME NEW r \in page, NEW s \in S, Api!Newer(s, r) PROVE s \in page
  <2>1. Ahead(s) \subseteq Ahead(r)
    BY <1>2, <1>4, <1>5, RowsAreOrdered
  <2>2. Cardinality(Ahead(s)) <= Cardinality(Ahead(r))
    BY <1>2, <1>3, <2>1, FS_Subset
  <2> QED BY <1>2, <1>3, <2>2
<1>6. ASSUME page # {}
      PROVE  last \in page /\ \A s \in page : s = last \/ Api!Newer(s, last)
  <2> DEFINE R == {e \in ApiRun \X ApiRun : Api!Newer(e[2], e[1])}
  <2>1. \A x, y \in ApiRun : <<x, y>> \in R <=> Api!Newer(y, x)
    OBVIOUS
  <2> HIDE DEF R
  <2>2. page \subseteq ApiRun
    BY <1>2
  <2>3. \E x \in page : \A y \in page : <<y, x>> \notin R
    <3>1. /\ \A x \in page : <<x, x>> \notin R
          /\ \A x, y, z \in page : <<x, y>> \in R /\ <<y, z>> \in R => <<x, z>> \in R
      BY <2>1, <2>2, RowsAreOrdered
    <3> QED BY <1>2, <1>6, <3>1, Foremost
  <2>4. \E x \in page : \A s \in page : s = x \/ Api!Newer(s, x)
    BY <2>1, <2>2, <2>3, RowsAreOrdered
  <2> QED BY <2>4
<1> HIDE DEF last
<1>7. Cardinality(page) \in 0 .. PageSize
  <2>1. CASE page = {}
    BY <2>1, FS_EmptySet
  <2>2. CASE page # {}
    <3>1. last \in S /\ page \subseteq Ahead(last) \union {last} /\ last \notin Ahead(last)
      BY <1>2, <1>4, <1>6, <2>2, RowsAreOrdered
    <3>2. /\ IsFiniteSet(Ahead(last) \union {last})
          /\ Cardinality(Ahead(last) \union {last}) = Cardinality(Ahead(last)) + 1
      BY <1>3, <3>1, FS_AddElement
    <3>3. Cardinality(page) <= Cardinality(Ahead(last)) + 1
      BY <3>1, <3>2, FS_Subset
    <3>4. Cardinality(Ahead(last)) < PageSize /\ Cardinality(Ahead(last)) \in Nat /\ Cardinality(page) \in Nat
      BY <1>2, <1>3, <1>6, <2>2, FS_CardinalityType
    <3> QED BY <3>3, <3>4
  <2> QED BY <2>1, <2>2
<1>8. ASSUME Cardinality(page) # PageSize PROVE page = S
  <2> SUFFICES ASSUME S \ page # {} PROVE FALSE
    BY <1>2
  <2> DEFINE rest == S \ page
             R == {e \in ApiRun \X ApiRun : Api!Newer(e[1], e[2])}
  <2>1. \A x, y \in ApiRun : <<x, y>> \in R <=> Api!Newer(x, y)
    OBVIOUS
  <2>2. rest \subseteq ApiRun /\ IsFiniteSet(rest) /\ rest # {}
    BY <1>2, FS_Subset
  <2>3. \A x : x \in rest <=> x \in S /\ x \notin page
    OBVIOUS
  <2> HIDE DEF R, rest
  <2>4. PICK x \in rest : \A y \in rest : <<y, x>> \notin R
    <3>1. /\ \A y \in rest : <<y, y>> \notin R
          /\ \A t, y, z \in rest : <<t, y>> \in R /\ <<y, z>> \in R => <<t, z>> \in R
      BY <2>1, <2>2, RowsAreOrdered
    <3> QED BY <2>2, <3>1, Foremost
  <2>5. x \in S /\ Ahead(x) \subseteq page
    BY <1>2, <1>4, <2>1, <2>2, <2>3, <2>4
  <2>6. Cardinality(Ahead(x)) <= Cardinality(page)
    BY <1>2, <2>5, FS_Subset
  <2> QED BY <1>2, <1>3, <1>7, <1>8, <2>3, <2>5, <2>6
<1>9. ASSUME Cardinality(page) = PageSize
      PROVE  /\ last \in page
             /\ \A s \in page : s = last \/ Api!Newer(s, last)
             /\ \A s \in S \ page : Api!Newer(last, s)
  <2>1. page # {}
    BY <1>9, FS_EmptySet
  <2> QED BY <1>2, <1>5, <1>6, <2>1, RowsAreOrdered
<1> QED BY <1>1, <1>2, <1>7, <1>8, <1>9 DEF last

-----------------------------------------------------------------------------
(* How runs go on                                                            *)

(* What one step may make of a run: nothing, more of it, nothing any more,   *)
(* or a run of what was none.                                                *)
Stays(r) == row'[r] = row[r] /\ stone'[r] = stone[r]
Proceeds(r) ==
  /\ row[r].tenant # None /\ stone'[r] = stone[r]
  /\ row'[r].tenant = row[r].tenant /\ row'[r].key = row[r].key
  /\ row'[r].created = row[r].created /\ row'[r].callback = row[r].callback
  /\ row[r].status \in Api!Over => row'[r].status \in Api!Over
Goes(r) == row[r].tenant # None /\ row'[r] = Api!NoRun /\ stone'[r] = row[r].tenant
Comes(r) == row[r].tenant = None /\ stone[r] = None /\ row'[r].tenant # None /\ stone'[r] = None
RunsGoOn == \A r \in ApiRun : Stays(r) \/ Proceeds(r) \/ Goes(r) \/ Comes(r)
CallbacksStay == \A c \in Callback : callback[c].owner # None => callback'[c].owner = callback[c].owner

(* Who it is of stays, how far it has come is never undone, a key it holds   *)
(* it keeps.                                                                 *)
LEMMA RunGoesOn ==
  ASSUME Api!TypeOK, Api!TablesAgree, NEW r \in ApiRun, Stays(r) \/ Proceeds(r) \/ Goes(r) \/ Comes(r)
  PROVE  /\ stone[r] # None => stone'[r] = stone[r]
         /\ Api!OwnerOf(r) # None => Api!OwnerOf(r)' = Api!OwnerOf(r)
         /\ Api!Fate(r) \in 0 .. 3 /\ Api!Fate(r)' \in 0 .. 3 /\ Api!Fate(r) <= Api!Fate(r)'
         /\ row[r].tenant # None =>
              stone'[r] # None \/ (row'[r].tenant = row[r].tenant /\ row'[r].key = row[r].key /\ row'[r].created = row[r].created)
         /\ stone'[r] # None => row'[r].tenant = None
         /\ row'[r].tenant = None => row'[r] = Api!NoRun
<1>1. /\ stone[r] # None => row[r].tenant = None
      /\ row[r].tenant = None => row[r] = Api!NoRun
  BY DEF Api!TablesAgree
<1>2. Api!NoRun.tenant = None
  BY DEF Api!NoRun
<1> QED BY <1>1, <1>2 DEF Stays, Proceeds, Goes, Comes, Api!OwnerOf, Api!Fate

LEMMA KeysAreKept ==
  ASSUME Api!TypeOK, Api!TablesAgree, RunsGoOn, NEW r \in ApiRun, NEW t, NEW k, Api!Holds(r, t, k)
  PROVE  Api!Holds(r, t, k)'
<1>1. Stays(r) \/ Proceeds(r) \/ Goes(r) \/ Comes(r)
  BY DEF RunsGoOn
<1>2. CASE stone[r] # None
  BY <1>1, <1>2, RunGoesOn DEF Api!Holds
<1>3. CASE r \in Api!Holders(t, k) /\ row[r].tenant # None
  BY <1>1, <1>3, RunGoesOn DEF Api!Holds, Api!Holders
<1>4. CASE r \in Api!Holders(t, k) /\ row[r].tenant = None /\ stone[r] = None
  <2>1. row[r].key = None /\ k # None /\ row[r].key = k
    BY <1>4 DEF Api!TablesAgree, Api!NoRun, Api!Holders
  <2> QED BY <2>1
<1> QED BY <1>2, <1>3, <1>4 DEF Api!Holds

LEMMA Scopes ==
  ASSUME NEW who \in Api!Caller, NEW t \in Api!Scope(who)
  PROVE  t \in Tenant /\ t # None
BY DEF Api!Caller, Api!Scope

(* What a request holds to, it holds to while it waits.                      *)
LEMMA RequestStays ==
  ASSUME Api!TypeOK, Api!TablesAgree, RunsGoOn, CallbacksStay, NEW q \in Api!Request, Api!Stands(q)
  PROVE  Api!Stands(q)'
<1>1. /\ q.who \in Api!Caller /\ q.tenant \in Api!Scope(q.who) /\ q.run \in ApiRun
      /\ Api!Placed(q) /\ Api!Placed(q)' /\ q.tenant # None
  BY Scopes DEF Api!Stands, Api!Placed, Api!Scope
<1>2. /\ stone[q.run] # None => stone'[q.run] = stone[q.run]
      /\ Api!OwnerOf(q.run) # None => Api!OwnerOf(q.run)' = Api!OwnerOf(q.run)
      /\ Api!Fate(q.run) \in 0 .. 3 /\ Api!Fate(q.run)' \in 0 .. 3 /\ Api!Fate(q.run) <= Api!Fate(q.run)'
  BY <1>1, RunGoesOn DEF RunsGoOn
<1>3. q.knew \in 0 .. 3 /\ Api!Rank(q.answer) \in 0 .. 3
  BY DEF Api!Request, Api!Rank
<1>4. Api!Says(q)'
  BY <1>1, <1>2, <1>3 DEF Api!Stands, Api!Says
<1>5. Api!Looks(q) => Api!Looks(q)'
  BY <1>1, <1>2, <1>3 DEF Api!Looks
<1>6. ASSUME q.op = "submit" PROVE Api!Submits(q)'
  <2>1. Api!Submits(q)
    BY <1>6 DEF Api!Stands
  <2>2. q.first \in ApiRun \union {None} /\ q.callback \in Callback \union {None}
    BY DEF Api!Request
  <2>3. q.pc = "insert" /\ q.callback # None => callback'[q.callback].owner = q.tenant
    BY <1>1, <2>1, <2>2 DEF Api!Submits, CallbacksStay
  <2>4. q.key # None /\ q.first # None => Api!Holds(q.first, q.tenant, q.key)'
    BY <2>1, <2>2, KeysAreKept DEF Api!Submits
  <2>5. q.pc = "done" /\ q.key # None /\ Api!Rank(q.answer) > 0 =>
          Api!Holds(q.run, q.tenant, q.key)'
    BY <1>1, <2>1, KeysAreKept DEF Api!Submits
  <2>6. q.first \in ApiRun /\ stone[q.first] # None => stone'[q.first] # None
    BY RunGoesOn DEF RunsGoOn
  <2>7. q.pc = "done" /\ q.key # None /\ Api!Rank(q.answer) > 0 => q.first \in {None, q.run} \/ stone'[q.first] # None
    BY <2>1, <2>2, <2>6 DEF Api!Submits
  <2> QED BY <2>3, <2>4, <2>5, <2>7 DEF Api!Submits, Api!Rank
<1> QED BY <1>1, <1>4, <1>5, <1>6 DEF Api!Stands

LEMMA StandsNow ==
  ASSUME NEW g \in Handler, NEW q, q = handler'[g], Api!Stands(q)'
  PROVE  (Api!Stands(handler[g]))'
<1>1. (Api!Placed(handler[g]))'
  BY DEF Api!Stands, Api!Placed, Api!Scope
<1>2. (Api!Says(handler[g]))'
  BY DEF Api!Stands, Api!Says, Api!Fate, Api!OwnerOf
<1>3. q.op \in {"state", "result", "check", "cancel"} => (Api!Looks(handler[g]))'
  BY DEF Api!Stands, Api!Looks, Api!Fate, Api!OwnerOf
<1>4. q.op = "submit" => (Api!Submits(handler[g]))'
  BY DEF Api!Stands, Api!Submits, Api!Holds, Api!Holders
<1> QED BY <1>1, <1>2, <1>3, <1>4 DEF Api!Stands

(* One request moves, and the others wait.                                   *)
LEMMA RequestsGoOn ==
  ASSUME Api!ApiInv, RunsGoOn, CallbacksStay, NEW h \in Handler, NEW q \in Api!Request,
         handler' = [handler EXCEPT ![h] = q], q.pc # "idle" => Api!Stands(q)'
  PROVE  Api!RequestsStand'
<1>1. handler' \in [Handler -> Api!Request]
  BY DEF Api!ApiInv, Api!RequestsStand
<1>2. ASSUME NEW g \in Handler, handler'[g].pc # "idle" PROVE (Api!Stands(handler[g]))'
  <2>1. CASE g = h
    <3>1. q = handler'[g] /\ Api!Stands(q)'
      BY <1>2, <2>1 DEF Api!ApiInv, Api!RequestsStand
    <3> QED BY <3>1, StandsNow
  <2>2. CASE g # h
    <3>1. PICK p \in Api!Request : p = handler[g]
      BY DEF Api!ApiInv, Api!RequestsStand
    <3>2. handler'[g] = p /\ Api!Stands(p)
      BY <1>2, <2>2, <3>1 DEF Api!ApiInv, Api!RequestsStand, Api!At
    <3>3. Api!Stands(p)'
      BY <3>2, RequestStays DEF Api!ApiInv
    <3> QED BY <3>2, <3>3, StandsNow
  <2> QED BY <2>1, <2>2
<1> QED BY <1>1, <1>2 DEF Api!RequestsStand, Api!At

LEMMA RequestsWait ==
  ASSUME Api!ApiInv, RunsGoOn, CallbacksStay, handler' = handler
  PROVE  Api!RequestsStand'
<1>1. ASSUME NEW g \in Handler, handler'[g].pc # "idle" PROVE (Api!Stands(handler[g]))'
  <2>1. PICK p \in Api!Request : p = handler[g]
    BY DEF Api!ApiInv, Api!RequestsStand
  <2>2. handler'[g] = p /\ Api!Stands(p)
    BY <1>1, <2>1 DEF Api!ApiInv, Api!RequestsStand, Api!At
  <2>3. Api!Stands(p)'
    BY <2>2, RequestStays DEF Api!ApiInv
  <2> QED BY <2>2, <2>3, StandsNow
<1>2. handler' \in [Handler -> Api!Request]
  BY DEF Api!ApiInv, Api!RequestsStand
<1> QED BY <1>1, <1>2 DEF Api!RequestsStand, Api!At

(* A walk owes nothing that is removed on its way.                           *)
LEMMA WalkGoesOn ==
  ASSUME Api!ApiInv, RunsGoOn, NEW left \in SUBSET walk.owed, walk' = [walk EXCEPT !.owed = left],
         \A r \in left : ~Goes(r)
  PROVE  Api!WalkIsOnCourse'
<1>1. Api!TypeOK /\ Api!TablesAgree /\ Api!WalkIsOnCourse
  BY DEF Api!ApiInv
<1>2. /\ walk' \in [who : Api!Caller \union {None}, before : Api!Cursor \union {None}, seen : SUBSET ApiRun,
                    twice : BOOLEAN, owed : SUBSET ApiRun, missed : SUBSET ApiRun]
      /\ walk'.who = walk.who /\ walk'.before = walk.before /\ walk'.seen = walk.seen /\ walk'.twice = walk.twice
      /\ walk'.owed = left /\ walk'.missed = walk.missed
      /\ walk.seen \subseteq ApiRun /\ left \subseteq ApiRun
  BY <1>1 DEF Api!WalkIsOnCourse
<1>3. /\ walk.who = None => walk.seen = {} /\ left = {}
      /\ walk.seen # {} => walk.before # None
      /\ ~walk.twice /\ walk.missed = {}
  BY <1>1 DEF Api!WalkIsOnCourse, Api!PagesMissNothing
<1>4. ASSUME NEW r \in left PROVE r \in walk.seen \/ r \in Api!Rest(walk.who, walk.before)'
  <2>1. r \in walk.seen \/ r \in Api!Rest(walk.who, walk.before)
    BY <1>1 DEF Api!WalkIsOnCourse
  <2>2. CASE r \in Api!Rest(walk.who, walk.before)
    <3>1. r \in ApiRun /\ row[r].tenant # None /\ ~Goes(r)
      BY <2>2 DEF Api!Rest, Api!Listed
    <3>2. row'[r].tenant = row[r].tenant /\ row'[r].created = row[r].created
      BY <3>1 DEF RunsGoOn, Stays, Proceeds, Comes
    <3> QED BY <1>2, <2>2, <3>1, <3>2 DEF Api!Rest, Api!Listed, Api!OlderThan
  <2> QED BY <2>1, <2>2
<1>5. ASSUME NEW r \in walk.seen
      PROVE  stone'[r] # None \/ (row'[r].tenant # None /\ ~Api!OlderThan(r, walk.before)')
  <2>1. r \in ApiRun /\ (stone[r] # None \/ (row[r].tenant # None /\ ~Api!OlderThan(r, walk.before)))
    BY <1>1, <1>2 DEF Api!WalkIsOnCourse
  <2>2. /\ stone[r] # None => stone'[r] = stone[r]
        /\ row[r].tenant # None =>
             stone'[r] # None \/ (row'[r].tenant = row[r].tenant /\ row'[r].created = row[r].created)
    BY <1>1, <2>1, RunGoesOn DEF RunsGoOn
  <2> QED BY <1>2, <2>1, <2>2 DEF Api!OlderThan
<1>6. Api!PagesMissNothing'
  BY <1>2, <1>3 DEF Api!PagesMissNothing
<1> QED BY <1>2, <1>3, <1>4, <1>5, <1>6 DEF Api!WalkIsOnCourse, Api!Rest, Api!Listed, Api!OlderThan

(* Rows that go on without new ones agree as they did.                       *)
LEMMA TablesGoOn ==
  ASSUME Api!TypeOK, Api!TablesAgree, RunsGoOn, CallbacksStay, \A r \in ApiRun : ~Comes(r),
         told' = told, held' = held
  PROVE  Api!TablesAgree'
<1>1. ASSUME NEW r \in ApiRun
      PROVE  /\ stone'[r] # None => row'[r].tenant = None
             /\ row'[r].tenant = None => row'[r] = Api!NoRun
             /\ row'[r].tenant # None => /\ row'[r].tenant = row[r].tenant /\ row'[r].key = row[r].key
                                         /\ row'[r].callback = row[r].callback
             /\ told'[r] <= Api!Fate(r)'
  <2>1. Stays(r) \/ Proceeds(r) \/ Goes(r)
    BY DEF RunsGoOn
  <2>2. told[r] \in 0 .. 3 /\ told[r] <= Api!Fate(r)
    BY DEF Api!TypeOK, Api!TablesAgree
  <2>3. Api!NoRun.tenant = None
    BY DEF Api!NoRun
  <2>4. row'[r].tenant # None => /\ row'[r].tenant = row[r].tenant /\ row'[r].key = row[r].key
                                 /\ row'[r].callback = row[r].callback
    BY <2>1, <2>3 DEF Stays, Proceeds, Goes
  <2> QED BY <2>1, <2>2, <2>4, RunGoesOn
<1>2. ASSUME NEW r \in ApiRun, row'[r].callback # None PROVE callback'[row'[r].callback].owner = row'[r].tenant
  <2>1. row'[r].tenant # None
    BY <1>1, <1>2 DEF Api!NoRun
  <2>2. row[r].callback # None /\ callback[row[r].callback].owner = row[r].tenant
    BY <1>1, <1>2, <2>1 DEF Api!TablesAgree
  <2>3. row[r].callback \in Callback
    BY <2>2 DEF Api!TypeOK, Api!RunRow
  <2> QED BY <1>1, <2>1, <2>2, <2>3 DEF CallbacksStay
<1>3. ASSUME NEW r \in ApiRun, row'[r].tenant # None, NEW s \in ApiRun,
             row'[s].tenant = row'[r].tenant, row'[r].key # None, row'[s].key = row'[r].key
      PROVE  s = r
  <2>1. s \in Api!Holders(row[r].tenant, row[r].key) /\ row[r].tenant # None
    BY <1>1, <1>3 DEF Api!Holders
  <2> QED BY <2>1 DEF Api!TablesAgree
<1>4. ASSUME NEW t \in Tenant, NEW k \in RequestKey, held[t][k] # None PROVE (Api!Holds(held[t][k], t, k))'
  <2>0. held \in [Tenant -> [RequestKey -> ApiRun \union {None}]]
    BY DEF Api!TypeOK
  <2>5. held[t][k] \in ApiRun
    BY <1>4, <2>0
  <2>1. PICK r \in ApiRun : r = held[t][k]
    BY <2>5
  <2>2. Api!Holds(r, t, k)
    BY <1>4, <2>1 DEF Api!TablesAgree
  <2>3. Api!Holds(r, t, k)'
    BY <2>2, KeysAreKept
  <2>4. held'[t][k] = r
    BY <2>1
  <2> QED BY <2>3, <2>4 DEF Api!Holds, Api!Holders
<1> QED BY <1>1, <1>2, <1>3, <1>4 DEF Api!TablesAgree, Api!Holders

-----------------------------------------------------------------------------
(* Steps of one request                                                      *)

LEMMA NobodyComes ==
  ASSUME Api!ApiInv, row' = row, stone' = stone, callback' = callback
  PROVE  RunsGoOn /\ CallbacksStay /\ \A r \in ApiRun : Stays(r) /\ ~Comes(r) /\ ~Goes(r)
<1>1. \A r \in ApiRun : Stays(r) /\ ~Comes(r) /\ ~Goes(r)
  BY DEF Stays, Comes, Goes, Api!NoRun
<1> QED BY <1>1 DEF RunsGoOn, CallbacksStay

LEMMA WalkWaits ==
  ASSUME Api!ApiInv, RunsGoOn, walk' = walk, \A r \in ApiRun : ~Goes(r)
  PROVE  Api!WalkIsOnCourse'
<1>1. walk.owed \in SUBSET ApiRun /\ walk = [walk EXCEPT !.owed = walk.owed]
  BY DEF Api!ApiInv, Api!WalkIsOnCourse
<1>2. \A r \in walk.owed : ~Goes(r)
  BY <1>1
<1> QED BY <1>1, <1>2, WalkGoesOn

(* What a step keeps when a request moves on and what runs there are stays.  *)
LEMMA RequestMovesOn ==
  ASSUME Api!ApiInv, RunsGoOn, CallbacksStay, \A r \in ApiRun : ~Comes(r) /\ ~Goes(r),
         NEW h \in Handler, NEW q \in Api!Request, handler' = [handler EXCEPT ![h] = q],
         q.pc # "idle" => Api!Stands(q),
         row' \in [ApiRun -> Api!RunRow], stone' = stone, callback' \in [Callback -> Api!CallbackRow],
         scene' = scene, instant' = instant, told' = told, held' = held,
         walk' = walk, onFile' \in SUBSET Tenant, result' \in SUBSET ApiRun, checks' \in SUBSET ApiRun
  PROVE  Api!ApiInv'
<1>2. q.pc # "idle" => Api!Stands(q)'
  BY RequestStays DEF Api!ApiInv
<1>3. Api!RequestsStand'
  BY <1>2, RequestsGoOn
<1>4. Api!TypeOK'
  BY <1>3 DEF Api!ApiInv, Api!TypeOK, Api!RequestsStand, Api!Request
<1>5. Api!TablesAgree'
  BY TablesGoOn DEF Api!ApiInv
<1>6. Api!WalkIsOnCourse'
  BY WalkWaits
<1> QED BY <1>3, <1>4, <1>5, <1>6 DEF Api!ApiInv

(* A request that only reads the runs moves, and the tables stay.            *)
LEMMA RequestMoves ==
  ASSUME Api!ApiInv, NEW h \in Handler, NEW q \in Api!Request, handler' = [handler EXCEPT ![h] = q],
         q.pc # "idle" => Api!Stands(q),
         row' = row, stone' = stone, callback' = callback, scene' = scene, instant' = instant, told' = told, held' = held,
         walk' = walk, onFile' \in SUBSET Tenant, result' \in SUBSET ApiRun, checks' \in SUBSET ApiRun
  PROVE  Api!ApiInv'
<1>1. RunsGoOn /\ CallbacksStay /\ \A r \in ApiRun : Stays(r) /\ ~Comes(r) /\ ~Goes(r)
  BY NobodyComes
<1>2. row' \in [ApiRun -> Api!RunRow] /\ callback' \in [Callback -> Api!CallbackRow]
  BY DEF Api!ApiInv, Api!TypeOK
<1> QED BY <1>1, <1>2, RequestMovesOn

LEMMA RequestUnderWay ==
  ASSUME Api!ApiInv, NEW h \in Handler, NEW q, q = handler[h], q.pc # "idle"
  PROVE  /\ q \in Api!Request /\ Api!Stands(q) /\ Api!Placed(q) /\ Api!Says(q)
         /\ q.tenant \in Tenant /\ q.tenant # None /\ q.run \in ApiRun /\ q.who \in Api!Caller /\ q.op \in Api!Operation
         /\ q.pc \in Api!Places(q.op) \union {"done"}
         /\ q.op \in {"state", "result", "check", "cancel"} => Api!Looks(q)
         /\ q.op = "submit" => Api!Submits(q)
         /\ q.key \in RequestKey \union {None} /\ q.callback \in Callback \union {None} /\ q.first \in ApiRun \union {None}
         /\ q.knew \in 0 .. 3
<1>1. q \in Api!Request /\ Api!Stands(q)
  BY DEF Api!ApiInv, Api!RequestsStand, Api!At
<1>2. Api!Placed(q) /\ Api!Says(q)
  BY <1>1 DEF Api!Stands
<1>3. q.tenant \in Tenant /\ q.tenant # None /\ q.run \in ApiRun /\ q.who \in Api!Caller
  BY <1>2, Scopes DEF Api!Placed
<1> QED BY <1>1, <1>2, <1>3 DEF Api!Stands, Api!Placed, Api!Request

(* Where a request is, is what it was sent for.                              *)
LEMMA PlacesAre ==
  ASSUME NEW op \in Api!Operation, NEW pc \in Api!Places(op)
  PROVE  /\ pc \notin {"idle", "done"} /\ pc \in Api!Pc
         /\ pc \in {"owner", "row"} => op \in {"state", "result", "check", "cancel"}
         /\ pc = "stone" => op \in {"state", "result", "check"}
         /\ pc = "content" => op = "result"
         /\ pc = "body" => op = "check"
         /\ pc \in {"flag", "finish", "again"} => op = "cancel"
         /\ pc \in {"callback", "insert", "holder"} => op = "submit"
         /\ pc = "gate" => op \in {"submit", "upload"}
         /\ pc = "write" => op \in {"register", "revoke"}
         /\ pc \in {"erase", "wipe", "entomb"} => op = "erase"
BY DEF Api!Operation, Api!Places, Api!Pc

(* An answer: what it says is so, and is no less than was known.             *)
LEMMA RequestAnswers ==
  ASSUME Api!ApiInv, NEW h \in Handler, NEW p, p = handler[h], p.pc # "idle", NEW a \in Api!Answers, Api!Answer(h, a),
         Api!Rank(a) # 0 => Api!Rank(a) <= Api!Fate(p.run) /\ Api!OwnerOf(p.run) = p.tenant,
         p.op \in {"state", "result", "check", "cancel"} =>
           /\ p.op # "cancel" /\ a # "invalid" => Api!Rank(a) >= p.knew
           /\ p.pc = "owner" => p.knew = 0,
         p.op = "submit" => Api!Rank(a) = 0,
         row' = row, stone' = stone, callback' = callback, scene' = scene, instant' = instant, told' = told, held' = held,
         walk' = walk, onFile' \in SUBSET Tenant, result' \in SUBSET ApiRun, checks' \in SUBSET ApiRun
  PROVE  Api!ApiInv'
<1>1. /\ p \in Api!Request /\ Api!Placed(p) /\ p.tenant # None
      /\ p.op \in {"state", "result", "check", "cancel"} => Api!Looks(p)
      /\ p.op = "submit" => Api!Submits(p)
  BY RequestUnderWay
<1> DEFINE q == [p EXCEPT !.pc = "done", !.answer = a]
<1>2. /\ q \in Api!Request /\ q.pc = "done" /\ q.answer = a /\ q.who = p.who /\ q.op = p.op /\ q.tenant = p.tenant
      /\ q.run = p.run /\ q.key = p.key /\ q.callback = p.callback /\ q.knew = p.knew /\ q.first = p.first
  BY <1>1 DEF Api!Request, Api!Pc
<1>3. handler' = [handler EXCEPT ![h] = q]
  BY DEF Api!Answer
<1> HIDE DEF q
<1>4. Api!Placed(q) /\ Api!Says(q)
  BY <1>1, <1>2 DEF Api!Placed, Api!Says
<1>5. q.op \in {"state", "result", "check", "cancel"} => Api!Looks(q)
  BY <1>1, <1>2 DEF Api!Looks
<1>6. q.op = "submit" => Api!Submits(q)
  BY <1>1, <1>2 DEF Api!Submits
<1>7. Api!Stands(q)
  BY <1>4, <1>5, <1>6 DEF Api!Stands
<1> QED BY <1>2, <1>3, <1>7, RequestMoves

(* A request goes on to its next statement.                                  *)
LEMMA RequestProceeds ==
  ASSUME Api!ApiInv, NEW h \in Handler, NEW p, p = handler[h], p.pc # "idle",
         NEW q \in Api!Request, handler' = [handler EXCEPT ![h] = q], q.pc \in Api!Places(p.op) \ {"owner"},
         q.who = p.who, q.op = p.op, q.tenant \in Api!Scope(p.who), q.run = p.run, q.key = p.key,
         q.callback = p.callback, q.knew = p.knew, q.first = p.first,
         q.op \in {"state", "result", "check", "cancel"} => Api!Looks(q),
         q.op = "submit" => q.tenant = p.tenant /\ (q.pc = "insert" /\ q.callback # None => callback[q.callback].owner = q.tenant),
         row' = row, stone' = stone, callback' = callback, scene' = scene, instant' = instant, told' = told, held' = held,
         walk' = walk, onFile' \in SUBSET Tenant, result' \in SUBSET ApiRun, checks' \in SUBSET ApiRun
  PROVE  Api!ApiInv'
<1>1. /\ Api!Placed(p) /\ p.op = "submit" => Api!Submits(p)
      /\ p.op \in Api!Operation
  BY RequestUnderWay
<1>2. q.pc \notin {"idle", "done"}
  BY <1>1, PlacesAre
<1>3. Api!Placed(q) /\ Api!Says(q)
  BY <1>1, <1>2, RequestUnderWay DEF Api!Placed, Api!Says
<1>4. q.op = "submit" => Api!Submits(q)
  BY <1>1, <1>2, RequestUnderWay DEF Api!Submits
<1>5. Api!Stands(q)
  BY <1>3, <1>4 DEF Api!Stands
<1> QED BY <1>2, <1>5, RequestMoves

(* A request goes on to its next statement and holds to what it did.         *)
LEMMA RequestGoes ==
  ASSUME Api!ApiInv, NEW h \in Handler, NEW p, p = handler[h], p.pc # "idle",
         NEW pc \in Api!Places(p.op) \ {"owner"}, Api!Go(h, pc),
         p.op \in {"state", "result", "check", "cancel"} =>
           /\ p.pc = "owner" => p.knew = 0
           /\ p.knew > 0 /\ pc = "stone" => stone[p.run] # None
           /\ pc \in {"content", "body"} => p.knew <= 2 /\ Api!Fate(p.run) >= 2
           /\ pc \in {"content", "body", "flag", "finish", "again"} => Api!OwnerOf(p.run) = p.tenant,
         p.op = "submit" => (pc = "insert" /\ p.callback # None => callback[p.callback].owner = p.tenant),
         row' = row, stone' = stone, callback' = callback, scene' = scene, instant' = instant, told' = told, held' = held,
         walk' = walk, onFile' \in SUBSET Tenant, result' \in SUBSET ApiRun, checks' \in SUBSET ApiRun
  PROVE  Api!ApiInv'
<1>1. /\ p \in Api!Request /\ p.tenant \in Api!Scope(p.who) /\ p.op \in Api!Operation
      /\ p.op \in {"state", "result", "check", "cancel"} => Api!Looks(p)
  BY RequestUnderWay DEF Api!Placed
<1>2. pc \in Api!Pc /\ pc \notin {"idle", "done"}
  BY <1>1, PlacesAre
<1> DEFINE q == [p EXCEPT !.pc = pc]
<1>3. /\ q \in Api!Request /\ q.pc = pc /\ q.answer = p.answer /\ q.who = p.who /\ q.op = p.op /\ q.tenant = p.tenant
      /\ q.run = p.run /\ q.key = p.key /\ q.callback = p.callback /\ q.knew = p.knew /\ q.first = p.first
  BY <1>1, <1>2 DEF Api!Request
<1>4. handler' = [handler EXCEPT ![h] = q]
  BY DEF Api!Go
<1> HIDE DEF q
<1>5. q.op \in {"state", "result", "check", "cancel"} => Api!Looks(q)
  BY <1>1, <1>2, <1>3 DEF Api!Looks
<1> QED BY <1>1, <1>3, <1>4, <1>5, RequestProceeds

LEMMA OnlyTheRequest ==
  ASSUME Api!ApiInv, Api!Only(Api!tables)
  PROVE  /\ row' = row /\ stone' = stone /\ callback' = callback /\ scene' = scene /\ instant' = instant
         /\ told' = told /\ held' = held /\ walk' = walk
         /\ onFile' \in SUBSET Tenant /\ result' \in SUBSET ApiRun /\ checks' \in SUBSET ApiRun
BY DEF Api!Only, Api!tables, Api!clients, Api!ApiInv, Api!TypeOK

(* A row of a run that was found, and what its status says of it.            *)
LEMMA RowsSay ==
  ASSUME Api!ApiInv, NEW r \in ApiRun
  PROVE  /\ row[r].tenant # None => /\ stone[r] = None /\ Api!OwnerOf(r) = row[r].tenant
                                    /\ row[r].status \in Api!Live \union Api!Over
                                    /\ Api!Fate(r) = Api!Rank(row[r].status)
                                    /\ row[r].status \in Api!Over => Api!Fate(r) = 2
                                    /\ row[r].status \notin Api!Over => Api!Fate(r) = 1
         /\ stone[r] # None => row[r].tenant = None /\ Api!OwnerOf(r) = stone[r] /\ Api!Fate(r) = 3
         /\ Api!OwnerOf(r) = None => Api!Fate(r) = 0
<1>1. stone[r] # None => row[r].tenant = None
  BY DEF Api!ApiInv, Api!TablesAgree
<1>2. row[r].status \in Api!Live \union Api!Over
  BY DEF Api!ApiInv, Api!TypeOK, Api!RunRow
<1>3. row[r].tenant # None => Api!Fate(r) = Api!Rank(row[r].status)
  BY <1>1, <1>2 DEF Api!Fate, Api!Rank, Api!Live, Api!Over
<1> QED BY <1>1, <1>2, <1>3 DEF Api!OwnerOf, Api!Fate

LEMMA OwnersAreFound == ASSUME Api!ApiInv, NEW h \in Handler, Api!FindOwner(h) PROVE Api!ApiInv'
<1>0. PICK p : p = handler[h]
  OBVIOUS
<1>1. p.pc = "owner" /\ Api!Only(Api!tables)
  BY <1>0 DEF Api!FindOwner, Api!At
<1>2. /\ p \in Api!Request /\ Api!Placed(p) /\ p.run \in ApiRun /\ p.who = Administrator
      /\ p.op \in {"state", "result", "check", "cancel"} /\ Api!Looks(p) /\ p.knew \in 0 .. 3
      /\ p.knew <= Api!Fate(p.run)
  BY <1>0, <1>1, RequestUnderWay, PlacesAre DEF Api!Placed, Api!Looks
<1>5. /\ row' = row /\ stone' = stone /\ callback' = callback /\ scene' = scene /\ instant' = instant
      /\ told' = told /\ held' = held /\ walk' = walk
      /\ onFile' \in SUBSET Tenant /\ result' \in SUBSET ApiRun /\ checks' \in SUBSET ApiRun
  BY <1>1, OnlyTheRequest
<1>3. CASE Api!OwnerOf(p.run) = None
  <2>1. Api!Answer(h, "unknown") /\ Api!Rank("unknown") = 0
    BY <1>0, <1>3 DEF Api!FindOwner, Api!Rank, Api!Live, Api!Over
  <2>2. p.knew = 0
    BY <1>2, <1>3, RowsSay
  <2>3. "unknown" \in Api!Answers  /\ Api!Rank("unknown") >= p.knew
    BY <2>1, <2>2 DEF Api!Answers
  <2> QED BY <1>0, <1>1, <1>2, <1>5, <2>1, <2>2, <2>3, RequestAnswers
<1>4. CASE Api!OwnerOf(p.run) # None
  <2> DEFINE q == [p EXCEPT !.tenant = Api!OwnerOf(p.run), !.pc = "row"]
  <2>1. handler' = [handler EXCEPT ![h] = q]
    BY <1>0, <1>4 DEF Api!FindOwner, Api!FirstLook
  <2>2. Api!OwnerOf(p.run) \in Tenant /\ Api!OwnerOf(p.run) \in Api!Scope(p.who)
    BY <1>2, <1>4 DEF Api!OwnerOf, Api!ApiInv, Api!TypeOK, Api!RunRow, Api!Scope
  <2>3. /\ q \in Api!Request /\ q.pc = "row" /\ q.who = p.who /\ q.op = p.op /\ q.tenant = Api!OwnerOf(p.run)
        /\ q.run = p.run /\ q.key = p.key /\ q.callback = p.callback /\ q.knew = p.knew /\ q.first = p.first
    BY <1>2, <2>2 DEF Api!Request, Api!Pc
  <2> HIDE DEF q
  <2>4. Api!Looks(q) /\ q.pc \in Api!Places(p.op) \ {"owner"}
    BY <1>2, <2>3 DEF Api!Looks, Api!Places
  <2>5. q.op # "submit" /\ p.pc # "idle" /\ q.tenant \in Api!Scope(p.who)
    BY <1>1, <1>2, <2>2, <2>3
  <2> QED BY <1>0, <1>5, <2>1, <2>3, <2>4, <2>5, RequestProceeds
<1> QED BY <1>3, <1>4

LEMMA RowsAreLookedUp == ASSUME Api!ApiInv, NEW h \in Handler, Api!LookRow(h) PROVE Api!ApiInv'
<1>0. PICK p : p = handler[h]
  OBVIOUS
<1>1. p.pc = "row" /\ Api!Only(Api!tables)
  BY <1>0 DEF Api!LookRow, Api!At
<1>2. /\ row' = row /\ stone' = stone /\ callback' = callback /\ scene' = scene /\ instant' = instant
      /\ told' = told /\ held' = held /\ walk' = walk
      /\ onFile' \in SUBSET Tenant /\ result' \in SUBSET ApiRun /\ checks' \in SUBSET ApiRun
  BY <1>1, OnlyTheRequest
<1>3. /\ p \in Api!Request /\ Api!Placed(p) /\ p.run \in ApiRun /\ p.tenant \in Tenant /\ p.tenant # None
      /\ p.op \in {"state", "result", "check", "cancel"} /\ p.op # "submit" /\ p.pc # "idle" /\ p.pc # "owner"
      /\ p.knew \in 0 .. 3 /\ Api!Looks(p)
      /\ p.knew <= Api!Fate(p.run) /\ (p.knew > 0 => Api!OwnerOf(p.run) = p.tenant)
  BY <1>0, <1>1, RequestUnderWay, PlacesAre DEF Api!Looks
<1>4. CASE Api!Found(p.run, p.tenant)
  <2> DEFINE s == row[p.run].status
  <2>1. /\ Api!OwnerOf(p.run) = p.tenant /\ s \in Api!Live \union Api!Over /\ Api!Fate(p.run) = Api!Rank(s)
        /\ s \in Api!Over => Api!Fate(p.run) = 2
        /\ s \notin Api!Over => Api!Fate(p.run) = 1
    BY <1>3, <1>4, RowsSay DEF Api!Found
  <2>2. Api!Taken(h, s)
    BY <1>0, <1>4 DEF Api!LookRow
  <2> HIDE DEF s
  <2>3. /\ s \in Api!Answers /\ "conflict" \in Api!Answers /\ Api!Rank("conflict") = 2
        /\ Api!Rank(s) \in 1 .. 2 /\ (s \notin Api!Live => s \in Api!Over)
    <3>1. s \in Api!Answers
      BY <2>1 DEF Api!Answers
    <3>2. "conflict" \in Api!Answers /\ Api!Rank("conflict") = 2
      BY DEF Api!Answers, Api!Rank, Api!Live, Api!Over
    <3> QED BY <2>1, <3>1, <3>2
  <2>4. CASE Api!Answer(h, s)
    BY <1>0, <1>2, <1>3, <2>1, <2>3, <2>4, RequestAnswers
  <2>5. CASE s \in Api!Over /\ Api!Answer(h, "conflict")
    BY <1>0, <1>2, <1>3, <2>1, <2>3, <2>5, RequestAnswers
  <2>6. CASE p.op = "result" /\ s = "succeeded"
    <3>1. Api!Go(h, "content") /\ "content" \in Api!Places(p.op) \ {"owner"} /\ Api!Fate(p.run) = 2
      BY <1>0, <2>1, <2>2, <2>6 DEF Api!Taken, Api!Places, Api!Over
    <3> QED BY <1>0, <1>2, <1>3, <2>1, <3>1, RequestGoes
  <2>7. CASE p.op = "check" /\ s = "succeeded"
    <3>1. Api!Go(h, "body") /\ "body" \in Api!Places(p.op) \ {"owner"} /\ Api!Fate(p.run) = 2
      BY <1>0, <2>1, <2>2, <2>7 DEF Api!Taken, Api!Places, Api!Over
    <3> QED BY <1>0, <1>2, <1>3, <2>1, <3>1, RequestGoes
  <2>8. CASE p.op = "cancel" /\ s \notin Api!Over
    <3> DEFINE q == [p EXCEPT !.pc = "flag", !.read = s]
    <3>1. handler' = [handler EXCEPT ![h] = q]
      BY <1>0, <2>2, <2>8 DEF Api!Taken, Api!Over
    <3>2. /\ q \in Api!Request /\ q.pc = "flag" /\ q.who = p.who /\ q.op = p.op /\ q.tenant = p.tenant
          /\ q.run = p.run /\ q.key = p.key /\ q.callback = p.callback /\ q.knew = p.knew /\ q.first = p.first
      BY <1>3, <2>1, <2>8 DEF Api!Request, Api!Pc
    <3> HIDE DEF q
    <3>3. Api!Looks(q) /\ q.pc \in Api!Places(p.op) \ {"owner"} /\ q.op # "submit" /\ q.tenant \in Api!Scope(p.who)
      BY <1>3, <2>1, <2>8, <3>2 DEF Api!Looks, Api!Places, Api!Placed
    <3> QED BY <1>0, <1>2, <1>3, <3>1, <3>2, <3>3, RequestProceeds
  <2> QED BY <1>0, <1>3, <2>1, <2>2, <2>3, <2>4, <2>5, <2>6, <2>7, <2>8 DEF Api!Taken, Api!Over
<1>5. CASE ~Api!Found(p.run, p.tenant)
  <2>1. Api!Missed(h)
    BY <1>0, <1>5 DEF Api!LookRow
  <2>2. CASE p.op = "cancel"
    <3>1. Api!Answer(h, "unknown") /\ Api!Rank("unknown") = 0 /\ "unknown" \in Api!Answers
      BY <1>0, <2>1, <2>2 DEF Api!Missed, Api!Rank, Api!Live, Api!Over, Api!Answers
    <3> QED BY <1>0, <1>2, <1>3, <2>2, <3>1, RequestAnswers
  <2>3. CASE p.op # "cancel"
    <3>1. Api!Go(h, "stone") /\ "stone" \in Api!Places(p.op) \ {"owner"}
      BY <1>0, <1>1, <1>3, <2>1, <2>3 DEF Api!Missed, Api!At, Api!FirstLook, Api!OtherLook, Api!Places
    <3>2. p.knew > 0 => stone[p.run] # None
      BY <1>3, <1>5 DEF Api!Found, Api!OwnerOf
    <3> QED BY <1>0, <1>2, <1>3, <3>1, <3>2, RequestGoes
  <2> QED BY <2>2, <2>3
<1> QED BY <1>4, <1>5

LEMMA StonesAreLookedUp == ASSUME Api!ApiInv, NEW h \in Handler, Api!LookStone(h) PROVE Api!ApiInv'
<1>0. PICK p : p = handler[h]
  OBVIOUS
<1>1. p.pc = "stone" /\ Api!Only(Api!tables)
  BY <1>0 DEF Api!LookStone, Api!At
<1>2. /\ row' = row /\ stone' = stone /\ callback' = callback /\ scene' = scene /\ instant' = instant
      /\ told' = told /\ held' = held /\ walk' = walk
      /\ onFile' \in SUBSET Tenant /\ result' \in SUBSET ApiRun /\ checks' \in SUBSET ApiRun
  BY <1>1, OnlyTheRequest
<1>3. /\ p.run \in ApiRun /\ p.tenant \in Tenant /\ p.tenant # None
      /\ p.op \in {"state", "result", "check"} /\ p.op # "submit" /\ p.pc # "idle" /\ p.pc # "owner"
      /\ p.knew \in 0 .. 3 /\ p.knew <= Api!Fate(p.run)
      /\ p.knew > 0 => Api!OwnerOf(p.run) = p.tenant /\ stone[p.run] # None
  BY <1>0, <1>1, RequestUnderWay, PlacesAre DEF Api!Looks
<1>4. CASE Api!Buried(p.run, p.tenant)
  <2>1. Api!Answer(h, "gone") /\ Api!Rank("gone") = 3 /\ "gone" \in Api!Answers
    BY <1>0, <1>4 DEF Api!LookStone, Api!Rank, Api!Live, Api!Over, Api!Answers
  <2>2. Api!OwnerOf(p.run) = p.tenant /\ Api!Fate(p.run) = 3
    BY <1>3, <1>4, RowsSay DEF Api!Buried
  <2> QED BY <1>0, <1>2, <1>3, <2>1, <2>2, RequestAnswers
<1>5. CASE ~Api!Buried(p.run, p.tenant)
  <2>1. Api!Answer(h, "unknown") /\ Api!Rank("unknown") = 0 /\ "unknown" \in Api!Answers
    BY <1>0, <1>1, <1>5 DEF Api!LookStone, Api!Missed, Api!At, Api!FirstLook, Api!Rank, Api!Live, Api!Over, Api!Answers
  <2>2. p.knew = 0
    BY <1>3, <1>5, RowsSay DEF Api!Buried
  <2> QED BY <1>0, <1>2, <1>3, <2>1, <2>2, RequestAnswers
<1> QED BY <1>4, <1>5

LEMMA ContentIsRead == ASSUME Api!ApiInv, NEW h \in Handler, Api!ReadContent(h) PROVE Api!ApiInv'
<1>0. PICK p : p = handler[h]
  OBVIOUS
<1>1. /\ p.pc = "content" /\ Api!Only(Api!tables)
      /\ Api!Answer(h, "result") \/ Api!Answer(h, "expired")
  BY <1>0 DEF Api!ReadContent, Api!At
<1>2. /\ row' = row /\ stone' = stone /\ callback' = callback /\ scene' = scene /\ instant' = instant
      /\ told' = told /\ held' = held /\ walk' = walk
      /\ onFile' \in SUBSET Tenant /\ result' \in SUBSET ApiRun /\ checks' \in SUBSET ApiRun
  BY <1>1, OnlyTheRequest
<1>3. /\ p.op = "result" /\ p.op # "submit" /\ p.pc # "idle" /\ p.pc # "owner" /\ Api!OwnerOf(p.run) = p.tenant
      /\ p.knew <= 2 /\ Api!Fate(p.run) >= 2
  BY <1>0, <1>1, RequestUnderWay, PlacesAre DEF Api!Looks
<1>4. \A a \in {"result", "expired"} : Api!Rank(a) = 2 /\ a \in Api!Answers
  BY DEF Api!Rank, Api!Live, Api!Over, Api!Answers
<1>5. CASE Api!Answer(h, "result")
  BY <1>0, <1>2, <1>3, <1>4, <1>5, RequestAnswers
<1>6. CASE Api!Answer(h, "expired")
  BY <1>0, <1>2, <1>3, <1>4, <1>6, RequestAnswers
<1> QED BY <1>1, <1>5, <1>6

LEMMA ChecksAreRecorded == ASSUME Api!ApiInv, NEW h \in Handler, Api!RecordCheck(h) PROVE Api!ApiInv'
<1>0. PICK p : p = handler[h]
  OBVIOUS
<1>1. p.pc = "body" /\ (Api!Answer(h, "recorded") \/ Api!Answer(h, "invalid"))
  BY <1>0 DEF Api!RecordCheck, Api!At
<1>3. /\ p.op = "check" /\ p.op # "submit" /\ p.pc # "idle" /\ p.pc # "owner" /\ Api!OwnerOf(p.run) = p.tenant
      /\ p.knew <= 2 /\ Api!Fate(p.run) >= 2 /\ p.run \in ApiRun
  BY <1>0, <1>1, RequestUnderWay, PlacesAre DEF Api!Looks
<1>2. /\ row' = row /\ stone' = stone /\ callback' = callback /\ scene' = scene /\ instant' = instant
      /\ told' = told /\ held' = held /\ walk' = walk
      /\ onFile' \in SUBSET Tenant /\ result' \in SUBSET ApiRun /\ checks' \in SUBSET ApiRun
  BY <1>0, <1>3 DEF Api!RecordCheck, Api!Only, Api!clients, Api!ApiInv, Api!TypeOK
<1>4. /\ Api!Rank("recorded") = 2 /\ Api!Rank("invalid") = 0
      /\ "recorded" \in Api!Answers /\ "invalid" \in Api!Answers
  BY DEF Api!Rank, Api!Live, Api!Over, Api!Answers
<1>5. CASE Api!Answer(h, "recorded")
  BY <1>0, <1>2, <1>3, <1>4, <1>5, RequestAnswers
<1>6. CASE Api!Answer(h, "invalid")
  BY <1>0, <1>2, <1>3, <1>4, <1>6, RequestAnswers
<1> QED BY <1>1, <1>5, <1>6

LEMMA RunsAreFlagged == ASSUME Api!ApiInv, NEW h \in Handler, Api!Flag(h) PROVE Api!ApiInv'
<1>0. PICK p : p = handler[h]
  OBVIOUS
<1>1. /\ p.pc = "flag" /\ Api!Only(Api!tables)
      /\ Api!Go(h, "finish") \/ Api!Answer(h, "running")
  BY <1>0 DEF Api!Flag, Api!At
<1>2. /\ row' = row /\ stone' = stone /\ callback' = callback /\ scene' = scene /\ instant' = instant
      /\ told' = told /\ held' = held /\ walk' = walk
      /\ onFile' \in SUBSET Tenant /\ result' \in SUBSET ApiRun /\ checks' \in SUBSET ApiRun
  BY <1>1, OnlyTheRequest
<1>3. /\ p.op = "cancel" /\ p.op # "submit" /\ p.pc # "idle" /\ p.pc # "owner" /\ Api!OwnerOf(p.run) = p.tenant
      /\ p.tenant # None /\ p.run \in ApiRun
  BY <1>0, <1>1, RequestUnderWay, PlacesAre DEF Api!Looks
<1>4. CASE Api!Go(h, "finish")
  <2>1. "finish" \in Api!Places(p.op) \ {"owner"}
    BY <1>3 DEF Api!Places
  <2> QED BY <1>0, <1>2, <1>3, <1>4, <2>1, RequestGoes
<1>5. CASE Api!Answer(h, "running")
  <2>1. Api!Rank("running") = 1 /\ "running" \in Api!Answers
    BY DEF Api!Rank, Api!Live, Api!Over, Api!Answers
  <2>2. Api!Fate(p.run) >= 1
    BY <1>3 DEF Api!Fate, Api!OwnerOf
  <2> QED BY <1>0, <1>2, <1>3, <1>5, <2>1, <2>2, RequestAnswers
<1> QED BY <1>1, <1>4, <1>5

LEMMA SubmissionsAreWithdrawn == ASSUME Api!ApiInv, NEW h \in Handler, Api!Withdraw(h) PROVE Api!ApiInv'
<1>0. PICK p : p = handler[h]
  OBVIOUS
<1>1. p.pc = "finish" /\ Api!Go(h, "again")
  BY <1>0 DEF Api!Withdraw, Api!At
<1>2. /\ stone' = stone /\ callback' = callback /\ scene' = scene /\ instant' = instant
      /\ told' = told /\ held' = held /\ walk' = walk
      /\ onFile' \in SUBSET Tenant /\ result' \in SUBSET ApiRun /\ checks' \in SUBSET ApiRun
      /\ callback' \in [Callback -> Api!CallbackRow]
  BY DEF Api!Withdraw, Api!Only, Api!clients, Api!ApiInv, Api!TypeOK
<1>3. /\ p.op = "cancel" /\ p.pc # "idle" /\ p.run \in ApiRun /\ p \in Api!Request /\ Api!Placed(p) /\ Api!Looks(p)
  BY <1>0, <1>1, RequestUnderWay, PlacesAre
<1>4. /\ row' \in [ApiRun -> Api!RunRow]
      /\ \A r \in ApiRun : Stays(r) \/ Proceeds(r)
      /\ \A r \in ApiRun : ~Comes(r) /\ ~Goes(r)
  <2>1. CASE row[p.run].tenant # None /\ row[p.run].status = "queued"
    <3>1. row' = [row EXCEPT ![p.run].status = "cancelled"]
      BY <1>0, <2>1 DEF Api!Withdraw
    <3>2. row \in [ApiRun -> Api!RunRow] /\ "cancelled" \in Api!Over
      BY DEF Api!ApiInv, Api!TypeOK, Api!Over
    <3>3. row' \in [ApiRun -> Api!RunRow]
      BY <1>3, <3>1, <3>2 DEF Api!RunRow
    <3>4. \A r \in ApiRun : Stays(r) \/ Proceeds(r)
      BY <1>2, <1>3, <2>1, <3>1, <3>2 DEF Stays, Proceeds, Api!RunRow
    <3>5. \A r \in ApiRun : row'[r].tenant = row[r].tenant
      BY <1>3, <3>1, <3>2 DEF Api!RunRow
    <3>6. \A r \in ApiRun : ~Comes(r) /\ ~Goes(r)
      BY <3>5 DEF Comes, Goes, Api!NoRun
    <3> QED BY <3>3, <3>4, <3>6
  <2>2. CASE ~(row[p.run].tenant # None /\ row[p.run].status = "queued")
    <3>1. row' = row
      BY <1>0, <2>2 DEF Api!Withdraw
    <3> QED BY <1>2, <3>1, NobodyComes DEF Api!ApiInv, Api!TypeOK
  <2> QED BY <2>1, <2>2
<1>5. RunsGoOn /\ CallbacksStay
  BY <1>2, <1>4 DEF RunsGoOn, CallbacksStay
<1> DEFINE q == [p EXCEPT !.pc = "again"]
<1>6. /\ q \in Api!Request /\ q.pc = "again" /\ q.who = p.who /\ q.op = p.op /\ q.tenant = p.tenant
      /\ q.run = p.run /\ q.key = p.key /\ q.callback = p.callback /\ q.knew = p.knew /\ q.first = p.first
      /\ handler' = [handler EXCEPT ![h] = q]
  BY <1>0, <1>1, <1>3 DEF Api!Request, Api!Pc, Api!Go
<1> HIDE DEF q
<1>7. Api!Stands(q)
  BY <1>1, <1>3, <1>6 DEF Api!Stands, Api!Placed, Api!Says, Api!Looks, Api!Places
<1> QED BY <1>2, <1>4, <1>5, <1>6, <1>7, RequestMovesOn

LEMMA RunsAreReadAgain == ASSUME Api!ApiInv, NEW h \in Handler, Api!ReadAgain(h) PROVE Api!ApiInv'
<1>0. PICK p : p = handler[h]
  OBVIOUS
<1>1. p.pc = "again" /\ Api!Only(Api!tables)
  BY <1>0 DEF Api!ReadAgain, Api!At
<1>2. /\ row' = row /\ stone' = stone /\ callback' = callback /\ scene' = scene /\ instant' = instant
      /\ told' = told /\ held' = held /\ walk' = walk
      /\ onFile' \in SUBSET Tenant /\ result' \in SUBSET ApiRun /\ checks' \in SUBSET ApiRun
  BY <1>1, OnlyTheRequest
<1>3. /\ p.op = "cancel" /\ p.op # "submit" /\ p.pc # "idle" /\ p.pc # "owner" /\ p.run \in ApiRun
  BY <1>0, <1>1, RequestUnderWay, PlacesAre
<1>4. CASE Api!Found(p.run, p.tenant)
  <2> DEFINE s == row[p.run].status
  <2>0. Api!Answer(h, s)
    BY <1>0, <1>4 DEF Api!ReadAgain
  <2>1. /\ s \in Api!Live \union Api!Over /\ Api!Fate(p.run) = Api!Rank(s)
        /\ Api!OwnerOf(p.run) = p.tenant /\ (Api!Fate(p.run) = 1 \/ Api!Fate(p.run) = 2)
    BY <1>3, <1>4, RowsSay DEF Api!Found
  <2> HIDE DEF s
  <2>2. s \in Api!Answers
    BY <2>1 DEF Api!Answers
  <2> QED BY <1>0, <1>2, <1>3, <2>0, <2>1, <2>2, RequestAnswers
<1>5. CASE ~Api!Found(p.run, p.tenant)
  <2>1. Api!Answer(h, "unavailable") /\ Api!Rank("unavailable") = 0 /\ "unavailable" \in Api!Answers
    BY <1>0, <1>5 DEF Api!ReadAgain, Api!Rank, Api!Live, Api!Over, Api!Answers
  <2> QED BY <1>0, <1>2, <1>3, <2>1, RequestAnswers
<1> QED BY <1>4, <1>5

LEMMA DocumentsAreFound == ASSUME Api!ApiInv, NEW h \in Handler, Api!Gate(h) PROVE Api!ApiInv'
<1>0. PICK p : p = handler[h]
  OBVIOUS
<1>1. /\ p.pc = "gate" /\ row' = row /\ stone' = stone /\ callback' = callback /\ scene' = scene /\ instant' = instant
      /\ told' = told /\ held' = held /\ walk' = walk
  BY <1>0 DEF Api!Gate, Api!At, Api!Only, Api!clients
<1>2. /\ p.op \in {"submit", "upload"} /\ p.op \notin {"state", "result", "check", "cancel"} /\ p.pc # "idle"
      /\ p.tenant \in Tenant /\ Api!Placed(p)
  BY <1>0, <1>1, RequestUnderWay, PlacesAre
<1>3. onFile' \in SUBSET Tenant /\ result' \in SUBSET ApiRun /\ checks' \in SUBSET ApiRun
  <2>1. (onFile' = onFile \/ onFile' = onFile \union {p.tenant}) /\ result' = result /\ checks' = checks
    BY <1>0 DEF Api!Gate, Api!Only
  <2> QED BY <1>2, <2>1 DEF Api!ApiInv, Api!TypeOK
<1>4. \A a \in {"refused", "stored", "invalid", "no document"} :
         Api!Rank(a) = 0 /\ a \in Api!Answers
  BY DEF Api!Rank, Api!Live, Api!Over, Api!Answers
<1>5. CASE \E a \in {"refused", "stored", "invalid", "no document"} : Api!Answer(h, a)
  <2>1. PICK a \in {"refused", "stored", "invalid", "no document"} : Api!Answer(h, a)
    BY <1>5
  <2>2. Api!Rank(a) = 0 /\ a \in Api!Answers
    BY <1>4
  <2> QED BY <1>0, <1>1, <1>2, <1>3, <2>1, <2>2, RequestAnswers
<1>6. CASE p.op = "submit" /\ p.callback # None /\ Api!Go(h, "callback")
  <2>1. "callback" \in Api!Places(p.op) \ {"owner"}
    BY <1>6 DEF Api!Places
  <2> QED BY <1>0, <1>1, <1>2, <1>3, <1>6, <2>1, RequestGoes
<1>7. CASE p.op = "submit" /\ p.callback = None /\ Api!Go(h, "insert")
  <2>1. "insert" \in Api!Places(p.op) \ {"owner"}
    BY <1>7 DEF Api!Places
  <2> QED BY <1>0, <1>1, <1>2, <1>3, <1>7, <2>1, RequestGoes
<1> QED BY <1>0, <1>2, <1>5, <1>6, <1>7 DEF Api!Gate, Api!Placed

LEMMA CallbacksAreFound == ASSUME Api!ApiInv, NEW h \in Handler, Api!FindCallback(h) PROVE Api!ApiInv'
<1>0. PICK p : p = handler[h]
  OBVIOUS
<1>1. p.pc = "callback" /\ Api!Only(Api!tables)
  BY <1>0 DEF Api!FindCallback, Api!At
<1>2. /\ row' = row /\ stone' = stone /\ callback' = callback /\ scene' = scene /\ instant' = instant
      /\ told' = told /\ held' = held /\ walk' = walk
      /\ onFile' \in SUBSET Tenant /\ result' \in SUBSET ApiRun /\ checks' \in SUBSET ApiRun
  BY <1>1, OnlyTheRequest
<1>3. p.op = "submit" /\ p.op \notin {"state", "result", "check", "cancel"} /\ p.pc # "idle"
  BY <1>0, <1>1, RequestUnderWay, PlacesAre
<1>4. CASE Api!Registered(p.callback, p.tenant)
  <2>1. Api!Go(h, "insert") /\ "insert" \in Api!Places(p.op) \ {"owner"} /\ callback[p.callback].owner = p.tenant
    BY <1>0, <1>3, <1>4 DEF Api!FindCallback, Api!Places, Api!Registered
  <2> QED BY <1>0, <1>2, <1>3, <2>1, RequestGoes
<1>5. CASE ~Api!Registered(p.callback, p.tenant)
  <2>1. Api!Answer(h, "no callback")
    BY <1>0, <1>5 DEF Api!FindCallback
  <2>2. /\ Api!Rank("no callback") = 0
        /\ "no callback" \in Api!Answers
    BY DEF Api!Rank, Api!Live, Api!Over, Api!Answers
  <2> QED BY <1>0, <1>2, <1>3, <2>1, <2>2, RequestAnswers
<1> QED BY <1>4, <1>5

(* A run is submitted: one that was none holds the key from now on.          *)
LEMMA RunsAreCreated ==
  ASSUME Api!ApiInv, NEW h \in Handler, NEW p, p = handler[h], p.pc = "insert",
         Api!Holders(p.tenant, p.key) = {}, NEW r \in ApiRun, NEW at \in Nat, row[r].tenant = None, stone[r] = None,
         row' = [row EXCEPT ![r] = [tenant |-> p.tenant, status |-> "queued", created |-> at, key |-> p.key,
                                    callback |-> p.callback]],
         Api!AnswerWith(h, "queued", r),
         Api!Only(<<stone, onFile, result, checks, callback>>)
  PROVE  Api!ApiInv'
<1>1. /\ stone' = stone /\ callback' = callback /\ scene' = scene /\ instant' = instant
      /\ told' = told /\ held' = held /\ walk' = walk /\ onFile' = onFile /\ result' = result /\ checks' = checks
  BY DEF Api!Only, Api!clients
<1>2. /\ p \in Api!Request /\ Api!Placed(p) /\ Api!Submits(p) /\ p.op = "submit" /\ p.pc # "idle"
      /\ p.tenant \in Tenant /\ p.tenant # None
      /\ p.key \in RequestKey \union {None} /\ p.callback \in Callback \union {None} /\ p.first \in ApiRun \union {None}
  BY RequestUnderWay, PlacesAre
<1>3. Api!TypeOK /\ Api!TablesAgree
  BY DEF Api!ApiInv
<1>17. held \in [Tenant -> [RequestKey -> ApiRun \union {None}]]
  BY DEF Api!ApiInv, Api!TypeOK
<1> DEFINE new == [tenant |-> p.tenant, status |-> "queued", created |-> at, key |-> p.key, callback |-> p.callback]
<1>4. /\ new \in Api!RunRow /\ new.tenant = p.tenant /\ new.status = "queued" /\ new.key = p.key
      /\ new.callback = p.callback
  BY <1>2 DEF Api!RunRow, Api!Live
<1> HIDE DEF new
<1>5. row' \in [ApiRun -> Api!RunRow] /\ row'[r] = new /\ \A s \in ApiRun \ {r} : row'[s] = row[s]
  BY <1>3, <1>4 DEF Api!TypeOK, new
<1>6. Comes(r) /\ \A s \in ApiRun \ {r} : Stays(s)
  BY <1>1, <1>2, <1>4, <1>5 DEF Comes, Stays
<1>7. RunsGoOn /\ CallbacksStay /\ \A s \in ApiRun : ~Goes(s)
  <2>1. \A s \in ApiRun : ~Goes(s)
    BY <1>5, <1>6 DEF Goes, Comes, Api!NoRun
  <2> QED BY <1>1, <1>6, <2>1 DEF RunsGoOn, CallbacksStay
<1>8. Api!Holders(p.tenant, p.key)' = (IF p.key = None THEN {} ELSE {r})
  BY <1>2, <1>4, <1>5 DEF Api!Holders
<1>9. Api!OwnerOf(r)' = p.tenant /\ Api!Fate(r)' = 1
  BY <1>1, <1>2, <1>4, <1>5 DEF Api!OwnerOf, Api!Fate, Api!Over
<1> DEFINE q == [p EXCEPT !.pc = "done", !.answer = "queued", !.run = r]
<1>10. /\ q \in Api!Request /\ q.pc = "done" /\ q.answer = "queued" /\ q.who = p.who /\ q.op = p.op /\ q.tenant = p.tenant
       /\ q.run = r /\ q.key = p.key /\ q.callback = p.callback /\ q.knew = p.knew /\ q.first = p.first
  <2>1. "queued" \in Api!Answers /\ "done" \in Api!Pc
    BY DEF Api!Answers, Api!Live, Api!Pc
  <2> QED BY <1>2, <2>1 DEF Api!Request
<1>16. handler' = [handler EXCEPT ![h] = q]
  BY DEF Api!AnswerWith
<1> HIDE DEF q
<1>11. Api!Stands(q)'
  <2>0. Api!Placed(q) /\ q.op = "submit"
    BY <1>2, <1>10 DEF Api!Placed
  <2>1. Api!Placed(q)' /\ q.op = "submit"
    BY <2>0 DEF Api!Placed, Api!Scope
  <2>2. Api!Rank("queued") = 1
    BY DEF Api!Rank, Api!Live, Api!Over
  <2>3. Api!Says(q)'
    BY <1>9, <1>10, <2>2 DEF Api!Says, Api!Rank
  <2>4. q.key # None /\ q.first # None => stone[q.first] # None /\ Api!Holds(q.first, q.tenant, q.key)'
    BY <1>1, <1>2, <1>10 DEF Api!Submits, Api!Holds
  <2>5. q.key # None => Api!Holds(r, q.tenant, q.key)'
    BY <1>8, <1>10 DEF Api!Holds
  <2>6. Api!Submits(q)'
    BY <1>1, <1>10, <2>4, <2>5 DEF Api!Submits
  <2> QED BY <1>10, <2>1, <2>3, <2>6 DEF Api!Stands
<1>12. Api!RequestsStand'
  BY <1>7, <1>10, <1>11, <1>16, RequestsGoOn
<1>13. Api!TypeOK'
  BY <1>1, <1>3, <1>5, <1>12 DEF Api!TypeOK, Api!RequestsStand, Api!Request
<1>14. Api!WalkIsOnCourse'
  BY <1>1, <1>7, WalkWaits
<1>15. Api!TablesAgree'
  <2>1. ASSUME NEW s \in ApiRun
        PROVE  /\ stone'[s] # None => row'[s].tenant = None
               /\ row'[s].tenant = None => row'[s] = Api!NoRun
               /\ told'[s] <= Api!Fate(s)'
    <3>1. told[s] \in 0 .. 3 /\ told[s] <= Api!Fate(s)
      BY <1>3 DEF Api!TypeOK, Api!TablesAgree
    <3> QED BY <1>1, <1>3, <1>7, <3>1, RunGoesOn DEF RunsGoOn
  <2>2. ASSUME NEW s \in ApiRun, row'[s].callback # None PROVE callback'[row'[s].callback].owner = row'[s].tenant
    <3>1. CASE s = r
      BY <1>1, <1>2, <1>4, <1>5, <2>2, <3>1 DEF Api!Submits
    <3>2. CASE s # r
      BY <1>1, <1>3, <1>5, <2>2, <3>2 DEF Api!TablesAgree
    <3> QED BY <3>1, <3>2
  <2>3. ASSUME NEW s \in ApiRun, NEW t \in ApiRun, row'[s].tenant # None, row'[s].key # None,
               row'[t].tenant = row'[s].tenant, row'[t].key = row'[s].key
        PROVE  t = s
    <3>1. CASE s = r \/ t = r
      <4>1. s \in Api!Holders(p.tenant, p.key)' /\ t \in Api!Holders(p.tenant, p.key)'
        BY <1>4, <1>5, <2>3, <3>1 DEF Api!Holders
      <4> QED BY <1>8, <4>1
    <3>2. CASE s # r /\ t # r
      <4>1. t \in Api!Holders(row[s].tenant, row[s].key) /\ row[s].tenant # None
        BY <1>5, <2>3, <3>2 DEF Api!Holders
      <4> QED BY <1>3, <4>1 DEF Api!TablesAgree
    <3> QED BY <3>1, <3>2
  <2>4. ASSUME NEW t \in Tenant, NEW k \in RequestKey, held[t][k] # None PROVE (Api!Holds(held[t][k], t, k))'
    <3>0. held[t][k] \in ApiRun
      BY <1>17, <2>4
    <3>1. PICK s \in ApiRun : s = held[t][k]
      BY <3>0
    <3>2. Api!Holds(s, t, k)'
      BY <1>3, <1>7, <2>4, <3>1, KeysAreKept DEF Api!TablesAgree
    <3>3. held'[t][k] = s
      BY <1>1, <3>1
    <3> QED BY <3>2, <3>3 DEF Api!Holds, Api!Holders
  <2> QED BY <1>1, <2>1, <2>2, <2>3, <2>4 DEF Api!TablesAgree, Api!Holders
<1> QED BY <1>12, <1>13, <1>14, <1>15 DEF Api!ApiInv

LEMMA RunsAreInserted == ASSUME Api!ApiInv, NEW h \in Handler, Api!Insert(h) PROVE Api!ApiInv'
<1>0. PICK p : p = handler[h]
  OBVIOUS
<1>1. p.pc = "insert" /\ Api!Only(<<stone, onFile, result, checks, callback>>)
  BY <1>0 DEF Api!Insert, Api!At
<1>2. /\ stone' = stone /\ callback' = callback /\ scene' = scene /\ instant' = instant
      /\ told' = told /\ held' = held /\ walk' = walk
      /\ onFile' \in SUBSET Tenant /\ result' \in SUBSET ApiRun /\ checks' \in SUBSET ApiRun
  BY <1>1 DEF Api!Only, Api!clients, Api!ApiInv, Api!TypeOK
<1>3. /\ p.op = "submit" /\ p.op \notin {"state", "result", "check", "cancel"} /\ p.pc # "idle"
      /\ scene.run \subseteq ApiRun /\ instant \in Nat
  BY <1>0, <1>1, RequestUnderWay, PlacesAre DEF Api!ApiInv, Api!TypeOK
<1>4. CASE Api!Go(h, "holder") /\ row' = row
  <2>1. "holder" \in Api!Places(p.op) \ {"owner"}
    BY <1>3 DEF Api!Places
  <2> QED BY <1>0, <1>2, <1>3, <1>4, <2>1, RequestGoes
<1>5. CASE Api!Answer(h, "unavailable") /\ row' = row
  <2>1. /\ Api!Rank("unavailable") = 0
        /\ "unavailable" \in Api!Answers
    BY DEF Api!Rank, Api!Live, Api!Over, Api!Answers
  <2> QED BY <1>0, <1>2, <1>3, <1>5, <2>1, RequestAnswers
<1>6. CASE ~(Api!Go(h, "holder") /\ row' = row) /\ ~(Api!Answer(h, "unavailable") /\ row' = row)
  <2>1. /\ Api!Holders(p.tenant, p.key) = {}
        /\ \E r \in scene.run, at \in {instant, IF instant > 0 THEN instant - 1 ELSE 0} :
             /\ row[r].tenant = None /\ stone[r] = None
             /\ row' = [row EXCEPT ![r] = [tenant |-> p.tenant, status |-> "queued", created |-> at, key |-> p.key,
                                           callback |-> p.callback]]
             /\ Api!AnswerWith(h, "queued", r)
    BY <1>0, <1>6 DEF Api!Insert
  <2>2. PICK r \in scene.run, at \in {instant, IF instant > 0 THEN instant - 1 ELSE 0} :
             /\ row[r].tenant = None /\ stone[r] = None
             /\ row' = [row EXCEPT ![r] = [tenant |-> p.tenant, status |-> "queued", created |-> at, key |-> p.key,
                                           callback |-> p.callback]]
             /\ Api!AnswerWith(h, "queued", r)
    BY <2>1
  <2>3. r \in ApiRun /\ at \in Nat
    BY <1>3
  <2> QED BY <1>0, <1>1, <2>1, <2>2, <2>3, RunsAreCreated
<1> QED BY <1>4, <1>5, <1>6

(* A submission sent again is answered with the run that holds its key.      *)
LEMMA HoldersAreRead == ASSUME Api!ApiInv, NEW h \in Handler, Api!ReadHolder(h) PROVE Api!ApiInv'
<1>0. PICK p : p = handler[h]
  OBVIOUS
<1>1. p.pc = "holder" /\ Api!Only(Api!tables)
  BY <1>0 DEF Api!ReadHolder, Api!At
<1>2. /\ row' = row /\ stone' = stone /\ callback' = callback /\ scene' = scene /\ instant' = instant
      /\ told' = told /\ held' = held /\ walk' = walk
      /\ onFile' \in SUBSET Tenant /\ result' \in SUBSET ApiRun /\ checks' \in SUBSET ApiRun
  BY <1>1, OnlyTheRequest
<1>3. /\ p \in Api!Request /\ Api!Placed(p) /\ Api!Submits(p) /\ p.op = "submit"
      /\ p.op \notin {"state", "result", "check", "cancel"} /\ p.pc # "idle" /\ p.tenant # None
      /\ p.first \in ApiRun \union {None}
  BY <1>0, <1>1, RequestUnderWay, PlacesAre
<1>4. CASE Api!Answer(h, "unavailable")
  <2>1. Api!Rank("unavailable") = 0 /\ "unavailable" \in Api!Answers
    BY DEF Api!Rank, Api!Live, Api!Over, Api!Answers
  <2> QED BY <1>0, <1>2, <1>3, <1>4, <2>1, RequestAnswers
<1>5. CASE \E r \in Api!Holders(p.tenant, p.key) : Api!AnswerWith(h, row[r].status, r)
  <2>1. PICK r \in Api!Holders(p.tenant, p.key) : Api!AnswerWith(h, row[r].status, r)
    BY <1>5
  <2>2. r \in ApiRun /\ row[r].tenant = p.tenant /\ p.key # None /\ row[r].key = p.key
    BY DEF Api!Holders
  <2> DEFINE s == row[r].status
             q == [p EXCEPT !.pc = "done", !.answer = s, !.run = r]
  <2>3. /\ s \in Api!Live \union Api!Over /\ Api!Fate(r) = Api!Rank(s) /\ Api!OwnerOf(r) = p.tenant
        /\ Api!Fate(r) = 1 \/ Api!Fate(r) = 2
    BY <1>3, <2>2, RowsSay
  <2>4. handler' = [handler EXCEPT ![h] = q]
    BY <1>0, <2>1 DEF Api!AnswerWith
  <2> HIDE DEF s
  <2>5. /\ q \in Api!Request /\ q.pc = "done" /\ q.answer = s /\ q.who = p.who /\ q.op = p.op /\ q.tenant = p.tenant
        /\ q.run = r /\ q.key = p.key /\ q.callback = p.callback /\ q.knew = p.knew /\ q.first = p.first
    <3>1. s \in Api!Answers /\ "done" \in Api!Pc
      BY <2>3 DEF Api!Answers, Api!Pc
    <3> QED BY <1>3, <2>2, <3>1 DEF Api!Request
  <2> HIDE DEF q
  <2>6. Api!Placed(q) /\ Api!Says(q)
    BY <1>3, <2>2, <2>3, <2>5 DEF Api!Placed, Api!Says
  <2>7. q.first # None => Api!Holds(q.first, q.tenant, q.key)
    BY <1>3, <2>2, <2>5 DEF Api!Submits
  <2>8. q.first # None /\ stone[q.first] = None => q.first = r
    <3> SUFFICES ASSUME q.first # None, stone[q.first] = None PROVE q.first = r
      OBVIOUS
    <3>1. q.first \in Api!Holders(row[r].tenant, row[r].key)
      BY <2>2, <2>5, <2>7 DEF Api!Holds
    <3>2. row[r].tenant # None
      BY <1>3, <2>2
    <3> QED BY <2>2, <3>1, <3>2 DEF Api!ApiInv, Api!TablesAgree
  <2>9. Api!Submits(q)
    <3>1. Api!Holds(r, q.tenant, q.key)
      BY <2>5 DEF Api!Holds
    <3> QED BY <2>5, <2>7, <2>8, <3>1 DEF Api!Submits
  <2>10. Api!Stands(q) /\ q.pc # "idle"
    BY <1>3, <2>5, <2>6, <2>9 DEF Api!Stands
  <2> QED BY <1>2, <2>4, <2>5, <2>10, RequestMoves
<1> QED BY <1>0, <1>4, <1>5 DEF Api!ReadHolder

LEMMA CallbacksAreWritten == ASSUME Api!ApiInv, NEW h \in Handler, Api!WriteCallback(h) PROVE Api!ApiInv'
<1>0. PICK p : p = handler[h]
  OBVIOUS
<1>1. p.pc = "write" /\ Api!Answer(h, "written")
  BY <1>0 DEF Api!WriteCallback, Api!At
<1>2. /\ row' = row /\ stone' = stone /\ scene' = scene /\ instant' = instant
      /\ told' = told /\ held' = held /\ walk' = walk
      /\ onFile' \in SUBSET Tenant /\ result' \in SUBSET ApiRun /\ checks' \in SUBSET ApiRun
      /\ row' \in [ApiRun -> Api!RunRow]
  BY DEF Api!WriteCallback, Api!Only, Api!clients, Api!ApiInv, Api!TypeOK
<1>3. /\ p \in Api!Request /\ Api!Placed(p) /\ p.op \in {"register", "revoke"} /\ p.pc # "idle"
      /\ p.tenant \in Tenant /\ p.tenant # None /\ p.callback \in Callback
  BY <1>0, <1>1, RequestUnderWay, PlacesAre DEF Api!Placed
<1>4. callback \in [Callback -> Api!CallbackRow]
  BY DEF Api!ApiInv, Api!TypeOK
<1>5. /\ callback' \in [Callback -> Api!CallbackRow]
      /\ CallbacksStay
  <2>1. CASE callback' = callback
    BY <1>4, <2>1 DEF CallbacksStay
  <2>2. CASE callback[p.callback].owner = None /\ callback' = [callback EXCEPT ![p.callback] = [owner |-> p.tenant, live |-> TRUE]]
    <3> DEFINE new == [owner |-> p.tenant, live |-> TRUE]
    <3>1. new \in Api!CallbackRow
      BY <1>3 DEF Api!CallbackRow
    <3> HIDE DEF new
    <3>2. callback' = [callback EXCEPT ![p.callback] = new]
      BY <2>2 DEF new
    <3> QED BY <1>3, <1>4, <2>2, <3>1, <3>2 DEF CallbacksStay
  <2>3. CASE callback' = [callback EXCEPT ![p.callback].live = FALSE]
    <3>1. callback' \in [Callback -> Api!CallbackRow]
      BY <1>3, <1>4, <2>3 DEF Api!CallbackRow
    <3>2. \A c \in Callback : callback'[c].owner = callback[c].owner
      BY <1>3, <1>4, <2>3 DEF Api!CallbackRow
    <3> QED BY <3>1, <3>2 DEF CallbacksStay
  <2> QED BY <1>0, <2>1, <2>2, <2>3 DEF Api!WriteCallback
<1>6. RunsGoOn /\ \A r \in ApiRun : ~Comes(r) /\ ~Goes(r)
  BY <1>2 DEF RunsGoOn, Stays, Comes, Goes, Api!NoRun
<1> DEFINE q == [p EXCEPT !.pc = "done", !.answer = "written"]
<1>7. handler' = [handler EXCEPT ![h] = q]
  BY <1>0, <1>1 DEF Api!Answer
<1>8. /\ q \in Api!Request /\ q.pc = "done" /\ q.answer = "written" /\ q.who = p.who /\ q.op = p.op /\ q.tenant = p.tenant
      /\ q.run = p.run /\ q.callback = p.callback
  <2>1. "written" \in Api!Answers /\ "done" \in Api!Pc
    BY DEF Api!Answers, Api!Pc
  <2> QED BY <1>3, <2>1 DEF Api!Request
<1> HIDE DEF q
<1>9. Api!Stands(q) /\ q.pc # "idle"
  <2>1. Api!Rank("written") = 0
    BY DEF Api!Rank, Api!Live, Api!Over
  <2>2. Api!Says(q)
    BY <1>8, <2>1 DEF Api!Says
  <2> QED BY <1>3, <1>8, <2>2 DEF Api!Stands, Api!Placed
<1> QED BY <1>2, <1>5, <1>6, <1>7, <1>8, <1>9, RequestMovesOn

(* What a step keeps that leaves the requests alone.                         *)
LEMMA TablesMove ==
  ASSUME Api!ApiInv, RunsGoOn, \A r \in ApiRun : ~Comes(r), callback' = callback, handler' = handler,
         scene' = scene, instant' \in 0 .. scene'.until, told' = told, held' = held,
         row' \in [ApiRun -> Api!RunRow], stone' \in [ApiRun -> Tenant \union {None}],
         onFile' \in SUBSET Tenant, result' \in SUBSET ApiRun, checks' \in SUBSET ApiRun, Api!WalkIsOnCourse'
  PROVE  Api!ApiInv'
<1>1. CallbacksStay
  BY DEF CallbacksStay
<1>2. Api!RequestsStand'
  BY <1>1, RequestsWait
<1>3. Api!TypeOK'
  BY DEF Api!ApiInv, Api!TypeOK
<1>4. Api!TablesAgree'
  BY <1>1, TablesGoOn DEF Api!ApiInv
<1> QED BY <1>2, <1>3, <1>4 DEF Api!ApiInv

(* Runs are removed: their rows are gone and their tombstones stand.         *)
LEMMA RunsAreBuried ==
  ASSUME Api!ApiInv, NEW gone \in SUBSET ApiRun, Api!Bury(gone)
  PROVE  /\ RunsGoOn /\ \A s \in ApiRun : ~Comes(s)
         /\ row' \in [ApiRun -> Api!RunRow] /\ stone' \in [ApiRun -> Tenant \union {None}]
         /\ Api!WalkIsOnCourse'
<1>1. /\ \A r \in gone : row[r].tenant # None
      /\ row' = [r \in ApiRun |-> IF r \in gone THEN Api!NoRun ELSE row[r]]
      /\ stone' = [r \in ApiRun |-> IF r \in gone THEN row[r].tenant ELSE stone[r]]
      /\ walk' = [walk EXCEPT !.owed = walk.owed \ gone]
  BY DEF Api!Bury, Api!ApiInv, Api!WalkIsOnCourse
<1>2. /\ row \in [ApiRun -> Api!RunRow] /\ stone \in [ApiRun -> Tenant \union {None}] /\ walk.owed \in SUBSET ApiRun
      /\ Api!NoRun \in Api!RunRow /\ Api!NoRun.tenant = None /\ \A r \in ApiRun : row[r].tenant \in Tenant \union {None}
  BY DEF Api!ApiInv, Api!TypeOK, Api!RunRow, Api!NoRun, Api!Live, Api!WalkIsOnCourse
<1>3. (\A r \in gone : Goes(r)) /\ \A s \in ApiRun \ gone : Stays(s)
  BY <1>1, <1>2 DEF Goes, Stays
<1>4. RunsGoOn /\ \A s \in ApiRun : ~Comes(s)
  <2>1. \A s \in ApiRun : ~Comes(s)
    BY <1>1, <1>2, <1>3 DEF Comes, Stays, Goes
  <2> QED BY <1>3, <2>1 DEF RunsGoOn
<1>5. \A s \in walk.owed \ gone : ~Goes(s)
  BY <1>2, <1>3 DEF Goes, Stays
<1>7. Api!WalkIsOnCourse'
  <2>1. walk.owed \ gone \in SUBSET walk.owed
    OBVIOUS
  <2> QED BY <1>1, <1>4, <1>5, <2>1, WalkGoesOn
<1>8. row' \in [ApiRun -> Api!RunRow] /\ stone' \in [ApiRun -> Tenant \union {None}]
  BY <1>1, <1>2
<1> QED BY <1>4, <1>7, <1>8

LEMMA TenantsAreListed == ASSUME Api!ApiInv, NEW h \in Handler, Api!Erase(h) PROVE Api!ApiInv'
<1>0. PICK p : p = handler[h]
  OBVIOUS
<1>1. p.pc = "erase" /\ Api!Only(Api!tables)
  BY <1>0 DEF Api!Erase, Api!At
<1>2. /\ row' = row /\ stone' = stone /\ callback' = callback /\ scene' = scene /\ instant' = instant
      /\ told' = told /\ held' = held /\ walk' = walk
      /\ onFile' \in SUBSET Tenant /\ result' \in SUBSET ApiRun /\ checks' \in SUBSET ApiRun
  BY <1>1, OnlyTheRequest
<1>3. /\ p.op = "erase" /\ p.op \notin {"state", "result", "check", "cancel", "submit"} /\ p.pc # "idle"
      /\ p \in Api!Request /\ Api!Placed(p)
  BY <1>0, <1>1, RequestUnderWay, PlacesAre
<1>4. CASE Api!Answer(h, "refused")
  <2>1. Api!Rank("refused") = 0 /\ "refused" \in Api!Answers
    BY DEF Api!Rank, Api!Live, Api!Over, Api!Answers
  <2> QED BY <1>0, <1>2, <1>3, <1>4, <2>1, RequestAnswers
<1>5. CASE handler' = [handler EXCEPT ![h].pc = "wipe", ![h].listed = Api!RunsOf(p.tenant)]
  <2> DEFINE q == [p EXCEPT !.pc = "wipe", !.listed = Api!RunsOf(p.tenant)]
  <2>1. Api!RunsOf(p.tenant) \in SUBSET ApiRun
    BY DEF Api!RunsOf
  <2>2. q \in Api!Request
    <3>1. "wipe" \in Api!Pc
      BY DEF Api!Pc
    <3>2. PICK S \in SUBSET ApiRun : S = Api!RunsOf(p.tenant)
      BY <2>1
    <3>3. [p EXCEPT !.pc = "wipe", !.listed = S] \in Api!Request
      BY <1>3, <3>1 DEF Api!Request
    <3> QED BY <3>2, <3>3
  <2>3. /\ q.pc = "wipe" /\ q.who = p.who /\ q.op = p.op /\ q.tenant = p.tenant
        /\ q.run = p.run /\ q.key = p.key /\ q.callback = p.callback /\ q.knew = p.knew /\ q.first = p.first
    BY <1>3 DEF Api!Request
  <2>4. handler' = [handler EXCEPT ![h] = q]
    BY <1>0, <1>5
  <2> HIDE DEF q
  <2>5. q.pc \in Api!Places(p.op) \ {"owner"} /\ q.tenant \in Api!Scope(p.who)
    BY <1>3, <2>3 DEF Api!Places, Api!Placed
  <2>6. q.op \notin {"state", "result", "check", "cancel"} /\ q.op # "submit"
    BY <1>3, <2>3
  <2> QED BY <1>0, <1>2, <1>3, <2>2, <2>3, <2>4, <2>5, <2>6, RequestProceeds
<1> QED BY <1>0, <1>4, <1>5 DEF Api!Erase

LEMMA RunsAreRecalled == ASSUME Api!ApiInv, NEW h \in Handler, Api!Recall(h) PROVE Api!ApiInv'
<1>1. PICK r \in handler[h].listed :
        Api!Found(r, handler[h].tenant) /\ row[r].status = "queued" /\ row' = [row EXCEPT ![r].status = "cancelled"]
  BY DEF Api!Recall
<1>2. /\ stone' = stone /\ callback' = callback /\ scene' = scene /\ instant' = instant /\ handler' = handler
      /\ told' = told /\ held' = held /\ walk' = walk /\ onFile' = onFile /\ result' = result /\ checks' = checks
  BY DEF Api!Recall, Api!Only, Api!clients
<1>3. r \in ApiRun
  <2>1. handler[h] \in Api!Request
    BY DEF Api!ApiInv, Api!RequestsStand
  <2> QED BY <1>1, <2>1 DEF Api!Request
<1>4. row \in [ApiRun -> Api!RunRow] /\ "cancelled" \in Api!Over /\ row[r].tenant # None
  BY <1>1 DEF Api!ApiInv, Api!TypeOK, Api!Over, Api!Found
<1>5. row' \in [ApiRun -> Api!RunRow]
  BY <1>1, <1>3, <1>4 DEF Api!RunRow
<1>6. \A s \in ApiRun : Stays(s) \/ Proceeds(s)
  BY <1>1, <1>2, <1>3, <1>4 DEF Stays, Proceeds, Api!RunRow
<1>7. \A s \in ApiRun : row'[s].tenant = row[s].tenant
  BY <1>1, <1>3, <1>4 DEF Api!RunRow
<1>8. RunsGoOn /\ \A s \in ApiRun : ~Comes(s) /\ ~Goes(s)
  BY <1>6, <1>7 DEF RunsGoOn, Comes, Goes, Api!NoRun
<1>9. Api!WalkIsOnCourse'
  BY <1>2, <1>8, WalkWaits
<1>10. /\ stone' \in [ApiRun -> Tenant \union {None}] /\ instant' \in 0 .. scene'.until
       /\ onFile' \in SUBSET Tenant /\ result' \in SUBSET ApiRun /\ checks' \in SUBSET ApiRun
  BY <1>2 DEF Api!ApiInv, Api!TypeOK
<1> QED BY <1>2, <1>5, <1>8, <1>9, <1>10, TablesMove

LEMMA NamespacesAreWiped == ASSUME Api!ApiInv, NEW h \in Handler, Api!Wipe(h) PROVE Api!ApiInv'
<1>0. PICK p : p = handler[h]
  OBVIOUS
<1>1. p.pc = "wipe" /\ Api!Go(h, "entomb") /\ onFile' = onFile \ {p.tenant} /\ result' = {r \in result : Api!OwnerOf(r) # p.tenant}
  BY <1>0 DEF Api!Wipe, Api!At
<1>2. /\ row' = row /\ stone' = stone /\ callback' = callback /\ scene' = scene /\ instant' = instant
      /\ told' = told /\ held' = held /\ walk' = walk /\ checks' = checks
  BY DEF Api!Wipe, Api!Only, Api!clients
<1>3. onFile' \in SUBSET Tenant /\ result' \in SUBSET ApiRun /\ checks' \in SUBSET ApiRun
  BY <1>1, <1>2 DEF Api!ApiInv, Api!TypeOK
<1>4. p.op = "erase" /\ p.op \notin {"state", "result", "check", "cancel", "submit"} /\ p.pc # "idle"
  BY <1>0, <1>1, RequestUnderWay, PlacesAre
<1>5. "entomb" \in Api!Places(p.op) \ {"owner"}
  BY <1>4 DEF Api!Places
<1> QED BY <1>0, <1>1, <1>2, <1>3, <1>4, <1>5, RequestGoes

LEMMA TenantsAreEntombed == ASSUME Api!ApiInv, NEW h \in Handler, Api!Entomb(h) PROVE Api!ApiInv'
<1>1. PICK gone : gone = Api!Doomed(h)
  OBVIOUS
<1>2. /\ Api!Bury(gone) /\ callback' = callback /\ handler' = handler /\ scene' = scene /\ instant' = instant
      /\ told' = told /\ held' = held /\ onFile' = onFile /\ result' = result /\ checks' = checks
  BY <1>1 DEF Api!Entomb
<1>3. gone \in SUBSET ApiRun
  BY <1>1 DEF Api!Doomed, Api!RunsOf
<1>4. /\ RunsGoOn /\ \A s \in ApiRun : ~Comes(s)
      /\ row' \in [ApiRun -> Api!RunRow] /\ stone' \in [ApiRun -> Tenant \union {None}]
      /\ Api!WalkIsOnCourse'
  BY <1>2, <1>3, RunsAreBuried
<1>5. instant' \in 0 .. scene'.until /\ onFile' \in SUBSET Tenant /\ result' \in SUBSET ApiRun /\ checks' \in SUBSET ApiRun
  BY <1>2 DEF Api!ApiInv, Api!TypeOK
<1> QED BY <1>2, <1>4, <1>5, TablesMove

(* A callback whose row is gone is still one its tenant had.                 *)
LEMMA TenantsArePurged == ASSUME Api!ApiInv, NEW h \in Handler, Api!Purge(h) PROVE Api!ApiInv'
<1>0. PICK p : p = handler[h]
  OBVIOUS
<1>1. /\ p.pc = "entomb" /\ Api!Answer(h, "erased")
      /\ checks' = {r \in checks : Api!OwnerOf(r) # p.tenant}
      /\ callback' = [c \in Callback |-> [callback[c] EXCEPT !.live = callback[c].live /\ callback[c].owner # p.tenant]]
  <2>1. callback \in [Callback -> Api!CallbackRow]
    BY DEF Api!ApiInv, Api!TypeOK
  <2> QED BY <1>0, <2>1 DEF Api!Purge, Api!At, Api!CallbackRow
<1>2. /\ row' = row /\ stone' = stone /\ scene' = scene /\ instant' = instant /\ told' = told /\ held' = held /\ walk' = walk
      /\ onFile' = onFile /\ result' = result
  BY DEF Api!Purge, Api!Only, Api!clients
<1>3. /\ onFile' \in SUBSET Tenant /\ result' \in SUBSET ApiRun /\ checks' \in SUBSET ApiRun /\ row' \in [ApiRun -> Api!RunRow]
  BY <1>1, <1>2 DEF Api!ApiInv, Api!TypeOK
<1>4. callback' \in [Callback -> Api!CallbackRow] /\ CallbacksStay
  <2>1. callback \in [Callback -> Api!CallbackRow]
    BY DEF Api!ApiInv, Api!TypeOK
  <2>2. \A c \in Callback : callback'[c] = [owner |-> callback[c].owner, live |-> callback[c].live /\ callback[c].owner # p.tenant]
    BY <1>1, <2>1 DEF Api!CallbackRow
  <2>3. \A c \in Callback : (callback[c].live /\ callback[c].owner # p.tenant) \in BOOLEAN
    BY Zenon
  <2>4. \A c \in Callback : callback'[c] \in Api!CallbackRow /\ callback'[c].owner = callback[c].owner
    <3> SUFFICES ASSUME NEW c \in Callback PROVE callback'[c] \in Api!CallbackRow /\ callback'[c].owner = callback[c].owner
      OBVIOUS
    <3>1. PICK b \in BOOLEAN : b = (callback[c].live /\ callback[c].owner # p.tenant)
      BY <2>3
    <3>2. callback'[c] = [owner |-> callback[c].owner, live |-> b]
      BY <2>2, <3>1
    <3>3. callback[c].owner \in Tenant \union {None}
      BY <2>1 DEF Api!CallbackRow
    <3> QED BY <3>2, <3>3 DEF Api!CallbackRow
  <2>5. DOMAIN callback' = Callback /\ callback' = [c \in Callback |-> callback'[c]]
    BY <1>1
  <2> QED BY <2>4, <2>5 DEF CallbacksStay
<1>5. RunsGoOn /\ \A r \in ApiRun : ~Comes(r) /\ ~Goes(r)
  BY <1>2 DEF RunsGoOn, Stays, Comes, Goes, Api!NoRun
<1>6. /\ p.op = "erase" /\ p.op \notin {"state", "result", "check", "cancel", "submit"} /\ p.pc # "idle"
      /\ p \in Api!Request /\ Api!Placed(p)
  BY <1>0, <1>1, RequestUnderWay, PlacesAre
<1> DEFINE q == [p EXCEPT !.pc = "done", !.answer = "erased"]
<1>7. handler' = [handler EXCEPT ![h] = q]
  BY <1>0, <1>1 DEF Api!Answer
<1>8. /\ q \in Api!Request /\ q.pc = "done" /\ q.answer = "erased" /\ q.who = p.who /\ q.op = p.op /\ q.tenant = p.tenant
      /\ q.run = p.run /\ q.callback = p.callback
  <2>1. "erased" \in Api!Answers /\ "done" \in Api!Pc
    BY DEF Api!Answers, Api!Pc
  <2> QED BY <1>6, <2>1 DEF Api!Request
<1> HIDE DEF q
<1>9. Api!Stands(q) /\ q.pc # "idle"
  <2>1. Api!Rank("erased") = 0
    BY DEF Api!Rank, Api!Live, Api!Over
  <2> QED BY <1>6, <1>8, <2>1 DEF Api!Stands, Api!Says, Api!Placed
<1> QED BY <1>2, <1>3, <1>4, <1>5, <1>7, <1>8, <1>9, RequestMovesOn

(* The client has its answer: what it was told is so, and it is told no less. *)
LEMMA AnswersAreGiven == ASSUME Api!ApiInv, NEW h \in Handler, Api!Reply(h) PROVE Api!ApiInv'
<1>0. PICK p : p = handler[h]
  OBVIOUS
<1>1. /\ p.pc = "done" /\ scene' = scene /\ instant' = instant /\ walk' = walk
      /\ row' = row /\ stone' = stone /\ onFile' = onFile /\ result' = result /\ checks' = checks /\ callback' = callback
      /\ handler' = [handler EXCEPT ![h] = Api!Idle]
  BY <1>0 DEF Api!Reply, Api!At, Api!tables
<1>2. /\ p \in Api!Request /\ Api!Says(p) /\ p.run \in ApiRun /\ p.tenant \in Tenant /\ p.key \in RequestKey \union {None}
      /\ p.op = "submit" => Api!Submits(p)
  BY <1>0, <1>1, RequestUnderWay
<1>3. /\ told \in [ApiRun -> 0 .. 3] /\ held \in [Tenant -> [RequestKey -> ApiRun \union {None}]]
      /\ \A r \in ApiRun : told[r] <= Api!Fate(r)
      /\ \A t \in Tenant, k \in RequestKey : held[t][k] # None => Api!Holds(held[t][k], t, k)
  BY DEF Api!ApiInv, Api!TypeOK, Api!TablesAgree
<1>4. Api!Rank(p.answer) \in 0 .. 3
  BY DEF Api!Rank
<1>5. told' \in [ApiRun -> 0 .. 3] /\ \A r \in ApiRun : told'[r] <= Api!Fate(r)
  <2>1. PICK n \in 0 .. 3 : told' = [told EXCEPT ![p.run] = n] /\ (n = told[p.run] \/ (n = Api!Rank(p.answer) /\ n > 0))
    <3> DEFINE n == IF Api!Rank(p.answer) > told[p.run] THEN Api!Rank(p.answer) ELSE told[p.run]
    <3>1. told' = [told EXCEPT ![p.run] = n]
      BY <1>0, <1>2, <1>3 DEF Api!Reply
    <3>2. n \in 0 .. 3 /\ (n = told[p.run] \/ (n = Api!Rank(p.answer) /\ n > 0))
      <4>1. told[p.run] \in 0 .. 3
        BY <1>2, <1>3
      <4> QED BY <1>4, <4>1
    <3> HIDE DEF n
    <3> QED BY <3>1, <3>2
  <2>2. n <= Api!Fate(p.run)
    BY <1>1, <1>2, <1>3, <2>1 DEF Api!Says
  <2> QED BY <1>2, <1>3, <2>1, <2>2
<1>6. /\ held' \in [Tenant -> [RequestKey -> ApiRun \union {None}]]
      /\ \A t \in Tenant, k \in RequestKey : held'[t][k] # None => Api!Holds(held'[t][k], t, k)
  <2>1. CASE p.op = "submit" /\ p.key # None /\ Api!Rank(p.answer) > 0
    <3>1. held' = [held EXCEPT ![p.tenant][p.key] = p.run]
      BY <1>0, <2>1 DEF Api!Reply
    <3>2. Api!Holds(p.run, p.tenant, p.key) /\ p.key \in RequestKey
      BY <1>1, <1>2, <2>1 DEF Api!Submits
    <3>3. held' \in [Tenant -> [RequestKey -> ApiRun \union {None}]]
      BY <1>2, <1>3, <3>1, <3>2
    <3>4. \A t \in Tenant, k \in RequestKey :
            \/ held'[t][k] = held[t][k]
            \/ t = p.tenant /\ k = p.key /\ held'[t][k] = p.run
      BY <1>2, <1>3, <3>1, <3>2
    <3> QED BY <1>3, <3>2, <3>3, <3>4
  <2>2. CASE ~(p.op = "submit" /\ p.key # None /\ Api!Rank(p.answer) > 0)
    <3>1. held' = held
      BY <1>0, <2>2 DEF Api!Reply
    <3> QED BY <1>3, <3>1
  <2> QED BY <2>1, <2>2
<1>7. RunsGoOn /\ CallbacksStay /\ \A r \in ApiRun : Stays(r) /\ ~Comes(r) /\ ~Goes(r)
  BY <1>1, NobodyComes
<1>8. Api!RequestsStand'
  <2>1. Api!Idle \in Api!Request /\ Api!Idle.pc = "idle"
    BY DEF Api!Idle, Api!Request, Api!Pc, Api!Operation, Api!Answers
  <2> QED BY <1>1, <1>7, <2>1, RequestsGoOn
<1>9. Api!WalkIsOnCourse'
  BY <1>1, <1>7, WalkWaits
<1>10. Api!TypeOK'
  BY <1>1, <1>5, <1>6, <1>8 DEF Api!ApiInv, Api!TypeOK, Api!RequestsStand, Api!Request
<1>11. Api!TablesAgree'
  <2>1. \A r \in ApiRun : told'[r] <= Api!Fate(r)'
    BY <1>1, <1>5 DEF Api!Fate
  <2>2. \A t \in Tenant, k \in RequestKey : held'[t][k] # None => (Api!Holds(held[t][k], t, k))'
    BY <1>1, <1>6 DEF Api!Holds, Api!Holders
  <2>3. \A r \in ApiRun :
          /\ stone[r] # None => row[r].tenant = None
          /\ row[r].tenant = None => row[r] = Api!NoRun
          /\ row[r].callback # None => callback[row[r].callback].owner = row[r].tenant
          /\ \A s \in Api!Holders(row[r].tenant, row[r].key) : row[r].tenant # None => s = r
    BY DEF Api!ApiInv, Api!TablesAgree
  <2> QED BY <1>1, <2>1, <2>2, <2>3 DEF Api!TablesAgree, Api!Holders
<1> QED BY <1>8, <1>9, <1>10, <1>11 DEF Api!ApiInv

LEMMA RequestsBegin == ASSUME Api!ApiInv, NEW h \in Handler, Api!Begin(h) PROVE Api!ApiInv'
<1>1. /\ row' = row /\ stone' = stone /\ callback' = callback /\ scene' = scene /\ instant' = instant
      /\ told' = told /\ held' = held /\ walk' = walk
      /\ onFile' \in SUBSET Tenant /\ result' \in SUBSET ApiRun /\ checks' \in SUBSET ApiRun
  BY OnlyTheRequest DEF Api!Begin
<1>2. /\ scene \in Scenes /\ told \in [ApiRun -> 0 .. 3] /\ held \in [Tenant -> [RequestKey -> ApiRun \union {None}]]
      /\ \A r \in ApiRun : told[r] <= Api!Fate(r)
      /\ \A t \in Tenant, k \in RequestKey : held[t][k] # None => Api!Holds(held[t][k], t, k)
  BY DEF Api!ApiInv, Api!TypeOK, Api!TablesAgree
<1>3. PICK who \in Api!Caller, op \in scene.op \ {"walk"}, r \in scene.run,
           k \in scene.key \union {None}, c \in scene.callback \union {None}, t \in Tenant :
        /\ op \notin {"submit"} => k = None
        /\ op \notin {"submit", "register", "revoke"} => c = None
        /\ op \in {"register", "revoke"} => c # None
        /\ op \in {"state", "cancel", "result", "check"} \/ r = CHOOSE x \in scene.run : TRUE
        /\ IF who = Administrator THEN op # "submit" \/ c = None ELSE t = (CHOOSE x \in Tenant : TRUE)
        /\ op = "erase" => who = Administrator
        /\ handler' = [handler EXCEPT ![h] =
             [Api!Idle EXCEPT
                !.pc = Api!Starts(who, op),
                !.who = who, !.op = op, !.run = r, !.key = k, !.callback = c,
                !.tenant = IF who = Administrator THEN t ELSE who,
                !.knew = IF Api!OwnerOf(r) \in Api!Scope(who) THEN told[r] ELSE 0,
                !.first = IF k = None THEN None ELSE held[IF who = Administrator THEN t ELSE who][k]]]
  BY DEF Api!Begin
<1>4. /\ op \in Api!Operation /\ op # "walk" /\ r \in ApiRun /\ k \in RequestKey \union {None} /\ c \in Callback \union {None}
  <2>1. scene.op \subseteq Api!Operation /\ scene.run \subseteq ApiRun /\ scene.key \subseteq RequestKey /\ scene.callback \subseteq Callback
    BY <1>2
  <2> QED BY <2>1
<1> DEFINE pc == Api!Starts(who, op)
           tenant == IF who = Administrator THEN t ELSE who
           knew == IF Api!OwnerOf(r) \in Api!Scope(who) THEN told[r] ELSE 0
           first == IF k = None THEN None ELSE held[tenant][k]
           q == [Api!Idle EXCEPT !.pc = pc, !.who = who, !.op = op, !.run = r, !.key = k, !.callback = c,
                                 !.tenant = tenant, !.knew = knew, !.first = first]
<1>5. handler' = [handler EXCEPT ![h] = q]
  BY <1>3
<1>6. /\ pc \in Api!Places(op) /\ pc # "stone"
      /\ pc = "owner" => who = Administrator
      /\ op \in {"state", "result", "check", "cancel"} /\ pc # "owner" => pc = "row" /\ who # Administrator
      /\ pc # "insert" /\ pc \notin {"content", "body", "flag", "finish", "again"}
  <2>1. CASE op \in {"state", "result", "check", "cancel"}
    <3>1. pc = IF who = Administrator THEN "owner" ELSE "row"
      BY <2>1 DEF Api!Starts, Api!FirstLook
    <3>2. "owner" \in Api!Places(op) /\ "row" \in Api!Places(op)
      BY <2>1 DEF Api!Places
    <3> QED BY <2>1, <3>1, <3>2
  <2>2. CASE op \in {"submit", "upload", "register", "revoke", "erase"}
    <3>1. CASE op \in {"submit", "upload"}
      <4>1. pc = "gate"
        BY <3>1 DEF Api!Starts
      <4>2. "gate" \in Api!Places(op)
        BY <3>1 DEF Api!Places
      <4> QED BY <3>1, <4>1, <4>2
    <3>2. CASE op = "erase"
      <4>1. pc = "erase"
        BY <3>2 DEF Api!Starts
      <4>2. "erase" \in Api!Places(op)
        BY <3>2 DEF Api!Places
      <4> QED BY <3>2, <4>1, <4>2
    <3>3. CASE op \in {"register", "revoke"}
      <4>1. pc = "write"
        BY <3>3 DEF Api!Starts
      <4>2. "write" \in Api!Places(op)
        BY <3>3 DEF Api!Places
      <4> QED BY <3>3, <4>1, <4>2
    <3> QED BY <2>2, <3>1, <3>2, <3>3
  <2> QED BY <1>4, <2>1, <2>2 DEF Api!Operation
<1>7. tenant \in Tenant /\ tenant \in Api!Scope(who) /\ (who # Administrator => tenant = who)
  BY <1>3 DEF Api!Scope, Api!Caller
<1>8. knew \in 0 .. 3 /\ knew <= Api!Fate(r) /\ (knew > 0 => Api!OwnerOf(r) \in Api!Scope(who))
  <2>1. told[r] \in 0 .. 3 /\ told[r] <= Api!Fate(r) /\ Api!Fate(r) \in {0, 1, 2, 3}
    BY <1>2, <1>4 DEF Api!Fate
  <2> QED BY <2>1
<1>9. first \in ApiRun \union {None} /\ (first # None => k # None /\ Api!Holds(first, tenant, k))
  <2>1. CASE k = None
    BY <2>1
  <2>2. CASE k # None
    BY <1>2, <1>4, <1>7, <2>2
  <2> QED BY <2>1, <2>2
<1> HIDE DEF pc, tenant, knew, first
<1>10. /\ q.pc = pc /\ q.who = who /\ q.op = op /\ q.run = r /\ q.key = k /\ q.callback = c /\ q.tenant = tenant
       /\ q.knew = knew /\ q.first = first /\ q.answer = "none"
  BY DEF Api!Idle
<1>11. pc \in Api!Pc /\ pc \notin {"idle", "done"}
  BY <1>4, <1>6, PlacesAre
<1>12. q \in Api!Request
  BY <1>3, <1>4, <1>7, <1>8, <1>9, <1>11 DEF Api!Idle, Api!Request, Api!Answers
<1> HIDE DEF q
<1>13. Api!Placed(q) /\ Api!Says(q)
  BY <1>3, <1>4, <1>6, <1>7, <1>10, <1>11 DEF Api!Placed, Api!Says
<1>14. q.op \in {"state", "result", "check", "cancel"} => Api!Looks(q)
  <2> SUFFICES ASSUME q.op \in {"state", "result", "check", "cancel"} PROVE Api!Looks(q)
    OBVIOUS
  <2>1. q.knew > 0 /\ q.pc # "owner" => Api!OwnerOf(q.run) = q.tenant
    BY <1>6, <1>7, <1>8, <1>10 DEF Api!Scope
  <2> QED BY <1>6, <1>8, <1>10, <1>11, <2>1 DEF Api!Looks
<1>15. q.op = "submit" => Api!Submits(q)
  BY <1>6, <1>9, <1>10, <1>11 DEF Api!Submits
<1>16. Api!Stands(q)
  BY <1>13, <1>14, <1>15 DEF Api!Stands
<1> QED BY <1>1, <1>5, <1>12, <1>16, RequestMoves

-----------------------------------------------------------------------------
(* The walk, and what goes on around the API                                 *)

LEMMA WalksBegin == ASSUME Api!ApiInv, Api!BeginWalk PROVE Api!ApiInv'
<1>1. /\ row' = row /\ stone' = stone /\ callback' = callback /\ handler' = handler /\ scene' = scene /\ instant' = instant
      /\ told' = told /\ held' = held /\ onFile' = onFile /\ result' = result /\ checks' = checks
  BY DEF Api!BeginWalk, Api!tables
<1>2. /\ RunsGoOn /\ \A r \in ApiRun : Stays(r) /\ ~Comes(r) /\ ~Goes(r)
  BY <1>1, NobodyComes
<1>3. Api!TypeOK /\ walk.missed = {} /\ ~walk.twice
  BY DEF Api!ApiInv, Api!WalkIsOnCourse, Api!PagesMissNothing
<1>4. PICK who \in Api!Caller :
        walk' = [who |-> who, before |-> None, seen |-> {}, twice |-> FALSE, owed |-> Api!Listed(who), missed |-> {}]
  BY DEF Api!BeginWalk
<1>5. who # None /\ Api!Listed(who) \subseteq ApiRun
  BY DEF Api!Caller, Api!Listed
<1>6. Api!Listed(who)' = Api!Listed(who)
  BY <1>1 DEF Api!Listed
<1>7. Api!WalkIsOnCourse'
  <2>1. walk' \in [who : Api!Caller \union {None}, before : Api!Cursor \union {None}, seen : SUBSET ApiRun,
                   twice : BOOLEAN, owed : SUBSET ApiRun, missed : SUBSET ApiRun]
    BY <1>4, <1>5
  <2>2. /\ walk'.who = who /\ walk'.before = None /\ walk'.seen = {} /\ walk'.twice = FALSE
        /\ walk'.owed = Api!Listed(who) /\ walk'.missed = {}
    BY <1>4
  <2>3. \A r \in walk'.owed : r \in (Api!Rest(walk.who, walk.before))'
    BY <1>6, <2>2 DEF Api!Rest, Api!Listed
  <2> QED BY <1>5, <2>1, <2>2, <2>3 DEF Api!WalkIsOnCourse, Api!PagesMissNothing
<1>8. /\ row' \in [ApiRun -> Api!RunRow] /\ stone' \in [ApiRun -> Tenant \union {None}] /\ instant' \in 0 .. scene'.until
      /\ onFile' \in SUBSET Tenant /\ result' \in SUBSET ApiRun /\ checks' \in SUBSET ApiRun
  BY <1>1, <1>3 DEF Api!TypeOK
<1> QED BY <1>1, <1>2, <1>7, <1>8, TablesMove

(* A page is the next one: nothing on it was seen, and what is owed and not  *)
(* on it comes after it.                                                     *)
LEMMA PagesAreTurned == ASSUME Api!ApiInv, Api!NextPage PROVE Api!ApiInv'
<1>1. /\ row' = row /\ stone' = stone /\ callback' = callback /\ handler' = handler /\ scene' = scene /\ instant' = instant
      /\ told' = told /\ held' = held /\ onFile' = onFile /\ result' = result /\ checks' = checks
  BY DEF Api!NextPage, Api!tables
<1>2. /\ RunsGoOn /\ \A r \in ApiRun : Stays(r) /\ ~Comes(r) /\ ~Goes(r)
  BY <1>1, NobodyComes
<1>3. Api!TypeOK /\ Api!TablesAgree
  BY DEF Api!ApiInv
<1>4. /\ walk \in [who : Api!Caller \union {None}, before : Api!Cursor \union {None}, seen : SUBSET ApiRun,
                   twice : BOOLEAN, owed : SUBSET ApiRun, missed : SUBSET ApiRun]
      /\ walk.missed = {} /\ ~walk.twice /\ walk.who # None
      /\ walk.seen # {} => walk.before # None
      /\ \A r \in walk.owed : r \in walk.seen \/ r \in Api!Rest(walk.who, walk.before)
      /\ \A r \in walk.seen : stone[r] # None \/ (row[r].tenant # None /\ ~Api!OlderThan(r, walk.before))
  BY DEF Api!ApiInv, Api!WalkIsOnCourse, Api!PagesMissNothing, Api!NextPage
<1> DEFINE S == Api!Rest(walk.who, walk.before)
           page == Api!Page(S)
           last == CHOOSE r \in page : \A s \in page : s = r \/ Api!Newer(s, r)
           seen == walk.seen \union page
<1>5. /\ S \subseteq ApiRun
      /\ \A r \in S : row[r].tenant # None /\ r \in Api!Listed(walk.who) /\ (walk.before # None => Api!OlderThan(r, walk.before))
  BY DEF Api!Rest, Api!Listed
<1>6. /\ page \subseteq S
      /\ Api!Cardinality(page) # PageSize => page = S
      /\ Api!Cardinality(page) = PageSize =>
           /\ last \in page
           /\ \A s \in page : s = last \/ Api!Newer(s, last)
           /\ \A s \in S \ page : Api!Newer(last, s)
  <2> HIDE DEF S
  <2> QED BY <1>3, <1>5, PagesAre
<1>7. walk' = IF Api!Cardinality(page) = PageSize
                THEN [walk EXCEPT !.before = [created |-> row[last].created, run |-> last], !.seen = seen,
                                  !.twice = walk.twice \/ walk.seen \intersect page # {}]
                ELSE [walk EXCEPT !.who = None, !.before = None, !.seen = {}, !.owed = {},
                                  !.twice = walk.twice \/ walk.seen \intersect page # {}, !.missed = walk.owed \ seen]
  BY <1>4 DEF Api!NextPage
<1> HIDE DEF S, page, last
<1>8. walk.seen \intersect page = {}
  <2> SUFFICES ASSUME NEW r \in walk.seen, r \in page PROVE FALSE
    OBVIOUS
  <2>1. r \in ApiRun /\ row[r].tenant # None /\ Api!OlderThan(r, walk.before)
    BY <1>4, <1>5, <1>6
  <2>2. stone[r] = None
    BY <1>3, <2>1 DEF Api!TablesAgree
  <2> QED BY <1>4, <2>1, <2>2
<1>9. \A r \in walk.owed : r \in walk.seen \/ r \in S
  BY <1>4 DEF S
<1>10. seen \subseteq ApiRun
  BY <1>4, <1>5, <1>6
<1>11. (walk.twice \/ walk.seen \intersect page # {}) = FALSE
  BY <1>4, <1>8
<1>12. CASE Api!Cardinality(page) = PageSize
  <2> DEFINE cursor == [created |-> row[last].created, run |-> last]
  <2>0. last \in ApiRun /\ last \in S /\ row[last].created \in Nat
    BY <1>3, <1>5, <1>6, <1>12, RowsAreOrdered
  <2>1. last \in ApiRun /\ last \in S /\ cursor \in Api!Cursor /\ cursor # None
    <3>1. cursor \in Api!Cursor
      BY <2>0 DEF Api!Cursor
    <3> HIDE DEF cursor
    <3> QED BY <2>0, <3>1
  <2>2. walk' = [walk EXCEPT !.before = cursor, !.seen = seen, !.twice = FALSE]
    BY <1>7, <1>11, <1>12
  <2>3. \A r \in ApiRun : Api!OlderThan(r, cursor) <=> Api!Newer(last, r)
    BY <1>3, <2>1, RowsAreOrdered
  <2>4. cursor.created = row[last].created /\ cursor.run = last
    OBVIOUS
  <2> HIDE DEF cursor, seen
  <2>5. /\ walk' \in [who : Api!Caller \union {None}, before : Api!Cursor \union {None}, seen : SUBSET ApiRun,
                      twice : BOOLEAN, owed : SUBSET ApiRun, missed : SUBSET ApiRun]
        /\ walk'.who = walk.who /\ walk'.before = cursor /\ walk'.seen = seen /\ walk'.twice = FALSE
        /\ walk'.owed = walk.owed /\ walk'.missed = {}
    BY <1>4, <1>10, <2>1, <2>2
  <2>6. ASSUME NEW r \in walk.owed PROVE r \in seen \/ r \in (Api!Rest(walk.who, walk.before))'
    <3>1. CASE r \in walk.seen \/ r \in page
      BY <3>1 DEF seen
    <3>2. CASE r \in S \ page
      <4>1. Api!OlderThan(r, cursor) /\ r \in ApiRun /\ r \in Api!Listed(walk.who)
        BY <1>5, <1>6, <1>12, <2>3, <3>2
      <4> QED BY <1>1, <2>5, <4>1 DEF Api!Rest, Api!Listed, Api!OlderThan
    <3> QED BY <1>9, <3>1, <3>2
  <2>7. ASSUME NEW r \in seen PROVE stone[r] # None \/ (row[r].tenant # None /\ ~Api!OlderThan(r, cursor))
    <3>1. CASE r \in page
      <4>1. r \in ApiRun /\ row[r].tenant # None /\ (r = last \/ Api!Newer(r, last))
        BY <1>5, <1>6, <1>12, <3>1
      <4> QED BY <1>3, <2>1, <2>3, <4>1, RowsAreOrdered
    <3>2. CASE r \in walk.seen
      <4>1. r \in ApiRun /\ walk.before # None /\ Api!OlderThan(last, walk.before) /\ walk.before \in Api!Cursor
        BY <1>4, <1>5, <2>1, <3>2
      <4>2. \A s \in ApiRun : row[s].created \in Nat /\ s \in Nat
        BY <1>3, RowsAreOrdered
      <4>3. walk.before.created \in Nat /\ walk.before.run \in Nat
        BY <4>1 DEF Api!Cursor
      <4>4. Api!OlderThan(r, cursor) => Api!OlderThan(r, walk.before)
        BY <2>1, <2>4, <4>1, <4>2, <4>3 DEF Api!OlderThan
      <4> QED BY <1>4, <3>2, <4>4
    <3> QED BY <3>1, <3>2 DEF seen
  <2>8. \A r \in walk'.seen : stone'[r] # None \/ (row'[r].tenant # None /\ ~(Api!OlderThan(r, walk.before))')
    BY <1>1, <2>5, <2>7 DEF Api!OlderThan
  <2>9. Api!WalkIsOnCourse'
    BY <1>4, <2>1, <2>5, <2>6, <2>8 DEF Api!WalkIsOnCourse, Api!PagesMissNothing
  <2>10. /\ row' \in [ApiRun -> Api!RunRow] /\ stone' \in [ApiRun -> Tenant \union {None}] /\ instant' \in 0 .. scene'.until
         /\ onFile' \in SUBSET Tenant /\ result' \in SUBSET ApiRun /\ checks' \in SUBSET ApiRun
    BY <1>1, <1>3 DEF Api!TypeOK
  <2> QED BY <1>1, <1>2, <2>9, <2>10, TablesMove
<1>13. CASE Api!Cardinality(page) # PageSize
  <2>1. walk.owed \ seen = {}
    BY <1>6, <1>9, <1>13
  <2> HIDE DEF seen
  <2>2. walk' = [walk EXCEPT !.who = None, !.before = None, !.seen = {}, !.owed = {}, !.twice = FALSE, !.missed = {}]
    BY <1>7, <1>11, <1>13, <2>1
  <2>3. /\ walk' \in [who : Api!Caller \union {None}, before : Api!Cursor \union {None}, seen : SUBSET ApiRun,
                      twice : BOOLEAN, owed : SUBSET ApiRun, missed : SUBSET ApiRun]
        /\ walk'.who = None /\ walk'.before = None /\ walk'.seen = {} /\ walk'.twice = FALSE
        /\ walk'.owed = {} /\ walk'.missed = {}
    BY <1>4, <2>2
  <2>4. Api!WalkIsOnCourse'
    BY <2>3 DEF Api!WalkIsOnCourse, Api!PagesMissNothing
  <2>5. /\ row' \in [ApiRun -> Api!RunRow] /\ stone' \in [ApiRun -> Tenant \union {None}] /\ instant' \in 0 .. scene'.until
        /\ onFile' \in SUBSET Tenant /\ result' \in SUBSET ApiRun /\ checks' \in SUBSET ApiRun
    BY <1>1, <1>3 DEF Api!TypeOK
  <2> QED BY <1>1, <1>2, <2>4, <2>5, TablesMove
<1> QED BY <1>12, <1>13

LEMMA ElsewhereGoesOn == ASSUME Api!ApiInv, Api!Elsewhere PROVE Api!ApiInv'
<1>1. /\ callback' = callback /\ handler' = handler /\ scene' = scene /\ instant' = instant
      /\ told' = told /\ held' = held /\ onFile' = onFile /\ checks' = checks
  BY DEF Api!Elsewhere
<1>2. /\ row \in [ApiRun -> Api!RunRow] /\ stone \in [ApiRun -> Tenant \union {None}] /\ instant \in 0 .. scene.until
      /\ onFile \in SUBSET Tenant /\ checks \in SUBSET ApiRun /\ result \in SUBSET ApiRun
  BY DEF Api!ApiInv, Api!TypeOK
<1>3. PICK r \in ApiRun :
        /\ row[r].tenant # None
        /\ \/ \E s \in Api!Live \union Api!Over :
                /\ row[r].status \notin Api!Over /\ row' = [row EXCEPT ![r].status = s] /\ stone' = stone /\ walk' = walk
                /\ result' = result \/ result' = result \union {r}
           \/ row' = row /\ stone' = stone /\ walk' = walk /\ result' = result \ {r}
           \/ Api!Bury({r}) /\ result' = result
  <2>1. PICK r \in ApiRun :
         /\ row[r].tenant # None
         /\ \/ /\ row[r].status = "queued"
               /\ row' = [row EXCEPT ![r].status = "running"]
               /\ UNCHANGED <<stone, result, walk>>
            \/ /\ row[r].status = "running"
               /\ \E s \in {"queued"} \union Api!Over :
                    /\ row' = [row EXCEPT ![r].status = s]
                    /\ result' = IF s = "succeeded" THEN result \union {r} ELSE result
               /\ UNCHANGED <<stone, walk>>
            \/ /\ row[r].status \in Api!Over /\ r \in result
               /\ result' = result \ {r} /\ UNCHANGED <<row, stone, walk>>
            \/ row[r].status \in Api!Over /\ r \notin result /\ Api!Bury({r}) /\ UNCHANGED result
    BY DEF Api!Elsewhere
  <2>2. /\ "queued" \in Api!Live /\ "running" \in Api!Live /\ "queued" \notin Api!Over /\ "running" \notin Api!Over
    BY DEF Api!Live, Api!Over
  <2>3. CASE /\ row[r].status = "queued" /\ row' = [row EXCEPT ![r].status = "running"]
             /\ UNCHANGED <<stone, result, walk>>
    BY <2>1, <2>2, <2>3
  <2>4. CASE /\ row[r].status = "running"
             /\ \E s \in {"queued"} \union Api!Over :
                    /\ row' = [row EXCEPT ![r].status = s]
                    /\ result' = IF s = "succeeded" THEN result \union {r} ELSE result
             /\ UNCHANGED <<stone, walk>>
    BY <2>1, <2>2, <2>4
  <2> QED BY <2>1, <2>3, <2>4
<1>4. CASE Api!Bury({r}) /\ result' = result
  <2>1. /\ RunsGoOn /\ \A s \in ApiRun : ~Comes(s)
        /\ row' \in [ApiRun -> Api!RunRow] /\ stone' \in [ApiRun -> Tenant \union {None}]
        /\ Api!WalkIsOnCourse'
    BY <1>1, <1>4, RunsAreBuried
  <2> QED BY <1>1, <1>2, <1>4, <2>1, TablesMove
<1>5. CASE row' = row /\ stone' = stone /\ walk' = walk /\ result' = result \ {r}
  <2>1. RunsGoOn /\ \A s \in ApiRun : Stays(s) /\ ~Comes(s) /\ ~Goes(s)
    BY <1>1, <1>5, NobodyComes
  <2>2. Api!WalkIsOnCourse'
    BY <1>5, <2>1, WalkWaits
  <2>3. result' \in SUBSET ApiRun
    BY <1>2, <1>5
  <2> QED BY <1>1, <1>2, <1>5, <2>1, <2>2, <2>3, TablesMove
<1>6. CASE \E s \in Api!Live \union Api!Over :
             /\ row[r].status \notin Api!Over /\ row' = [row EXCEPT ![r].status = s] /\ stone' = stone /\ walk' = walk
             /\ result' = result \/ result' = result \union {r}
  <2>1. PICK s \in Api!Live \union Api!Over :
             /\ row[r].status \notin Api!Over /\ row' = [row EXCEPT ![r].status = s] /\ stone' = stone /\ walk' = walk
             /\ result' = result \/ result' = result \union {r}
    BY <1>6
  <2>2. row' \in [ApiRun -> Api!RunRow]
    BY <1>2, <2>1 DEF Api!RunRow
  <2>3. \A q \in ApiRun : Stays(q) \/ Proceeds(q)
    BY <1>2, <1>3, <2>1 DEF Stays, Proceeds, Api!RunRow
  <2>4. \A q \in ApiRun : row'[q].tenant = row[q].tenant
    BY <1>2, <2>1 DEF Api!RunRow
  <2>5. RunsGoOn /\ \A q \in ApiRun : ~Comes(q) /\ ~Goes(q)
    BY <2>3, <2>4 DEF RunsGoOn, Comes, Goes, Api!NoRun
  <2>6. Api!WalkIsOnCourse'
    BY <2>1, <2>5, WalkWaits
  <2>7. result' \in SUBSET ApiRun
    BY <1>2, <2>1
  <2> QED BY <1>1, <1>2, <2>1, <2>2, <2>5, <2>6, <2>7, TablesMove
<1> QED BY <1>3, <1>4, <1>5, <1>6

LEMMA TimePasses == ASSUME Api!ApiInv, Api!Tick PROVE Api!ApiInv'
<1>1. /\ row' = row /\ stone' = stone /\ callback' = callback /\ handler' = handler /\ scene' = scene /\ walk' = walk
      /\ told' = told /\ held' = held /\ onFile' = onFile /\ result' = result /\ checks' = checks
  BY DEF Api!Tick, Api!tables, Api!clients
<1>2. RunsGoOn /\ \A r \in ApiRun : Stays(r) /\ ~Comes(r) /\ ~Goes(r)
  BY <1>1, NobodyComes
<1>3. Api!WalkIsOnCourse'
  BY <1>1, <1>2, WalkWaits
<1>4. instant' \in 0 .. scene'.until
  <2>1. scene.until \in Nat /\ instant \in 0 .. scene.until
    BY DEF Api!ApiInv, Api!TypeOK
  <2> QED BY <1>1, <2>1 DEF Api!Tick
<1>5. /\ row' \in [ApiRun -> Api!RunRow] /\ stone' \in [ApiRun -> Tenant \union {None}]
      /\ onFile' \in SUBSET Tenant /\ result' \in SUBSET ApiRun /\ checks' \in SUBSET ApiRun
  BY <1>1 DEF Api!ApiInv, Api!TypeOK
<1> QED BY <1>1, <1>2, <1>3, <1>4, <1>5, TablesMove

-----------------------------------------------------------------------------
LEMMA ApiStarts == Api!Init => Api!ApiInv
<1> SUFFICES ASSUME Api!Init PROVE Api!ApiInv
  OBVIOUS
<1>1. /\ scene \in Scenes /\ instant = 0 /\ stone = [r \in ApiRun |-> None] /\ result = {} /\ checks = {}
      /\ callback = [c \in Callback |-> [owner |-> None, live |-> FALSE]]
      /\ handler = [h \in Handler |-> Api!Idle]
      /\ told = [r \in ApiRun |-> IF row[r].tenant = None THEN 0 ELSE 1]
      /\ held = [t \in Tenant |-> [k \in RequestKey |-> None]]
      /\ walk = [who |-> None, before |-> None, seen |-> {}, twice |-> FALSE, owed |-> {}, missed |-> {}]
      /\ onFile \in SUBSET Tenant
  BY DEF Api!Init
<1>2. scene.run \subseteq ApiRun /\ scene.owner \subseteq Tenant \union {None} /\ scene.until \in Nat
  BY <1>1
<1>3. PICK owner \in [scene.run -> scene.owner] :
        row = [r \in ApiRun |-> IF r \in scene.run THEN [Api!NoRun EXCEPT !.tenant = owner[r]] ELSE Api!NoRun]
  BY DEF Api!Init
<1>4. ASSUME NEW r \in ApiRun
      PROVE  /\ row[r] = IF r \in scene.run THEN [Api!NoRun EXCEPT !.tenant = owner[r]] ELSE Api!NoRun
             /\ r \in scene.run => owner[r] \in Tenant \union {None}
  BY <1>2, <1>3
<1>5. ASSUME NEW r \in ApiRun
      PROVE  /\ row[r] \in Api!RunRow /\ row[r].key = None /\ row[r].callback = None /\ row[r].status = "queued"
             /\ row[r].tenant = None => row[r] = Api!NoRun
  <2>1. Api!NoRun = [tenant |-> None, status |-> "queued", created |-> 0, key |-> None, callback |-> None]
    BY DEF Api!NoRun
  <2>2. row[r] = Api!NoRun \/ \E t \in Tenant \union {None} : row[r] = [Api!NoRun EXCEPT !.tenant = t]
    BY <1>4
  <2>3. PICK t \in Tenant \union {None} :
          row[r] = [tenant |-> t, status |-> "queued", created |-> 0, key |-> None, callback |-> None]
    BY <2>1, <2>2
  <2> QED BY <2>1, <2>3 DEF Api!RunRow, Api!Live
<1>6. Api!TypeOK
  <2>1. row \in [ApiRun -> Api!RunRow]
    BY <1>3, <1>5
  <2>2. callback \in [Callback -> Api!CallbackRow]
    BY <1>1 DEF Api!CallbackRow
  <2>3. \A h \in Handler : handler[h].pc \in Api!Pc /\ handler[h].op \in Api!Operation
    BY <1>1 DEF Api!Idle, Api!Pc, Api!Operation
  <2>4. told \in [ApiRun -> 0 .. 3] /\ held \in [Tenant -> [RequestKey -> ApiRun \union {None}]] /\ instant \in 0 .. scene.until
    BY <1>1, <1>2
  <2> QED BY <1>1, <2>1, <2>2, <2>3, <2>4 DEF Api!TypeOK
<1>7. Api!TablesAgree
  <2>1. \A r \in ApiRun : told[r] <= Api!Fate(r)
    BY <1>1, <1>5 DEF Api!Fate, Api!Over
  <2> QED BY <1>1, <1>5, <2>1 DEF Api!TablesAgree, Api!Holders
<1>8. Api!RequestsStand
  <2>1. Api!Idle \in Api!Request /\ Api!Idle.pc = "idle"
    BY DEF Api!Idle, Api!Request, Api!Pc, Api!Operation, Api!Answers
  <2> HIDE DEF Api!Idle
  <2> QED BY <1>1, <2>1 DEF Api!RequestsStand, Api!At
<1>9. Api!WalkIsOnCourse
  BY <1>1 DEF Api!WalkIsOnCourse, Api!PagesMissNothing
<1> QED BY <1>6, <1>7, <1>8, <1>9 DEF Api!ApiInv

LEMMA ApiStep == Api!ApiInv /\ [Api!Next]_(Api!vars) => Api!ApiInv'
<1> SUFFICES ASSUME Api!ApiInv, [Api!Next]_(Api!vars) PROVE Api!ApiInv'
  OBVIOUS
<1>1. CASE UNCHANGED Api!vars
  <2>1. /\ row' = row /\ stone' = stone /\ callback' = callback /\ handler' = handler /\ scene' = scene /\ walk' = walk
        /\ instant' = instant /\ told' = told /\ held' = held /\ onFile' = onFile /\ result' = result /\ checks' = checks
    BY <1>1 DEF Api!vars
  <2>2. RunsGoOn /\ \A r \in ApiRun : Stays(r) /\ ~Comes(r) /\ ~Goes(r)
    BY <2>1, NobodyComes
  <2>3. Api!WalkIsOnCourse'
    BY <2>1, <2>2, WalkWaits
  <2>4. /\ row' \in [ApiRun -> Api!RunRow] /\ stone' \in [ApiRun -> Tenant \union {None}] /\ instant' \in 0 .. scene'.until
        /\ onFile' \in SUBSET Tenant /\ result' \in SUBSET ApiRun /\ checks' \in SUBSET ApiRun
    BY <2>1 DEF Api!ApiInv, Api!TypeOK
  <2> QED BY <2>1, <2>2, <2>3, <2>4, TablesMove
<1>2. ASSUME NEW h \in Handler, Api!Step(h) PROVE Api!ApiInv'
  BY <1>2, RequestsBegin, OwnersAreFound, RowsAreLookedUp, StonesAreLookedUp, ContentIsRead, ChecksAreRecorded,
     RunsAreFlagged, SubmissionsAreWithdrawn, RunsAreReadAgain, DocumentsAreFound, CallbacksAreFound, RunsAreInserted,
     HoldersAreRead, CallbacksAreWritten, TenantsAreListed, RunsAreRecalled, NamespacesAreWiped, TenantsAreEntombed,
     TenantsArePurged, AnswersAreGiven DEF Api!Step
<1> QED BY <1>1, <1>2, WalksBegin, PagesAreTurned, ElsewhereGoesOn, TimePasses DEF Api!Next

(* What the invariant says of the answers.                                   *)
LEMMA AnswersHold ==
  ASSUME Api!ApiInv
  PROVE  Api!StrangersLearnNothing /\ Api!AnswersStandUp /\ Api!ReplaysAgree /\ Api!PagesMissNothing
<1>1. ASSUME NEW h \in Handler, Api!Answered(h), NEW q, q = handler[h]
      PROVE  /\ Api!Rank(q.answer) > 0 => Api!OwnerOf(q.run) \in Api!Scope(q.who)
             /\ q.op \in {"state", "result", "check"} /\ q.answer # "invalid" => Api!Rank(q.answer) >= q.knew
             /\ q.op = "submit" /\ q.key # None /\ Api!Rank(q.answer) > 0 =>
                  q.first \in {None, q.run} \/ row[q.first].tenant = None
  <2>1. /\ Api!Placed(q) /\ Api!Says(q) /\ q.pc = "done" /\ q.first \in ApiRun \union {None}
        /\ q.op \in {"state", "result", "check", "cancel"} => Api!Looks(q)
        /\ q.op = "submit" => Api!Submits(q)
    BY <1>1, RequestUnderWay DEF Api!Answered, Api!At
  <2>2. Api!Rank(q.answer) > 0 => Api!OwnerOf(q.run) \in Api!Scope(q.who)
    BY <2>1 DEF Api!Placed, Api!Says
  <2>3. q.op \in {"state", "result", "check"} /\ q.answer # "invalid" => Api!Rank(q.answer) >= q.knew
    BY <2>1 DEF Api!Looks
  <2>4. q.op = "submit" /\ q.key # None /\ Api!Rank(q.answer) > 0 =>
          q.first \in {None, q.run} \/ row[q.first].tenant = None
    <3>1. \A r \in ApiRun : stone[r] # None => row[r].tenant = None
      BY DEF Api!ApiInv, Api!TablesAgree
    <3> QED BY <2>1, <3>1 DEF Api!Submits
  <2> QED BY <2>2, <2>3, <2>4
<1>2. Api!StrangersLearnNothing
  <2>1. \A r \in ApiRun : row[r].callback # None => callback[row[r].callback].owner = row[r].tenant
    BY DEF Api!ApiInv, Api!TablesAgree
  <2> QED BY <1>1, <2>1 DEF Api!StrangersLearnNothing
<1>3. Api!AnswersStandUp /\ Api!ReplaysAgree
  BY <1>1 DEF Api!AnswersStandUp, Api!ReplaysAgree
<1> QED BY <1>2, <1>3 DEF Api!ApiInv, Api!WalkIsOnCourse

HIDE ApiAssumption DEF scene, instant, row, stone, onFile, result, checks, callback, handler, told, held, walk

-----------------------------------------------------------------------------
(* Sums                                                                      *)

(* The units that a sum counts, and those of one argument.                   *)
Column(f, x) == {x} \X (1 .. f[x])
Units(f, S) == UNION {Column(f, x) : x \in S}

LEMMA SumsCountUnits ==
  ASSUME NEW S, NEW f \in [S -> Nat]
  PROVE  Limits!Total(f) = Cardinality(Units(f, S))
BY DEF Limits!Total, Units, Column, Limits!Cardinality, Cardinality

LEMMA ColumnsAreFinite ==
  ASSUME NEW x, NEW f, f[x] \in Nat
  PROVE  IsFiniteSet(Column(f, x)) /\ Cardinality(Column(f, x)) = f[x]
<1>1. IsFiniteSet({x}) /\ Cardinality({x}) = 1
  BY FS_Singleton
<1>2. PICK n \in Nat : n = f[x]
  OBVIOUS
<1>3. IsFiniteSet(1 .. n) /\ Cardinality(1 .. n) = n
  BY FS_Interval
<1>4. IsFiniteSet({x} \X (1 .. n)) /\ Cardinality({x} \X (1 .. n)) = Cardinality({x}) * Cardinality(1 .. n)
  BY <1>1, <1>3, FS_Product
<1>5. 1 * n = n
  OBVIOUS
<1> QED BY <1>1, <1>2, <1>3, <1>4, <1>5 DEF Column

LEMMA UnitsAreFinite ==
  ASSUME NEW S, IsFiniteSet(S), NEW f \in [S -> Nat]
  PROVE  IsFiniteSet(Units(f, S))
<1>1. DEFINE columns == {Column(f, x) : x \in S}
<1>2. IsFiniteSet(columns)
  <2>1. PICK g : g = [x \in S |-> Column(f, x)]
    OBVIOUS
  <2>2. g \in Surjection(S, columns)
    BY <2>1 DEF Surjection
  <2> QED BY <2>2, FS_Surjection
<1>3. \A c \in columns : IsFiniteSet(c)
  BY ColumnsAreFinite
<1> HIDE DEF columns
<1>4. IsFiniteSet(UNION columns)
  BY <1>2, <1>3, FS_UNION
<1> QED BY <1>4 DEF Units, columns

(* A sum is a number, and splits into one summand and the rest.              *)
LEMMA SumsSplit ==
  ASSUME NEW S, IsFiniteSet(S), NEW f \in [S -> Nat], NEW x \in S
  PROVE  /\ IsFiniteSet(Units(f, S \ {x})) /\ Cardinality(Units(f, S \ {x})) \in Nat
         /\ Limits!Total(f) \in Nat
         /\ Limits!Total(f) = Cardinality(Units(f, S \ {x})) + f[x]
<1>1. IsFiniteSet(Units(f, S)) /\ f[x] \in Nat
  BY UnitsAreFinite
<1>2. PICK rest : rest = Units(f, S \ {x})
  OBVIOUS
<1>3. PICK own : own = Column(f, x)
  OBVIOUS
<1>4. Units(f, S) = rest \union own
  BY <1>2, <1>3 DEF Units
<1>5. rest \intersect own = {}
  BY <1>2, <1>3 DEF Units, Column
<1>6. IsFiniteSet(rest)
  <2>1. rest \in SUBSET Units(f, S)
    BY <1>4
  <2> QED BY <1>1, <2>1, FS_Subset
<1>7. IsFiniteSet(own) /\ Cardinality(own) = f[x]
  BY <1>1, <1>3, ColumnsAreFinite
<1>8. Cardinality(rest \union own) = Cardinality(rest) + Cardinality(own) - Cardinality(rest \intersect own)
  BY <1>6, <1>7, FS_Union
<1>9. Cardinality(rest) \in Nat /\ Cardinality(rest \intersect own) = 0
  BY <1>5, <1>6, FS_CardinalityType, FS_EmptySet
<1>0. Limits!Total(f) = Cardinality(rest \union own)
  BY <1>4, SumsCountUnits
<1>10. Limits!Total(f) = Cardinality(rest) + f[x]
  <2>1. \A a, b, c, d \in Int : d = a + b - c /\ c = 0 => d = a + b
    OBVIOUS
  <2> QED BY <1>0, <1>1, <1>7, <1>8, <1>9, <2>1
<1> QED BY <1>1, <1>2, <1>6, <1>9, <1>10

(* A sum changes by as much as the one summand that does.                    *)
LEMMA SumsMove ==
  ASSUME NEW S, IsFiniteSet(S), NEW f \in [S -> Nat], NEW g \in [S -> Nat], NEW x \in S,
         \A y \in S \ {x} : g[y] = f[y]
  PROVE  /\ Limits!Total(f) \in Nat /\ Limits!Total(g) \in Nat
         /\ Limits!Total(g) + f[x] = Limits!Total(f) + g[x]
<1>1. Units(g, S \ {x}) = Units(f, S \ {x})
  BY DEF Units, Column
<1>2. PICK n : n = Cardinality(Units(f, S \ {x}))
  OBVIOUS
<1>3. n \in Nat /\ Limits!Total(f) = n + f[x] /\ Limits!Total(f) \in Nat
  BY <1>2, SumsSplit
<1>4. Limits!Total(g) = n + g[x] /\ Limits!Total(g) \in Nat
  BY <1>1, <1>2, SumsSplit
<1>5. f[x] \in Nat /\ g[x] \in Nat
  OBVIOUS
<1> QED BY <1>3, <1>4, <1>5

LEMMA SumsAreNumbers ==
  ASSUME NEW S, IsFiniteSet(S), NEW f \in [S -> Nat]
  PROVE  Limits!Total(f) \in Nat
BY UnitsAreFinite, SumsCountUnits, FS_CardinalityType

(* A sum of nothing, and of at most n each.                                  *)
LEMMA SumsOfNothing ==
  ASSUME NEW S, NEW f \in [S -> Nat], \A x \in S : f[x] = 0
  PROVE  Limits!Total(f) = 0
<1>1. Units(f, S) = {}
  BY DEF Units, Column
<1> QED BY <1>1, SumsCountUnits, FS_EmptySet

LEMMA SumsAreBounded ==
  ASSUME NEW S, IsFiniteSet(S), NEW n \in Nat, NEW f \in [S -> Nat], \A x \in S : f[x] <= n
  PROVE  Limits!Total(f) <= Cardinality(S) * n
<1>1. IsFiniteSet(1 .. n) /\ Cardinality(1 .. n) = n
  BY FS_Interval
<1>2. IsFiniteSet(S \X (1 .. n)) /\ Cardinality(S \X (1 .. n)) = Cardinality(S) * n
  BY <1>1, FS_Product
<1>3. Units(f, S) \in SUBSET (S \X (1 .. n))
  <2>1. ASSUME NEW x \in S, NEW u \in Column(f, x) PROVE u \in S \X (1 .. n)
    <3>1. f[x] \in Nat /\ f[x] <= n
      OBVIOUS
    <3>2. u[1] = x /\ u[2] \in 1 .. f[x] /\ u = <<u[1], u[2]>>
      BY <2>1 DEF Column
    <3> QED BY <3>1, <3>2
  <2> QED BY <2>1 DEF Units
<1>4. Cardinality(Units(f, S)) <= Cardinality(S) * n
  BY <1>2, <1>3, FS_Subset
<1> QED BY <1>4, SumsCountUnits

-----------------------------------------------------------------------------
(* Limits                                                                    *)

scenario == v1
active == v2
usedKeys == v3
counters == v4
requests == v5
submitted == v6
unspent == v7
minute == v8
losses == v9
admitted == v10
unwritten == v11

USE LimitAssumption DEF scenario, active, usedKeys, counters, requests, submitted, unspent, minute, losses, admitted, unwritten

LEMMA Division ==
  ASSUME NEW m \in Nat, NEW b \in Nat \ {0}
  PROVE  /\ m % b \in 0 .. (b - 1) /\ m % b <= m /\ m \div b \in Nat
         /\ m = b * (m \div b) + (m % b)
<1>1. m % b \in 0 .. (b - 1) /\ m % b <= m
  OBVIOUS
<1>2. m \div b \in Nat
  OBVIOUS
<1>3. m = b * (m \div b) + (m % b)
  BY Z3
<1> QED BY <1>1, <1>2, <1>3

LEMMA WindowsBegin ==
  ASSUME NEW k, NEW m \in Nat
  PROVE  Limits!Start(k, m) \in Nat /\ Limits!Start(k, m) <= m
<1>1. PICK b \in Nat \ {0} : b = Period
  OBVIOUS
<1>2. m % b \in 0 .. (b - 1) /\ m % b <= m
  BY Division
<1> QED BY <1>1, <1>2 DEF Limits!Start

(* A later minute is in no earlier window.                                   *)
LEMMA MultiplesGoOn ==
  ASSUME NEW b \in Nat \ {0}, NEW p \in Nat, NEW q \in Nat, NEW i \in 0 .. (b - 1), NEW j \in 0 .. (b - 1),
         b * p + i <= b * q + j
  PROVE  b * p \in Nat /\ b * q \in Nat /\ b * p <= b * q
<1>1. b * p \in Nat /\ b * q \in Nat
  OBVIOUS
<1>2. PICK v \in Nat : v = b * p
  BY <1>1
<1>3. PICK w \in Nat : w = b * q
  BY <1>1
<1>4. v + i <= w + j
  BY <1>2, <1>3
<1>5. CASE p > q
  <2>1. PICK d \in Nat : p = q + 1 + d
    <3>1. p - q - 1 \in Nat /\ p = q + 1 + (p - q - 1)
      BY <1>5
    <3> QED BY <3>1
  <2>2. b * p = b * q + b + b * d
    BY <2>1
  <2>3. PICK u \in Nat : u = b * d
    OBVIOUS
  <2>4. v = w + b + u
    BY <1>2, <1>3, <2>2, <2>3
  <2> QED BY <1>4, <2>3, <2>4
<1>6. CASE p <= q
  <2>1. PICK d \in Nat : q = p + d
    <3>1. q - p \in Nat /\ q = p + (q - p)
      BY <1>6
    <3> QED BY <3>1
  <2>2. b * q = b * p + b * d
    BY <2>1
  <2>3. PICK u \in Nat : u = b * d
    OBVIOUS
  <2> QED BY <1>1, <1>2, <1>3, <2>2, <2>3
<1> QED BY <1>5, <1>6

LEMMA WindowsGoOn ==
  ASSUME NEW k, NEW m \in Nat, NEW n \in Nat, m <= n
  PROVE  Limits!Start(k, m) <= Limits!Start(k, n)
<1>1. CASE k = "submissions"
  BY <1>1 DEF Limits!Start
<1>2. CASE k # "submissions"
  <2>1. PICK b \in Nat \ {0} : b = Period
    OBVIOUS
  <2>2. /\ m % b \in 0 .. (b - 1) /\ m \div b \in Nat /\ m = b * (m \div b) + (m % b)
        /\ n % b \in 0 .. (b - 1) /\ n \div b \in Nat /\ n = b * (n \div b) + (n % b)
    BY Division
  <2>3. PICK p \in Nat : p = m \div b
    BY <2>2
  <2>4. PICK q \in Nat : q = n \div b
    BY <2>2
  <2>5. PICK i \in 0 .. (b - 1) : i = m % b
    BY <2>2
  <2>6. PICK j \in 0 .. (b - 1) : j = n % b
    BY <2>2
  <2>7. m = b * p + i /\ n = b * q + j
    BY <2>2, <2>3, <2>4, <2>5, <2>6
  <2>8. b * p \in Nat /\ b * q \in Nat /\ b * p <= b * q
    BY <2>7, MultiplesGoOn
  <2>9. PICK v \in Nat : v = b * p
    BY <2>8
  <2>10. PICK w \in Nat : w = b * q
    BY <2>8
  <2>11. m - i = v /\ n - j = w
    BY <2>7, <2>9, <2>10
  <2>12. Limits!Start(k, m) = v /\ Limits!Start(k, n) = w
    BY <1>2, <2>1, <2>5, <2>6, <2>11 DEF Limits!Start
  <2> QED BY <2>8, <2>9, <2>10, <2>12
<1> QED BY <1>1, <1>2

(* Which check comes next: no limit that is configured is passed over.       *)
LEMMA OrderIs ==
  /\ Limits!Order[1] = "submissions" /\ Limits!Order[2] = "runs_per_period" /\ Limits!Order[3] = "tokens"
  /\ Limits!Order[4] = "concurrent" /\ Limits!Order[5] = "body"
BY DEF Limits!Order

LEMMA ChecksFollow ==
  ASSUME NEW i \in 1 .. 5
  PROVE  \E j \in i .. 5 : /\ Limits!From(i) = Limits!Order[j]
                           /\ \A l \in i .. 5 : Limits!Order[l] \in scenario.policy \union {"body"} => j <= l
<1>1. PICK J : J = {j \in i .. 5 : Limits!Order[j] \in scenario.policy \union {"body"}}
  OBVIOUS
<1>2. 5 \in J /\ J \subseteq 1 .. 5
  BY <1>1, OrderIs
<1>3. \E x \in J : \A y \in J : x <= y
  <2>1. CASE 1 \in J
    BY <1>2, <2>1
  <2>2. CASE 1 \notin J /\ 2 \in J
    BY <1>2, <2>2
  <2>3. CASE 1 \notin J /\ 2 \notin J /\ 3 \in J
    BY <1>2, <2>3
  <2>4. CASE 1 \notin J /\ 2 \notin J /\ 3 \notin J /\ 4 \in J
    BY <1>2, <2>4
  <2>5. CASE 1 \notin J /\ 2 \notin J /\ 3 \notin J /\ 4 \notin J
    BY <1>2, <2>5
  <2> QED BY <2>1, <2>2, <2>3, <2>4, <2>5
<1>4. Limits!Min(J) \in J /\ \A y \in J : Limits!Min(J) <= y
  BY <1>3 DEF Limits!Min
<1>5. Limits!From(i) = Limits!Order[Limits!Min(J)]
  BY <1>1 DEF Limits!From
<1> QED BY <1>1, <1>4, <1>5

LEMMA ChecksBegin ==
  /\ Limits!From(1) \in {"submissions", "runs_per_period", "tokens", "concurrent", "body"}
  /\ "submissions" \in scenario.policy => Limits!From(1) = "submissions"
  /\ "runs_per_period" \in scenario.policy => Limits!From(1) \in {"submissions", "runs_per_period"}
  /\ "concurrent" \in scenario.policy => Limits!From(1) # "body"
<1>1. PICK j \in 1 .. 5 : /\ Limits!From(1) = Limits!Order[j]
                         /\ \A l \in 1 .. 5 : Limits!Order[l] \in scenario.policy \union {"body"} => j <= l
  BY ChecksFollow
<1>2. j \in {1, 2, 3, 4, 5}
  OBVIOUS
<1> QED BY <1>1, <1>2, OrderIs

LEMMA ChecksGoOn ==
  ASSUME NEW k \in Limits!Window
  PROVE  /\ Limits!After(k) \in {"runs_per_period", "tokens", "concurrent", "body"}
         /\ k = "submissions" /\ "runs_per_period" \in scenario.policy => Limits!After(k) = "runs_per_period"
         /\ k # "submissions" => Limits!After(k) # "runs_per_period"
         /\ "concurrent" \in scenario.policy => Limits!After(k) # "body"
<1>1. PICK i \in 1 .. 3 : Limits!Order[i] = k /\ \A n \in 1 .. 5 : Limits!Order[n] = k => n = i
  <2>1. k \in {"submissions", "runs_per_period", "tokens"}
    BY DEF Limits!Window
  <2>2. \A n \in 1 .. 5 : n \in {1, 2, 3, 4, 5}
    OBVIOUS
  <2> QED BY <2>1, <2>2, OrderIs
<1>2. (CHOOSE n \in 1 .. 5 : Limits!Order[n] = k) = i
  BY <1>1
<1>3. Limits!After(k) = Limits!From(1 + i)
  BY <1>2 DEF Limits!After
<1>4. i + 1 \in 1 .. 5
  OBVIOUS
<1>5. PICK j \in (i + 1) .. 5 :
        /\ Limits!From(i + 1) = Limits!Order[j]
        /\ \A l \in (i + 1) .. 5 : Limits!Order[l] \in scenario.policy \union {"body"} => j <= l
  BY <1>4, ChecksFollow
<1>6. j \in {2, 3, 4, 5} /\ i \in {1, 2, 3} /\ i + 1 = 1 + i
  OBVIOUS
<1> QED BY <1>1, <1>3, <1>5, <1>6, OrderIs

-----------------------------------------------------------------------------
LEMMA SizesAgree == ASSUME NEW S PROVE Limits!Cardinality(S) = Cardinality(S)
BY DEF Limits!Cardinality, Cardinality

LEMMA AtOnceIs ==
  /\ Limits!AtOnce = Cardinality(Handler) * Reruns /\ Limits!AtOnce \in Nat \ {0}
  /\ Cardinality(Handler) \in Nat \ {0}
<1>1. Cardinality(Handler) \in Nat \ {0}
  BY FS_CardinalityType, FS_EmptySet
<1>2. PICK n \in Nat \ {0} : n = Cardinality(Handler)
  BY <1>1
<1>3. PICK c \in Nat \ {0} : c = Reruns
  OBVIOUS
<1>4. n * c \in Nat \ {0}
  OBVIOUS
<1> QED BY <1>2, <1>3, <1>4, SizesAgree DEF Limits!AtOnce

(* What a request owes, may count, and may submit, is a number of at most    *)
(* the runs it is about.                                                     *)
LEMMA ShareOfOne ==
  ASSUME NEW r \in Limits!Admission \union {Limits!Resting}, r # Limits!Resting => Limits!OnCourse(r), minute \in Nat
  PROVE  /\ \A t, s : \A k \in Limits!Counters : Limits!Owes(r, t, k, s) \in Nat
         /\ \A t : \A k \in Limits!Counters, s \in Nat : Limits!Comes(r, t, k, s) \in Nat /\ Limits!Comes(r, t, k, s) <= Reruns
         /\ \A t : Limits!Enters(r, t) \in Nat /\ Limits!Enters(r, t) <= Reruns
         /\ \A T, steps : Limits!Queues(r, T, steps) \in {0, 1}
<1>1. CASE r = Limits!Resting
  BY <1>1 DEF Limits!Owes, Limits!Comes, Limits!Enters, Limits!Queues
<1>2. CASE r \in Limits!Admission /\ r # Limits!Resting
  <2>1. /\ r.n \in Nat /\ r.submissions \in Nat /\ r.runs_per_period \in Nat /\ r.n <= Reruns /\ r.at \in Nat
        /\ r.n + r.runs_per_period <= Reruns
    BY <1>2 DEF Limits!Admission, Limits!OnCourse
  <2>2. r.submissions <= r.runs_per_period
    BY <1>2, <2>1 DEF Limits!OnCourse
  <2>3. ASSUME NEW k \in Limits!Counters PROVE r[k] \in Nat /\ r.n + r[k] \in Nat /\ r.n + r[k] <= Reruns
    BY <2>1, <2>2, <2>3 DEF Limits!Counters
  <2>4. \A t, s : \A k \in Limits!Counters : Limits!Owes(r, t, k, s) \in Nat
    BY <2>3 DEF Limits!Owes
  <2>5. \A t : \A k \in Limits!Counters, s \in Nat : Limits!Comes(r, t, k, s) \in Nat /\ Limits!Comes(r, t, k, s) <= Reruns
    BY <2>3 DEF Limits!Comes
  <2>6. \A t : Limits!Enters(r, t) \in Nat /\ Limits!Enters(r, t) <= Reruns
    BY <2>1 DEF Limits!Enters
  <2>7. \A T, steps : Limits!Queues(r, T, steps) \in {0, 1}
    BY DEF Limits!Queues
  <2> QED BY <2>4, <2>5, <2>6, <2>7
<1> QED BY <1>1, <1>2

Shares(r) ==
  /\ \A t, s : \A k \in Limits!Counters : Limits!Owes(r, t, k, s) \in Nat
  /\ \A t : \A k \in Limits!Counters, s \in Nat : Limits!Comes(r, t, k, s) \in Nat
  /\ \A t : Limits!Enters(r, t) \in Nat
  /\ \A T, steps : Limits!Queues(r, T, steps) \in Nat

(* What is owed, may yet be counted, started and queued when one request goes
   from q to r.                                                              *)
OweMoves(q, r) ==
  \A t, s : \A k \in Limits!Counters :
    /\ Limits!UnderWay(t, k, s) \in Nat /\ Limits!UnderWay(t, k, s)' \in Nat
    /\ Limits!UnderWay(t, k, s)' + Limits!Owes(q, t, k, s) = Limits!UnderWay(t, k, s) + Limits!Owes(r, t, k, s)

ComeMoves(q, r) ==
  \A t : \A k \in Limits!Counters, s \in Nat :
    /\ Limits!Coming(t, k, s) \in Nat /\ Limits!Coming(t, k, s)' \in Nat
    /\ Limits!Coming(t, k, s)' + Limits!Comes(q, t, k, s) = Limits!Coming(t, k, s) + Limits!Comes(r, t, k, s)

EnterMoves(q, r) ==
  \A t : /\ Limits!Entering(t) \in Nat /\ Limits!Entering(t)' \in Nat
         /\ Limits!Entering(t)' + Limits!Enters(q, t) = Limits!Entering(t) + Limits!Enters(r, t)

QueueMoves(q, r) ==
  \A T, steps :
    /\ Limits!Queueing(T, steps) \in Nat /\ Limits!Queueing(T, steps)' \in Nat
    /\ Limits!Queueing(T, steps)' + Limits!Queues(q, T, steps) = Limits!Queueing(T, steps) + Limits!Queues(r, T, steps)

(* A sum over requests changes by what the share of the one that moves does. *)
LEMMA OneRequestMoves ==
  ASSUME \A i \in Handler : Shares(requests[i]), NEW h \in Handler, NEW r, Shares(r),
         requests' = [requests EXCEPT ![h] = r], requests \in [Handler -> Limits!Admission \union {Limits!Resting}],
         v1' = v1
  PROVE  /\ OweMoves(requests[h], r) /\ ComeMoves(requests[h], r)
         /\ EnterMoves(requests[h], r) /\ QueueMoves(requests[h], r)
<1>0. \A i \in Handler : requests'[i] = IF i = h THEN r ELSE requests[i]
  OBVIOUS
<1>1. ASSUME NEW t, NEW k \in Limits!Counters, NEW s
      PROVE  /\ Limits!UnderWay(t, k, s) \in Nat /\ Limits!UnderWay(t, k, s)' \in Nat
             /\ Limits!UnderWay(t, k, s)' + Limits!Owes(requests[h], t, k, s)
                  = Limits!UnderWay(t, k, s) + Limits!Owes(r, t, k, s)
  <2>1. PICK f : f = [i \in Handler |-> Limits!Owes(requests[i], t, k, s)]
    OBVIOUS
  <2>2. PICK g : g = [i \in Handler |-> Limits!Owes(requests'[i], t, k, s)]
    OBVIOUS
  <2>3. f \in [Handler -> Nat] /\ g \in [Handler -> Nat]
    <3>1. ASSUME NEW i \in Handler PROVE Limits!Owes(requests[i], t, k, s) \in Nat /\ Limits!Owes(r, t, k, s) \in Nat
      BY DEF Shares
    <3>2. ASSUME NEW i \in Handler PROVE Limits!Owes(requests'[i], t, k, s) \in Nat
      BY <1>0, <3>1
    <3> QED BY <2>1, <2>2, <3>1, <3>2
  <2>4. (\A i \in Handler \ {h} : g[i] = f[i]) /\ f[h] = Limits!Owes(requests[h], t, k, s) /\ g[h] = Limits!Owes(r, t, k, s)
    BY <1>0, <2>1, <2>2
  <2>5. Limits!UnderWay(t, k, s) = Limits!Total(f) /\ Limits!UnderWay(t, k, s)' = Limits!Total(g)
    BY <2>1, <2>2 DEF Limits!UnderWay, Limits!Owes, Limits!Resting, Limits!Start, Limits!Total
  <2> QED BY <2>3, <2>4, <2>5, SumsMove
<1>2. ASSUME NEW t, NEW k \in Limits!Counters, NEW s \in Nat
      PROVE  /\ Limits!Coming(t, k, s) \in Nat /\ Limits!Coming(t, k, s)' \in Nat
             /\ Limits!Coming(t, k, s)' + Limits!Comes(requests[h], t, k, s)
                  = Limits!Coming(t, k, s) + Limits!Comes(r, t, k, s)
  <2>1. PICK f : f = [i \in Handler |-> Limits!Comes(requests[i], t, k, s)]
    OBVIOUS
  <2>2. PICK g : g = [i \in Handler |-> Limits!Comes(requests'[i], t, k, s)]
    OBVIOUS
  <2>3. f \in [Handler -> Nat] /\ g \in [Handler -> Nat]
    <3>1. ASSUME NEW i \in Handler PROVE Limits!Comes(requests[i], t, k, s) \in Nat /\ Limits!Comes(r, t, k, s) \in Nat
      BY DEF Shares
    <3>2. ASSUME NEW i \in Handler PROVE Limits!Comes(requests'[i], t, k, s) \in Nat
      BY <1>0, <3>1
    <3> QED BY <2>1, <2>2, <3>1, <3>2
  <2>4. (\A i \in Handler \ {h} : g[i] = f[i]) /\ f[h] = Limits!Comes(requests[h], t, k, s) /\ g[h] = Limits!Comes(r, t, k, s)
    BY <1>0, <2>1, <2>2
  <2>5. Limits!Coming(t, k, s) = Limits!Total(f) /\ Limits!Coming(t, k, s)' = Limits!Total(g)
    BY <2>1, <2>2 DEF Limits!Coming, Limits!Comes, Limits!Resting, Limits!Start, Limits!Total, Limits!Past, Limits!Limit
  <2> QED BY <2>3, <2>4, <2>5, SumsMove
<1>3. ASSUME NEW t
      PROVE  /\ Limits!Entering(t) \in Nat /\ Limits!Entering(t)' \in Nat
             /\ Limits!Entering(t)' + Limits!Enters(requests[h], t) = Limits!Entering(t) + Limits!Enters(r, t)
  <2>1. PICK f : f = [i \in Handler |-> Limits!Enters(requests[i], t)]
    OBVIOUS
  <2>2. PICK g : g = [i \in Handler |-> Limits!Enters(requests'[i], t)]
    OBVIOUS
  <2>3. f \in [Handler -> Nat] /\ g \in [Handler -> Nat]
    <3>1. ASSUME NEW i \in Handler PROVE Limits!Enters(requests[i], t) \in Nat /\ Limits!Enters(r, t) \in Nat
      BY DEF Shares
    <3>2. ASSUME NEW i \in Handler PROVE Limits!Enters(requests'[i], t) \in Nat
      BY <1>0, <3>1
    <3> QED BY <2>1, <2>2, <3>1, <3>2
  <2>4. (\A i \in Handler \ {h} : g[i] = f[i]) /\ f[h] = Limits!Enters(requests[h], t) /\ g[h] = Limits!Enters(r, t)
    BY <1>0, <2>1, <2>2
  <2>5. Limits!Entering(t) = Limits!Total(f) /\ Limits!Entering(t)' = Limits!Total(g)
    BY <2>1, <2>2 DEF Limits!Entering, Limits!Enters, Limits!Resting, Limits!Total
  <2> QED BY <2>3, <2>4, <2>5, SumsMove
<1>4. ASSUME NEW T, NEW steps
      PROVE  /\ Limits!Queueing(T, steps) \in Nat /\ Limits!Queueing(T, steps)' \in Nat
             /\ Limits!Queueing(T, steps)' + Limits!Queues(requests[h], T, steps)
                  = Limits!Queueing(T, steps) + Limits!Queues(r, T, steps)
  <2>1. PICK f : f = [i \in Handler |-> Limits!Queues(requests[i], T, steps)]
    OBVIOUS
  <2>2. PICK g : g = [i \in Handler |-> Limits!Queues(requests'[i], T, steps)]
    OBVIOUS
  <2>3. f \in [Handler -> Nat] /\ g \in [Handler -> Nat]
    <3>1. ASSUME NEW i \in Handler PROVE Limits!Queues(requests[i], T, steps) \in Nat /\ Limits!Queues(r, T, steps) \in Nat
      BY DEF Shares
    <3>2. ASSUME NEW i \in Handler PROVE Limits!Queues(requests'[i], T, steps) \in Nat
      BY <1>0, <3>1
    <3> QED BY <2>1, <2>2, <3>1, <3>2
  <2>4. (\A i \in Handler \ {h} : g[i] = f[i]) /\ f[h] = Limits!Queues(requests[h], T, steps) /\ g[h] = Limits!Queues(r, T, steps)
    BY <1>0, <2>1, <2>2
  <2>5. Limits!Queueing(T, steps) = Limits!Total(f) /\ Limits!Queueing(T, steps)' = Limits!Total(g)
    BY <2>1, <2>2 DEF Limits!Queueing, Limits!Queues, Limits!Resting, Limits!Total
  <2> QED BY <2>3, <2>4, <2>5, SumsMove
<1> QED BY <1>1, <1>2, <1>3, <1>4 DEF OweMoves, ComeMoves, EnterMoves, QueueMoves

(* All requests together have a share of at most what is submitted at once.  *)
LEMMA SharesOfAll ==
  ASSUME NEW q \in [Handler -> Limits!Admission \union {Limits!Resting}], minute \in Nat,
         \A i \in Handler : q[i] # Limits!Resting => Limits!OnCourse(q[i])
  PROVE  /\ \A t : \A k \in Limits!Counters, s \in Nat :
              /\ [i \in Handler |-> Limits!Comes(q[i], t, k, s)] \in [Handler -> Nat]
              /\ Limits!Total([i \in Handler |-> Limits!Comes(q[i], t, k, s)]) <= Limits!AtOnce
         /\ \A t : /\ [i \in Handler |-> Limits!Enters(q[i], t)] \in [Handler -> Nat]
                   /\ Limits!Total([i \in Handler |-> Limits!Enters(q[i], t)]) <= Limits!AtOnce
         /\ \A T, steps :
              /\ [i \in Handler |-> Limits!Queues(q[i], T, steps)] \in [Handler -> Nat]
              /\ Limits!Total([i \in Handler |-> Limits!Queues(q[i], T, steps)]) <= Cardinality(Handler)
<1>1. ASSUME NEW t, NEW k \in Limits!Counters, NEW s \in Nat
      PROVE  /\ [i \in Handler |-> Limits!Comes(q[i], t, k, s)] \in [Handler -> Nat]
             /\ Limits!Total([i \in Handler |-> Limits!Comes(q[i], t, k, s)]) <= Limits!AtOnce
  <2>1. PICK f : f = [i \in Handler |-> Limits!Comes(q[i], t, k, s)]
    OBVIOUS
  <2>2. ASSUME NEW i \in Handler PROVE Limits!Comes(q[i], t, k, s) \in Nat /\ Limits!Comes(q[i], t, k, s) <= Reruns
    BY ShareOfOne
  <2>3. f \in [Handler -> Nat] /\ \A i \in Handler : f[i] <= Reruns
    BY <2>1, <2>2
  <2>4. Limits!Total(f) <= Cardinality(Handler) * Reruns
    BY <2>3, SumsAreBounded
  <2> QED BY <2>1, <2>3, <2>4, AtOnceIs
<1>2. ASSUME NEW t
      PROVE  /\ [i \in Handler |-> Limits!Enters(q[i], t)] \in [Handler -> Nat]
             /\ Limits!Total([i \in Handler |-> Limits!Enters(q[i], t)]) <= Limits!AtOnce
  <2>1. PICK f : f = [i \in Handler |-> Limits!Enters(q[i], t)]
    OBVIOUS
  <2>2. ASSUME NEW i \in Handler PROVE Limits!Enters(q[i], t) \in Nat /\ Limits!Enters(q[i], t) <= Reruns
    BY ShareOfOne
  <2>3. f \in [Handler -> Nat] /\ \A i \in Handler : f[i] <= Reruns
    BY <2>1, <2>2
  <2>4. Limits!Total(f) <= Cardinality(Handler) * Reruns
    BY <2>3, SumsAreBounded
  <2> QED BY <2>1, <2>3, <2>4, AtOnceIs
<1>3. ASSUME NEW T, NEW steps
      PROVE  /\ [i \in Handler |-> Limits!Queues(q[i], T, steps)] \in [Handler -> Nat]
             /\ Limits!Total([i \in Handler |-> Limits!Queues(q[i], T, steps)]) <= Cardinality(Handler)
  <2>1. PICK f : f = [i \in Handler |-> Limits!Queues(q[i], T, steps)]
    OBVIOUS
  <2>2. ASSUME NEW i \in Handler PROVE Limits!Queues(q[i], T, steps) \in {0, 1}
    BY ShareOfOne
  <2>3. f \in [Handler -> Nat] /\ \A i \in Handler : f[i] <= 1
    BY <2>1, <2>2
  <2>4. Limits!Total(f) <= Cardinality(Handler) * 1
    BY <2>3, SumsAreBounded
  <2> QED BY <2>1, <2>3, <2>4, AtOnceIs
<1> QED BY <1>1, <1>2, <1>3

(* Where one request becomes another what it owes stays, and it comes to     *)
(* count or submit more only where there is room.                            *)
Room(q, r) ==
  /\ \A t \in Limited, k \in Limits!Counters, s \in 0 .. MaxMinutes : Limits!Owes(r, t, k, s) = Limits!Owes(q, t, k, s)
  /\ \A t \in Limited, k \in Limits!InForce, s \in 0 .. MaxMinutes :
       Limits!Comes(r, t, k, s) <= Limits!Comes(q, t, k, s) \/ counters[t][k][s] < Limits!Limit(k)
  /\ \A t \in Limited :
       /\ \/ Limits!Enters(r, t) <= Limits!Enters(q, t)
          \/ "concurrent" \notin scenario.policy \/ active[t]["extraction"] < ConcurrencyLimit
       /\ \/ Limits!Queues(r, {t}, {"submit"}) <= Limits!Queues(q, {t}, {"submit"})
          \/ active[t]["ocr"] < OcrLimit
  /\ \/ Limits!Queues(r, Limited, {"mine", "submit"}) <= Limits!Queues(q, Limited, {"mine", "submit"})
     \/ Limits!Backlog < OcrTotal

(* A step that moves one request only.                                       *)
LEMMA OnlyRequestsMove ==
  ASSUME Limits!LimitInv, NEW h \in Handler, NEW r \in Limits!Admission \union {Limits!Resting},
         r # Limits!Resting => Limits!OnCourse(r), requests' = [requests EXCEPT ![h] = r],
         v1' = v1, v2' = v2, v3' = v3, v4' = v4, v6' = v6, v7' = v7, v8' = v8, v9' = v9, v10' = v10, v11' = v11,
         Room(requests[h], r)
  PROVE  Limits!LimitInv'
<1> USE DEF Limits!LimitInv, Room
<1>1. requests \in [Handler -> Limits!Admission \union {Limits!Resting}] /\ minute \in Nat
  BY DEF Limits!TypeOK
<1>2. requests' \in [Handler -> Limits!Admission \union {Limits!Resting}]
      /\ \A i \in Handler : requests'[i] # Limits!Resting => Limits!OnCourse(requests'[i])
  BY <1>1 DEF Limits!RequestsAreOnCourse
<1>3. (\A i \in Handler : Shares(requests[i])) /\ Shares(r)
  <2>1. \A i \in Handler : requests[i] \in Limits!Admission \union {Limits!Resting} /\ (requests[i] # Limits!Resting => Limits!OnCourse(requests[i]))
    BY <1>1 DEF Limits!RequestsAreOnCourse
  <2>2. \A i \in Handler : Shares(requests[i])
    BY <1>1, <2>1, ShareOfOne DEF Shares
  <2> QED BY <1>1, <2>2, ShareOfOne DEF Shares
<1>10. /\ OweMoves(requests[h], r) /\ ComeMoves(requests[h], r)
       /\ EnterMoves(requests[h], r) /\ QueueMoves(requests[h], r)
  <2> HIDE DEF Limits!LimitInv, Room
  <2> QED BY <1>1, <1>3, OneRequestMoves
<1>11. PICK q : q = requests'
  OBVIOUS
<1>12. /\ \A t : \A k \in Limits!Counters, s \in Nat :
            /\ [i \in Handler |-> Limits!Comes(q[i], t, k, s)] \in [Handler -> Nat]
            /\ Limits!Total([i \in Handler |-> Limits!Comes(q[i], t, k, s)]) <= Limits!AtOnce
       /\ \A t : /\ [i \in Handler |-> Limits!Enters(q[i], t)] \in [Handler -> Nat]
                 /\ Limits!Total([i \in Handler |-> Limits!Enters(q[i], t)]) <= Limits!AtOnce
       /\ \A T, steps :
            /\ [i \in Handler |-> Limits!Queues(q[i], T, steps)] \in [Handler -> Nat]
            /\ Limits!Total([i \in Handler |-> Limits!Queues(q[i], T, steps)]) <= Cardinality(Handler)
  <2>1. q \in [Handler -> Limits!Admission \union {Limits!Resting}] /\ \A i \in Handler : q[i] # Limits!Resting => Limits!OnCourse(q[i])
    BY <1>2, <1>11
  <2> HIDE DEF Limits!LimitInv, Room
  <2> QED BY <1>1, <2>1, SharesOfAll
<1>4. Limits!TypeOK'
  <2>1. Limits!Table' = Limits!Table /\ Limits!Admission' = Limits!Admission /\ Limits!Resting' = Limits!Resting
    BY DEF Limits!Table, Limits!Admission, Limits!Resting, Limits!Window, Limits!Kind
  <2> QED BY <1>2, <2>1 DEF Limits!TypeOK
<1>5. Limits!RequestsAreOnCourse'
  BY <1>2 DEF Limits!RequestsAreOnCourse, Limits!OnCourse, Limits!Resting, Limits!InForce, Limits!Limit, Limits!Past, Limits!Counters
<1>6. Limits!NothingIsEarly'
  BY DEF Limits!NothingIsEarly, Limits!Start, Limits!Counters
<1>7. Limits!CountsAreKept'
  <2>1. Limits!Live' = Limits!Live /\ Limits!InForce' = Limits!InForce /\ Limits!Live \subseteq 0 .. MaxMinutes
    BY DEF Limits!Live, Limits!InForce, Limits!Counters
  <2>2. ASSUME NEW t \in Limited, NEW k \in Limits!Counters, NEW s \in 0 .. MaxMinutes
        PROVE  Limits!UnderWay(t, k, s)' = Limits!UnderWay(t, k, s)
    <3>1. Limits!Owes(r, t, k, s) = Limits!Owes(requests[h], t, k, s) /\ Limits!Owes(r, t, k, s) \in Nat
      BY <1>3 DEF Shares
    <3>2. /\ Limits!UnderWay(t, k, s) \in Nat /\ Limits!UnderWay(t, k, s)' \in Nat
          /\ Limits!UnderWay(t, k, s)' + Limits!Owes(requests[h], t, k, s)
               = Limits!UnderWay(t, k, s) + Limits!Owes(r, t, k, s)
      BY <1>10 DEF OweMoves
    <3> QED BY <3>1, <3>2
  <2>3. WorkerCounts => Limits!TokensAreCounted'
    BY DEF Limits!CountsAreKept, Limits!RunsAreCounted, Limits!TokensAreCounted, Limits!Live, Limits!Total, Limits!Start
  <2> QED BY <2>1, <2>2, <2>3 DEF Limits!CountsAreKept, Limits!RunsAreCounted, Limits!InForce, Limits!Counters
<1>8. Limits!WindowsAreBounded'
  <2>1. SUFFICES ASSUME NEW t \in Limited, NEW k \in Limits!InForce, NEW s \in 0 .. MaxMinutes
                 PROVE  counters[t][k][s] + Limits!Coming(t, k, s)' < Limits!Limit(k) + Limits!AtOnce
    BY DEF Limits!WindowsAreBounded, Limits!InForce, Limits!Limit, Limits!AtOnce, Limits!Counters
  <2>2. /\ k \in Limits!Counters /\ s \in Nat /\ counters[t][k][s] \in Nat /\ Limits!Limit(k) \in Nat
        /\ counters[t][k][s] + Limits!Coming(t, k, s) < Limits!Limit(k) + Limits!AtOnce
    <3>1. k \in Limits!Counters /\ s \in Nat
      BY DEF Limits!InForce
    <3>2. Limits!Limit(k) \in Nat
      BY <3>1 DEF Limits!Limit, Limits!Counters
    <3>3. counters[t][k][s] \in Nat
      <4>1. k \in Limits!Window
        BY <3>1 DEF Limits!Window, Limits!Counters
      <4>2. counters \in [Limited -> [Limits!Window -> [0 .. MaxMinutes -> Nat]]]
        BY DEF Limits!TypeOK, Limits!Table
      <4> QED BY <4>1, <4>2
    <3> QED BY <3>1, <3>2, <3>3 DEF Limits!WindowsAreBounded
  <2>3. /\ Limits!Coming(t, k, s) \in Nat /\ Limits!Coming(t, k, s)' \in Nat
        /\ Limits!Coming(t, k, s)' + Limits!Comes(requests[h], t, k, s) = Limits!Coming(t, k, s) + Limits!Comes(r, t, k, s)
    BY <1>10, <2>2 DEF ComeMoves
  <2>4. Limits!Comes(requests[h], t, k, s) \in Nat /\ Limits!Comes(r, t, k, s) \in Nat
    BY <1>3, <2>2 DEF Shares
  <2>5. Limits!Coming(t, k, s)' <= Limits!AtOnce
    <3>1. PICK f : f = [i \in Handler |-> Limits!Comes(q[i], t, k, s)]
      OBVIOUS
    <3>2. Limits!Coming(t, k, s)' = Limits!Total(f)
      BY <1>11, <3>1 DEF Limits!Coming, Limits!Comes, Limits!Resting, Limits!Start, Limits!Total, Limits!Past, Limits!Limit
    <3> HIDE DEF Limits!LimitInv, Room
    <3>3. ASSUME NEW i \in Handler PROVE f[i] \in Nat /\ f[i] <= Reruns
      <4>1. q[i] \in Limits!Admission \union {Limits!Resting} /\ (q[i] # Limits!Resting => Limits!OnCourse(q[i]))
        BY <1>2, <1>11
      <4>2. Limits!Comes(q[i], t, k, s) \in Nat /\ Limits!Comes(q[i], t, k, s) <= Reruns
        BY <1>1, <2>2, <4>1, ShareOfOne
      <4> QED BY <3>1, <4>2
    <3>4. f \in [Handler -> Nat]
      BY <3>1, <3>3
    <3>5. Limits!Total(f) <= Cardinality(Handler) * Reruns
      BY <3>3, <3>4, SumsAreBounded
    <3> QED BY <3>2, <3>5, AtOnceIs
  <2> QED BY <2>2, <2>3, <2>4, <2>5, AtOnceIs
<1>9. Limits!QueuesAreBounded'
  <2>1. ASSUME NEW t \in Limited, "concurrent" \in scenario.policy
        PROVE  active[t]["extraction"] + Limits!Entering(t)' < ConcurrencyLimit + Limits!AtOnce
    <3>0. active[t]["extraction"] \in Nat
      BY DEF Limits!TypeOK, Limits!Kind
    <3>1. active[t]["extraction"] \in Nat /\ active[t]["extraction"] + Limits!Entering(t) < ConcurrencyLimit + Limits!AtOnce
      BY <2>1, <3>0 DEF Limits!QueuesAreBounded
    <3>2. /\ Limits!Entering(t) \in Nat /\ Limits!Entering(t)' \in Nat
          /\ Limits!Entering(t)' + Limits!Enters(requests[h], t) = Limits!Entering(t) + Limits!Enters(r, t)
      BY <1>10 DEF EnterMoves
    <3>3. Limits!Enters(requests[h], t) \in Nat /\ Limits!Enters(r, t) \in Nat
      BY <1>3 DEF Shares
    <3>4. Limits!Entering(t)' <= Limits!AtOnce
      <4>1. Limits!Entering(t)' = Limits!Total([i \in Handler |-> Limits!Enters(q[i], t)])
        BY <1>11 DEF Limits!Entering, Limits!Enters, Limits!Resting, Limits!Total
      <4> QED BY <1>12, <4>1
    <3>5. Limits!Enters(r, t) <= Limits!Enters(requests[h], t) \/ active[t]["extraction"] < ConcurrencyLimit
      BY <2>1
    <3> HIDE DEF Limits!LimitInv, Room
    <3> QED BY <3>1, <3>2, <3>3, <3>4, <3>5, AtOnceIs
  <2>2. ASSUME NEW T, NEW steps
        PROVE  /\ Limits!Queueing(T, steps) \in Nat /\ Limits!Queueing(T, steps)' \in Nat
               /\ Limits!Queueing(T, steps)' + Limits!Queues(requests[h], T, steps) = Limits!Queueing(T, steps) + Limits!Queues(r, T, steps)
               /\ Limits!Queues(requests[h], T, steps) \in Nat /\ Limits!Queues(r, T, steps) \in Nat
               /\ Limits!Queueing(T, steps)' <= Cardinality(Handler)
    <3>1. Limits!Queueing(T, steps)' = Limits!Total([i \in Handler |-> Limits!Queues(q[i], T, steps)])
      BY <1>11 DEF Limits!Queueing, Limits!Queues, Limits!Resting, Limits!Total
    <3>2. Limits!Queueing(T, steps)' <= Cardinality(Handler)
      BY <1>12, <3>1
    <3>3. Limits!Queues(requests[h], T, steps) \in Nat /\ Limits!Queues(r, T, steps) \in Nat
      BY <1>3 DEF Shares
    <3>4. /\ Limits!Queueing(T, steps) \in Nat /\ Limits!Queueing(T, steps)' \in Nat
          /\ Limits!Queueing(T, steps)' + Limits!Queues(requests[h], T, steps) = Limits!Queueing(T, steps) + Limits!Queues(r, T, steps)
      BY <1>10 DEF QueueMoves
    <3> QED BY <3>2, <3>3, <3>4
  <2>3. ASSUME NEW t \in Limited
        PROVE  active[t]["ocr"] + Limits!Queueing({t}, {"submit"})' < OcrLimit + Cardinality(Handler)
    <3>1. active[t]["ocr"] \in Nat /\ active[t]["ocr"] + Limits!Queueing({t}, {"submit"}) < OcrLimit + Cardinality(Handler)
      BY SizesAgree DEF Limits!TypeOK, Limits!Kind, Limits!QueuesAreBounded
    <3>2. \/ Limits!Queues(r, {t}, {"submit"}) <= Limits!Queues(requests[h], {t}, {"submit"})
          \/ active[t]["ocr"] < OcrLimit
      OBVIOUS
    <3> QED BY <2>2, <3>1, <3>2, AtOnceIs
  <2>4. Limits!Backlog + Limits!Queueing(Limited, {"mine", "submit"})' < OcrTotal + Cardinality(Handler)
    <3>1. Limits!Backlog \in Nat
      <4>1. PICK f : f = [t \in Limited |-> active[t]["ocr"]]
        OBVIOUS
      <4>2. f \in [Limited -> Nat]
        BY <4>1 DEF Limits!TypeOK, Limits!Kind
      <4> QED BY <4>1, <4>2, SumsAreNumbers DEF Limits!Backlog
    <3>2. Limits!Backlog + Limits!Queueing(Limited, {"mine", "submit"}) < OcrTotal + Cardinality(Handler)
      BY SizesAgree DEF Limits!QueuesAreBounded
    <3> QED BY <2>2, <3>1, <3>2, AtOnceIs
  <2>5. Limits!Backlog' = Limits!Backlog
    BY DEF Limits!Backlog, Limits!Total
  <2> QED BY <2>1, <2>3, <2>4, <2>5, SizesAgree DEF Limits!QueuesAreBounded, Limits!AtOnce
<1> QED BY <1>4, <1>5, <1>6, <1>7, <1>8, <1>9

LEMMA RestingShares ==
  /\ \A t, s : \A k \in Limits!Counters : Limits!Owes(Limits!Resting, t, k, s) = 0
  /\ \A t, k, s : Limits!Comes(Limits!Resting, t, k, s) = 0
  /\ \A t : Limits!Enters(Limits!Resting, t) = 0
  /\ \A T, steps : Limits!Queues(Limits!Resting, T, steps) = 0
BY DEF Limits!Owes, Limits!Comes, Limits!Enters, Limits!Queues

LEMMA NoneOwedYet ==
  ASSUME NEW r \in Limits!Admission, Limits!OnCourse(r), r.kind = "ocr" \/ r.step \notin {"submit", "count"}
  PROVE  \A t, s : \A k \in Limits!Counters : Limits!Owes(r, t, k, s) = 0
<1>1. r.submissions = 0 /\ r.runs_per_period = 0
  BY DEF Limits!OnCourse
<1>2. \A k \in Limits!Counters : r[k] = 0
  BY <1>1 DEF Limits!Counters
<1> QED BY <1>2 DEF Limits!Owes

(* What is known of a request under way.                                     *)
LEMMA OneOnCourse ==
  ASSUME Limits!LimitInv, NEW h \in Handler, requests[h] # Limits!Resting
  PROVE  /\ requests[h] \in Limits!Admission /\ Limits!OnCourse(requests[h]) /\ minute \in Nat
         /\ scenario.policy \subseteq Limits!Window \union {"concurrent"}
BY DEF Limits!LimitInv, Limits!TypeOK, Limits!RequestsAreOnCourse

(* A request refused before it submitted leaves nothing behind.              *)
LEMMA RefusalsKeep ==
  ASSUME Limits!LimitInv, NEW h \in Handler, requests[h] # Limits!Resting,
         requests[h].kind = "ocr" \/ requests[h].step \notin {"submit", "count"}, Limits!Answer(h),
         v1' = v1, v2' = v2, v3' = v3, v4' = v4, v6' = v6, v7' = v7, v8' = v8, v9' = v9, v10' = v10, v11' = v11
  PROVE  Limits!LimitInv'
<1>1. PICK q : q = requests[h]
  OBVIOUS
<1>2. q \in Limits!Admission /\ Limits!OnCourse(q) /\ minute \in Nat
  BY <1>1, OneOnCourse
<1>3. PICK r : r = Limits!Resting
  OBVIOUS
<1>4. requests' = [requests EXCEPT ![h] = r] /\ r \in Limits!Admission \union {Limits!Resting}
      /\ (r # Limits!Resting => Limits!OnCourse(r))
  BY <1>3 DEF Limits!Answer, Limits!Become
<1>5. Shares(q)
  BY <1>2, ShareOfOne DEF Shares
<1>6. \A t, s : \A k \in Limits!Counters : Limits!Owes(r, t, k, s) = Limits!Owes(q, t, k, s)
  BY <1>1, <1>2, <1>3, RestingShares, NoneOwedYet
<1>7. \A t \in Limited, k \in Limits!InForce, s \in 0 .. MaxMinutes : Limits!Comes(r, t, k, s) <= Limits!Comes(q, t, k, s)
  BY <1>3, <1>5, RestingShares DEF Shares, Limits!InForce
<1>8. \A t : Limits!Enters(r, t) <= Limits!Enters(q, t)
  BY <1>3, <1>5, RestingShares DEF Shares
<1>9. \A T, steps : Limits!Queues(r, T, steps) <= Limits!Queues(q, T, steps)
  BY <1>3, <1>5, RestingShares DEF Shares
<1>10. Room(requests[h], r)
  BY <1>1, <1>6, <1>7, <1>8, <1>9 DEF Room
<1> QED BY <1>4, <1>10, OnlyRequestsMove

LEMMA AskKeeps ==
  ASSUME Limits!LimitInv, NEW h \in Handler, NEW t \in Limited, NEW key \in RequestKey \union {None}, Limits!Ask(h, t, key)
  PROVE  Limits!LimitInv'
<1>1. PICK n \in {1, Reruns} : requests[h] = Limits!Resting /\ Limits!Become(h, Limits!Request(t, "extraction", key, n, Limits!From(1)))
  BY DEF Limits!Ask
<1>2. minute \in Nat /\ scenario.policy \subseteq Limits!Window \union {"concurrent"}
  BY DEF Limits!LimitInv, Limits!TypeOK
<1>3. PICK r : r = Limits!Request(t, "extraction", key, n, Limits!From(1))
  OBVIOUS
<1>4. /\ r.step = Limits!From(1) /\ r.tenant = t /\ r.kind = "extraction" /\ r.at = minute /\ r.n = n
      /\ r.submissions = 0 /\ r.runs_per_period = 0
  BY <1>3 DEF Limits!Request
<1>5. r \in Limits!Admission
  BY <1>2, <1>3, ChecksBegin DEF Limits!Request, Limits!Admission, Limits!Window, Limits!Kind
<1>6. \A k \in Limits!InForce : r.step \notin Limits!Past(k)
  BY <1>4, ChecksBegin DEF Limits!InForce, Limits!Counters, Limits!Past
<1>7. r.step \in {"submissions", "runs_per_period", "tokens", "concurrent", "body"}
  BY <1>4, ChecksBegin
<1>8. Limits!OnCourse(r)
  BY <1>2, <1>4, <1>6, <1>7 DEF Limits!OnCourse
<1>9. \A k \in Limits!Counters : r[k] = 0
  BY <1>4 DEF Limits!Counters
<1>10. Room(Limits!Resting, r)
  <2>1. \A u, s : \A k \in Limits!Counters : Limits!Owes(r, u, k, s) = 0
    BY <1>9 DEF Limits!Owes
  <2>2. ASSUME NEW u \in Limited, NEW k \in Limits!InForce, NEW s \in 0 .. MaxMinutes
        PROVE  Limits!Comes(r, u, k, s) <= 0 \/ counters[u][k][s] < Limits!Limit(k)
    <3>1. CASE Limits!Start(k, minute) < s /\ Limits!Limit(k) > 0
      <4>1. Limits!Start(k, minute) \in Nat /\ k \in Limits!Counters
        BY <1>2, WindowsBegin DEF Limits!InForce
      <4>2. counters[u][k][s] = 0
        BY <3>1, <4>1 DEF Limits!LimitInv, Limits!NothingIsEarly
      <4> QED BY <3>1, <4>2
    <3>2. CASE ~(Limits!Start(k, minute) < s /\ Limits!Limit(k) > 0)
      <4>1. Limits!Comes(r, u, k, s) = 0
        BY <1>4, <1>6, <3>2 DEF Limits!Comes
      <4> QED BY <4>1
    <3> QED BY <3>1, <3>2
  <2>3. \A u : Limits!Enters(r, u) = 0 \/ "concurrent" \notin scenario.policy
    BY <1>4, <1>7, ChecksBegin DEF Limits!Enters
  <2>4. \A T, steps : Limits!Queues(r, T, steps) = 0
    BY <1>4 DEF Limits!Queues
  <2> QED BY <2>1, <2>2, <2>3, <2>4, RestingShares DEF Room
<1>11. /\ requests' = [requests EXCEPT ![h] = r] /\ r \in Limits!Admission \union {Limits!Resting}
       /\ v1' = v1 /\ v2' = v2 /\ v3' = v3 /\ v4' = v4 /\ v6' = v6 /\ v7' = v7 /\ v8' = v8 /\ v9' = v9 /\ v10' = v10 /\ v11' = v11
  BY <1>1, <1>3, <1>5 DEF Limits!Ask, Limits!Become
<1> QED BY <1>1, <1>8, <1>10, <1>11, OnlyRequestsMove

(* What the steps of a request leave alone.                                  *)
Elsewhere == /\ v1' = v1 /\ v2' = v2 /\ v3' = v3 /\ v4' = v4 /\ v6' = v6 /\ v7' = v7 /\ v8' = v8 /\ v9' = v9
             /\ v10' = v10 /\ v11' = v11

LEMMA AskOcrKeeps ==
  ASSUME Limits!LimitInv, NEW h \in Handler, NEW t \in Limited, NEW key \in RequestKey \union {None}, Limits!AskOcr(h, t, key)
  PROVE  Limits!LimitInv'
<1>1. requests[h] = Limits!Resting /\ Limits!Become(h, Limits!Request(t, "ocr", key, 1, "total"))
  BY DEF Limits!AskOcr
<1>2. minute \in Nat
  BY DEF Limits!LimitInv, Limits!TypeOK
<1>3. PICK r : r = Limits!Request(t, "ocr", key, 1, "total")
  OBVIOUS
<1>4. /\ r.step = "total" /\ r.tenant = t /\ r.kind = "ocr" /\ r.at = minute /\ r.n = 1
      /\ r.submissions = 0 /\ r.runs_per_period = 0
  BY <1>3 DEF Limits!Request
<1>5. r \in Limits!Admission
  BY <1>2, <1>3 DEF Limits!Request, Limits!Admission, Limits!Window, Limits!Kind
<1>6. Limits!OnCourse(r)
  BY <1>2, <1>4 DEF Limits!OnCourse
<1>7. Room(Limits!Resting, r)
  <2>1. \A u, s : \A k \in Limits!Counters : Limits!Owes(r, u, k, s) = 0
    BY <1>4, <1>5, <1>6, NoneOwedYet
  <2>2. \A u, k, s : Limits!Comes(r, u, k, s) = 0
    BY <1>4 DEF Limits!Comes
  <2>3. \A u : Limits!Enters(r, u) = 0
    BY <1>4 DEF Limits!Enters
  <2>4. \A T : Limits!Queues(r, T, {"submit"}) = 0 /\ Limits!Queues(r, T, {"mine", "submit"}) = 0
    BY <1>4 DEF Limits!Queues
  <2> QED BY <2>1, <2>2, <2>3, <2>4, RestingShares DEF Room
<1>8. requests' = [requests EXCEPT ![h] = r] /\ r \in Limits!Admission \union {Limits!Resting} /\ Elsewhere
  BY <1>1, <1>3, <1>5 DEF Limits!AskOcr, Limits!Become, Elsewhere
<1> QED BY <1>1, <1>6, <1>7, <1>8, OnlyRequestsMove DEF Elsewhere

LEMMA WindowCheckKeeps ==
  ASSUME Limits!LimitInv, NEW h \in Handler, NEW w \in Limits!Window, Limits!WindowCheck(h, w)
  PROVE  Limits!LimitInv'
<1>1. PICK q : q = requests[h]
  OBVIOUS
<1>2. q.step = w /\ Elsewhere /\ w \in {"submissions", "runs_per_period", "tokens"}
  BY <1>1 DEF Limits!WindowCheck, Elsewhere, Limits!Window
<1>3. q # Limits!Resting
  BY <1>2 DEF Limits!Resting
<1>4. q \in Limits!Admission /\ Limits!OnCourse(q) /\ minute \in Nat /\ scenario.policy \subseteq Limits!Window \union {"concurrent"}
  BY <1>1, <1>3, OneOnCourse
<1>5. q.kind = "extraction" /\ q.submissions = 0 /\ q.runs_per_period = 0 /\ q.n > 0
  BY <1>2, <1>4 DEF Limits!OnCourse, Limits!Admission, Limits!Kind
<1>6. CASE Limits!Answer(h)
  BY <1>1, <1>2, <1>3, <1>6, RefusalsKeep DEF Elsewhere
<1>7. CASE counters[q.tenant][w][Limits!Start(w, q.at)] < Limits!Limit(w) /\ Limits!Become(h, [q EXCEPT !.step = Limits!After(w)])
  <2>1. PICK next : next = Limits!After(w)
    OBVIOUS
  <2>2. /\ next \in {"runs_per_period", "tokens", "concurrent", "body"}
        /\ w = "submissions" /\ "runs_per_period" \in scenario.policy => next = "runs_per_period"
        /\ w # "submissions" => next # "runs_per_period"
        /\ "concurrent" \in scenario.policy => next # "body"
    BY <2>1, ChecksGoOn
  <2>3. PICK r : r = [q EXCEPT !.step = next]
    OBVIOUS
  <2>4. /\ r.step = next /\ r.tenant = q.tenant /\ r.kind = "extraction" /\ r.at = q.at /\ r.n = q.n
        /\ r.submissions = 0 /\ r.runs_per_period = 0
    BY <1>4, <1>5, <2>3 DEF Limits!Admission
  <2>5. r \in Limits!Admission
    BY <1>4, <2>2, <2>3 DEF Limits!Admission, Limits!Window
  <2>6. ASSUME NEW k \in Limits!InForce, k # w PROVE w \in Limits!Past(k) <=> next \in Limits!Past(k)
    BY <1>2, <2>2, <2>6 DEF Limits!InForce, Limits!Counters, Limits!Past
  <2>7. Limits!OnCourse(r)
    <3>1. ASSUME NEW k \in Limits!InForce, next \in Limits!Past(k) PROVE Limits!Limit(k) > 0
      <4>1. CASE k = w
        <5>1. counters[q.tenant][w][Limits!Start(w, q.at)] \in Nat /\ Limits!Limit(w) \in Nat
          <6>1. q.tenant \in Limited /\ q.at \in Nat /\ q.at <= minute
            BY <1>4 DEF Limits!Admission, Limits!OnCourse
          <6>2. Limits!Start(w, q.at) \in 0 .. MaxMinutes
            <7>1. Limits!Start(w, q.at) \in Nat /\ Limits!Start(w, q.at) <= q.at
              BY <6>1, WindowsBegin
            <7>2. minute <= MaxMinutes
              BY DEF Limits!LimitInv, Limits!TypeOK
            <7> QED BY <1>4, <6>1, <7>1, <7>2
          <6>3. counters \in [Limited -> [Limits!Window -> [0 .. MaxMinutes -> Nat]]]
            BY DEF Limits!LimitInv, Limits!TypeOK, Limits!Table
          <6> QED BY <1>2, <6>1, <6>2, <6>3 DEF Limits!Limit
        <5> QED BY <1>7, <4>1, <5>1
      <4>2. CASE k # w
        BY <1>2, <1>4, <1>5, <2>6, <3>1, <4>2 DEF Limits!OnCourse
      <4> QED BY <4>1, <4>2
    <3> QED BY <1>4, <1>5, <2>2, <2>4, <3>1 DEF Limits!OnCourse
  <2>8. Room(q, r)
    <3>1. \A u, s : \A k \in Limits!Counters : Limits!Owes(r, u, k, s) = 0 /\ Limits!Owes(q, u, k, s) = 0
      <4>1. r.step \notin {"submit", "count"} /\ q.step \notin {"submit", "count"}
        BY <1>2, <2>2, <2>4
      <4> QED BY <1>4, <2>5, <2>7, <4>1, NoneOwedYet
    <3>2. ASSUME NEW u \in Limited, NEW k \in Limits!InForce, NEW s \in 0 .. MaxMinutes
          PROVE  Limits!Comes(r, u, k, s) <= Limits!Comes(q, u, k, s) \/ counters[u][k][s] < Limits!Limit(k)
      <4>1. Limits!Comes(q, u, k, s) \in Nat
        BY <1>4, ShareOfOne DEF Limits!InForce
      <4>2. CASE u # q.tenant
        BY <2>4, <4>1, <4>2 DEF Limits!Comes
      <4>3. CASE u = q.tenant /\ k = w /\ Limits!Start(k, q.at) = s
        BY <1>7, <4>3
      <4>4. CASE u = q.tenant /\ ~(k = w /\ Limits!Start(k, q.at) = s)
        <5>0. r[k] = q[k]
          BY <1>5, <2>4 DEF Limits!InForce, Limits!Counters
        <5>1. (r.step \in Limits!Past(k) /\ Limits!Start(k, r.at) = s) <=> (q.step \in Limits!Past(k) /\ Limits!Start(k, q.at) = s)
          BY <1>2, <2>4, <2>6, <4>4
        <5>2. r.step \notin {"submit", "count"} /\ q.step \notin {"submit", "count"}
          BY <1>2, <2>2, <2>4
        <5>3. r # Limits!Resting /\ q # Limits!Resting /\ r.tenant = q.tenant /\ r.kind = q.kind /\ r.n = q.n /\ r.at = q.at
          BY <1>3, <1>5, <2>2, <2>4 DEF Limits!Resting
        <5>4. Limits!Comes(r, u, k, s) = Limits!Comes(q, u, k, s)
          <6>1. CASE r.step \in Limits!Past(k) /\ Limits!Start(k, r.at) = s
            BY <5>0, <5>1, <5>3, <6>1 DEF Limits!Comes
          <6>2. CASE ~(r.step \in Limits!Past(k) /\ Limits!Start(k, r.at) = s)
            BY <5>1, <5>2, <5>3, <6>2 DEF Limits!Comes
          <6> QED BY <6>1, <6>2
        <5> QED BY <4>1, <5>4
      <4> QED BY <4>2, <4>3, <4>4
    <3>3. \A u : Limits!Enters(q, u) = 0 /\ (Limits!Enters(r, u) = 0 \/ "concurrent" \notin scenario.policy)
      BY <1>2, <2>2, <2>4 DEF Limits!Enters
    <3>4. \A T, steps : Limits!Queues(r, T, steps) = 0 /\ Limits!Queues(q, T, steps) = 0
      BY <1>5, <2>4 DEF Limits!Queues
    <3> QED BY <3>1, <3>2, <3>3, <3>4 DEF Room
  <2>9. requests' = [requests EXCEPT ![h] = r] /\ r \in Limits!Admission \union {Limits!Resting}
    BY <1>7, <2>1, <2>3, <2>5 DEF Limits!Become
  <2> QED BY <1>1, <1>2, <2>7, <2>8, <2>9, OnlyRequestsMove DEF Elsewhere
<1> QED BY <1>1, <1>6, <1>7 DEF Limits!WindowCheck, Limits!Under

LEMMA ConcurrencyCheckKeeps ==
  ASSUME Limits!LimitInv, NEW h \in Handler, Limits!ConcurrencyCheck(h)
  PROVE  Limits!LimitInv'
<1>1. PICK q : q = requests[h]
  OBVIOUS
<1>2. q.step = "concurrent" /\ Elsewhere
  BY <1>1 DEF Limits!ConcurrencyCheck, Elsewhere
<1>3. q # Limits!Resting
  BY <1>2 DEF Limits!Resting
<1>4. q \in Limits!Admission /\ Limits!OnCourse(q) /\ minute \in Nat
  BY <1>1, <1>3, OneOnCourse
<1>5. q.kind = "extraction" /\ q.submissions = 0 /\ q.runs_per_period = 0 /\ q.n > 0
  BY <1>2, <1>4 DEF Limits!OnCourse, Limits!Admission, Limits!Kind
<1>6. CASE Limits!Answer(h)
  BY <1>1, <1>2, <1>3, <1>6, RefusalsKeep DEF Elsewhere
<1>7. CASE active[q.tenant]["extraction"] < ConcurrencyLimit /\ Limits!Become(h, [q EXCEPT !.step = "body"])
  <2>1. PICK r : r = [q EXCEPT !.step = "body"]
    OBVIOUS
  <2>2. /\ r.step = "body" /\ r.tenant = q.tenant /\ r.kind = "extraction" /\ r.at = q.at /\ r.n = q.n
        /\ r.submissions = 0 /\ r.runs_per_period = 0 /\ r # Limits!Resting
    BY <1>4, <1>5, <2>1 DEF Limits!Admission, Limits!Resting
  <2>3. r \in Limits!Admission
    BY <1>4, <2>1 DEF Limits!Admission, Limits!Window
  <2>4. \A k : "body" \in Limits!Past(k) /\ "concurrent" \in Limits!Past(k)
    BY DEF Limits!Past
  <2>5. Limits!OnCourse(r)
    BY <1>2, <1>4, <1>5, <2>2, <2>4 DEF Limits!OnCourse
  <2>6. Room(q, r)
    <3>1. \A u, s : \A k \in Limits!Counters : Limits!Owes(r, u, k, s) = 0 /\ Limits!Owes(q, u, k, s) = 0
      BY <1>2, <1>4, <2>2, <2>3, <2>5, NoneOwedYet
    <3>2. ASSUME NEW u \in Limited, NEW k \in Limits!InForce, NEW s \in 0 .. MaxMinutes
          PROVE  Limits!Comes(r, u, k, s) <= Limits!Comes(q, u, k, s)
      <4>1. Limits!Comes(q, u, k, s) \in Nat
        BY <1>4, ShareOfOne DEF Limits!InForce
      <4>2. r[k] = q[k]
        BY <1>5, <2>2 DEF Limits!InForce, Limits!Counters
      <4>3. Limits!Comes(r, u, k, s) = Limits!Comes(q, u, k, s)
        BY <1>2, <1>3, <1>5, <2>2, <2>4, <4>2 DEF Limits!Comes
      <4> QED BY <4>1, <4>3
    <3>3. \A u : Limits!Enters(q, u) = 0 /\ (Limits!Enters(r, u) = 0 \/ u = q.tenant)
      BY <1>2, <2>2 DEF Limits!Enters
    <3>4. \A T, steps : Limits!Queues(r, T, steps) = 0 /\ Limits!Queues(q, T, steps) = 0
      BY <1>5, <2>2 DEF Limits!Queues
    <3> QED BY <1>7, <3>1, <3>2, <3>3, <3>4 DEF Room
  <2>7. requests' = [requests EXCEPT ![h] = r] /\ r \in Limits!Admission \union {Limits!Resting}
    BY <1>7, <2>1, <2>3 DEF Limits!Become
  <2> QED BY <1>1, <1>2, <2>5, <2>6, <2>7, OnlyRequestsMove DEF Elsewhere
<1> QED BY <1>1, <1>6, <1>7 DEF Limits!ConcurrencyCheck, Limits!Under, Limits!Concurrent

(* A run is counted in the minute it is submitted, which is no earlier than  *)
(* the one its limits were checked for.                                      *)
LEMMA PrepareKeeps ==
  ASSUME Limits!LimitInv, NEW h \in Handler, Limits!Prepare(h)
  PROVE  Limits!LimitInv'
<1>1. PICK q : q = requests[h]
  OBVIOUS
<1>2. q.step = "body" /\ Elsewhere
  BY <1>1 DEF Limits!Prepare, Elsewhere
<1>3. q # Limits!Resting
  BY <1>2 DEF Limits!Resting
<1>4. q \in Limits!Admission /\ Limits!OnCourse(q) /\ minute \in Nat
  BY <1>1, <1>3, OneOnCourse
<1>5. q.kind = "extraction" /\ q.submissions = 0 /\ q.runs_per_period = 0 /\ q.n > 0 /\ q.at <= minute /\ q.at \in Nat
  BY <1>2, <1>4 DEF Limits!OnCourse, Limits!Admission, Limits!Kind
<1>6. CASE Limits!Answer(h)
  BY <1>1, <1>2, <1>3, <1>6, RefusalsKeep DEF Elsewhere
<1>7. ASSUME NEW at \in {q.at, minute}, q.n # 1 => at = q.at, Limits!Become(h, [q EXCEPT !.step = "submit", !.at = at])
      PROVE  Limits!LimitInv'
  <2>1. PICK r : r = [q EXCEPT !.step = "submit", !.at = at]
    OBVIOUS
  <2>2. /\ r.step = "submit" /\ r.tenant = q.tenant /\ r.kind = "extraction" /\ r.at = at /\ r.n = q.n
        /\ r.submissions = 0 /\ r.runs_per_period = 0 /\ r # Limits!Resting
    BY <1>4, <1>5, <2>1 DEF Limits!Admission, Limits!Resting
  <2>0. at \in Nat /\ q.at <= at /\ at <= minute
    BY <1>4, <1>5, <1>7
  <2>3. r \in Limits!Admission
    BY <1>4, <2>0, <2>1 DEF Limits!Admission, Limits!Window
  <2>4. \A k : "body" \in Limits!Past(k) /\ "submit" \in Limits!Past(k)
    BY DEF Limits!Past
  <2>5. Limits!OnCourse(r)
    BY <1>2, <1>4, <1>5, <2>0, <2>2, <2>4 DEF Limits!OnCourse
  <2>6. Room(q, r)
    <3>0. \A k \in Limits!Counters : r[k] = 0 /\ q[k] = 0
      BY <1>5, <2>2 DEF Limits!Counters
    <3>1. \A u, s : \A k \in Limits!Counters : Limits!Owes(r, u, k, s) = 0 /\ Limits!Owes(q, u, k, s) = 0
      BY <3>0 DEF Limits!Owes
    <3>2. ASSUME NEW u \in Limited, NEW k \in Limits!InForce, NEW s \in 0 .. MaxMinutes
          PROVE  Limits!Comes(r, u, k, s) <= Limits!Comes(q, u, k, s)
      <4>1. Limits!Comes(q, u, k, s) \in Nat /\ k \in Limits!Counters
        BY <1>4, ShareOfOne DEF Limits!InForce
      <4>2. r[k] = q[k] /\ q.n + q[k] = q.n /\ q.n \in Nat
        BY <1>4, <3>0, <4>1 DEF Limits!Admission
      <4>3. Limits!Start(k, q.at) <= Limits!Start(k, at) /\ Limits!Start(k, q.at) \in Nat /\ Limits!Start(k, at) \in Nat
        BY <1>5, <2>0, WindowsBegin, WindowsGoOn
      <4>4. Limits!Limit(k) > 0
        BY <1>2, <1>4, <1>5, <2>4 DEF Limits!OnCourse
      <4>5. CASE Limits!Start(k, at) # s \/ u # q.tenant
        <5>1. Limits!Comes(r, u, k, s) = 0
          BY <2>2, <4>5 DEF Limits!Comes
        <5> QED BY <4>1, <5>1
      <4>6. CASE Limits!Start(k, at) = s /\ u = q.tenant
        <5>1. Limits!Comes(r, u, k, s) = q.n
          BY <2>2, <2>4, <4>2, <4>6 DEF Limits!Comes
        <5>2. CASE Limits!Start(k, q.at) = s
          <6>1. Limits!Comes(q, u, k, s) = q.n
            BY <1>2, <1>3, <1>5, <2>4, <4>2, <4>6, <5>2 DEF Limits!Comes
          <6> QED BY <4>2, <5>1, <6>1
        <5>3. CASE Limits!Start(k, q.at) # s
          <6>1. q.n = 1 /\ Limits!Start(k, q.at) < s
            BY <1>7, <4>3, <4>6, <5>3
          <6>2. Limits!Comes(q, u, k, s) = 1
            BY <1>2, <1>3, <1>5, <4>4, <4>6, <5>3, <6>1 DEF Limits!Comes
          <6> QED BY <5>1, <6>1, <6>2
        <5> QED BY <5>2, <5>3
      <4> QED BY <4>5, <4>6
    <3>3. \A u : Limits!Enters(r, u) <= Limits!Enters(q, u)
      <4>1. ASSUME NEW u PROVE Limits!Enters(q, u) \in Nat /\ Limits!Enters(r, u) = Limits!Enters(q, u)
        BY <1>2, <1>3, <1>4, <1>5, <2>2 DEF Limits!Enters, Limits!Admission
      <4> QED BY <4>1
    <3>4. \A T, steps : Limits!Queues(r, T, steps) = 0 /\ Limits!Queues(q, T, steps) = 0
      BY <1>5, <2>2 DEF Limits!Queues
    <3> QED BY <3>1, <3>2, <3>3, <3>4 DEF Room
  <2>7. requests' = [requests EXCEPT ![h] = r] /\ r \in Limits!Admission \union {Limits!Resting}
    BY <1>7, <2>1, <2>3 DEF Limits!Become
  <2> QED BY <1>1, <1>2, <2>5, <2>6, <2>7, OnlyRequestsMove DEF Elsewhere
<1>8. CASE q.n = 1 /\ Limits!Become(h, [q EXCEPT !.step = "submit", !.at = minute])
  BY <1>7, <1>8
<1>9. CASE q.n > 1 /\ Limits!Become(h, [q EXCEPT !.step = "submit"])
  <2>1. [q EXCEPT !.step = "submit"] = [q EXCEPT !.step = "submit", !.at = q.at]
    BY <1>4 DEF Limits!Admission
  <2> QED BY <1>7, <1>9, <2>1
<1> QED BY <1>1, <1>6, <1>8, <1>9 DEF Limits!Prepare

LEMMA TotalCheckKeeps ==
  ASSUME Limits!LimitInv, NEW h \in Handler, Limits!TotalCheck(h)
  PROVE  Limits!LimitInv'
<1>1. PICK q : q = requests[h]
  OBVIOUS
<1>2. q.step = "total" /\ Elsewhere
  BY <1>1 DEF Limits!TotalCheck, Elsewhere
<1>3. q # Limits!Resting
  BY <1>2 DEF Limits!Resting
<1>4. q \in Limits!Admission /\ Limits!OnCourse(q) /\ minute \in Nat
  BY <1>1, <1>3, OneOnCourse
<1>5. q.kind = "ocr" /\ q.n = 1 /\ q.submissions = 0 /\ q.runs_per_period = 0
  BY <1>2, <1>4 DEF Limits!OnCourse, Limits!Admission, Limits!Kind
<1>6. CASE Limits!Answer(h)
  BY <1>1, <1>2, <1>3, <1>5, <1>6, RefusalsKeep DEF Elsewhere
<1>7. CASE Limits!Backlog < OcrTotal /\ Limits!Become(h, [q EXCEPT !.step = "mine"])
  <2>1. PICK r : r = [q EXCEPT !.step = "mine"]
    OBVIOUS
  <2>2. /\ r.step = "mine" /\ r.tenant = q.tenant /\ r.kind = "ocr" /\ r.at = q.at /\ r.n = 1
        /\ r.submissions = 0 /\ r.runs_per_period = 0
    BY <1>4, <1>5, <2>1 DEF Limits!Admission
  <2>3. r \in Limits!Admission
    BY <1>4, <2>1 DEF Limits!Admission, Limits!Window
  <2>4. Limits!OnCourse(r)
    BY <1>2, <1>4, <1>5, <2>2 DEF Limits!OnCourse
  <2>5. Room(q, r)
    <3>1. \A u, s : \A k \in Limits!Counters : Limits!Owes(r, u, k, s) = 0 /\ Limits!Owes(q, u, k, s) = 0
      BY <1>4, <1>5, <2>2, <2>3, <2>4, NoneOwedYet
    <3>2. \A u, k, s : Limits!Comes(r, u, k, s) = 0 /\ Limits!Comes(q, u, k, s) = 0
      BY <1>5, <2>2 DEF Limits!Comes
    <3>3. \A u : Limits!Enters(r, u) = 0 /\ Limits!Enters(q, u) = 0
      BY <1>5, <2>2 DEF Limits!Enters
    <3>4. \A T : Limits!Queues(r, T, {"submit"}) = 0 /\ Limits!Queues(q, T, {"submit"}) = 0
      BY <1>2, <2>2 DEF Limits!Queues
    <3> QED BY <1>7, <3>1, <3>2, <3>3, <3>4 DEF Room
  <2>6. requests' = [requests EXCEPT ![h] = r] /\ r \in Limits!Admission \union {Limits!Resting}
    BY <1>7, <2>1, <2>3 DEF Limits!Become
  <2> QED BY <1>1, <1>2, <2>4, <2>5, <2>6, OnlyRequestsMove DEF Elsewhere
<1> QED BY <1>1, <1>6, <1>7 DEF Limits!TotalCheck, Limits!Under

LEMMA MineCheckKeeps ==
  ASSUME Limits!LimitInv, NEW h \in Handler, Limits!MineCheck(h)
  PROVE  Limits!LimitInv'
<1>1. PICK q : q = requests[h]
  OBVIOUS
<1>2. q.step = "mine" /\ Elsewhere
  BY <1>1 DEF Limits!MineCheck, Elsewhere
<1>3. q # Limits!Resting
  BY <1>2 DEF Limits!Resting
<1>4. q \in Limits!Admission /\ Limits!OnCourse(q) /\ minute \in Nat
  BY <1>1, <1>3, OneOnCourse
<1>5. q.kind = "ocr" /\ q.n = 1 /\ q.submissions = 0 /\ q.runs_per_period = 0 /\ q.tenant \in Limited
  BY <1>2, <1>4 DEF Limits!OnCourse, Limits!Admission, Limits!Kind
<1>6. CASE Limits!Answer(h)
  BY <1>1, <1>2, <1>3, <1>5, <1>6, RefusalsKeep DEF Elsewhere
<1>7. CASE active[q.tenant]["ocr"] < OcrLimit /\ Limits!Become(h, [q EXCEPT !.step = "submit"])
  <2>1. PICK r : r = [q EXCEPT !.step = "submit"]
    OBVIOUS
  <2>2. /\ r.step = "submit" /\ r.tenant = q.tenant /\ r.kind = "ocr" /\ r.at = q.at /\ r.n = 1
        /\ r.submissions = 0 /\ r.runs_per_period = 0
    BY <1>4, <1>5, <2>1 DEF Limits!Admission
  <2>3. r \in Limits!Admission
    BY <1>4, <2>1 DEF Limits!Admission, Limits!Window
  <2>4. Limits!OnCourse(r)
    BY <1>2, <1>4, <1>5, <2>2 DEF Limits!OnCourse
  <2>5. Room(q, r)
    <3>1. \A u, s : \A k \in Limits!Counters : Limits!Owes(r, u, k, s) = 0 /\ Limits!Owes(q, u, k, s) = 0
      BY <1>4, <1>5, <2>2, <2>3, <2>4, NoneOwedYet
    <3>2. \A u, k, s : Limits!Comes(r, u, k, s) = 0 /\ Limits!Comes(q, u, k, s) = 0
      BY <1>5, <2>2 DEF Limits!Comes
    <3>3. \A u : Limits!Enters(r, u) = 0 /\ Limits!Enters(q, u) = 0
      BY <1>5, <2>2 DEF Limits!Enters
    <3>4. ASSUME NEW u \in Limited
          PROVE  Limits!Queues(r, {u}, {"submit"}) <= Limits!Queues(q, {u}, {"submit"}) \/ active[u]["ocr"] < OcrLimit
      <4>1. CASE u = q.tenant
        BY <1>7, <4>1
      <4>2. CASE u # q.tenant
        <5>1. Limits!Queues(r, {u}, {"submit"}) = 0 /\ Limits!Queues(q, {u}, {"submit"}) = 0
          BY <2>2, <4>2 DEF Limits!Queues
        <5> QED BY <5>1
      <4> QED BY <4>1, <4>2
    <3>5. Limits!Queues(r, Limited, {"mine", "submit"}) <= Limits!Queues(q, Limited, {"mine", "submit"})
      <4>1. Limits!Queues(r, Limited, {"mine", "submit"}) \in {0, 1} /\ Limits!Queues(q, Limited, {"mine", "submit"}) = 1
        BY <1>2, <1>3, <1>5 DEF Limits!Queues
      <4> QED BY <4>1
    <3>6. \A u, k, s : Limits!Comes(r, u, k, s) <= Limits!Comes(q, u, k, s)
      BY <3>2
    <3>7. \A u : Limits!Enters(r, u) <= Limits!Enters(q, u)
      BY <3>3
    <3> QED BY <3>1, <3>4, <3>5, <3>6, <3>7 DEF Room
  <2>6. requests' = [requests EXCEPT ![h] = r] /\ r \in Limits!Admission \union {Limits!Resting}
    BY <1>7, <2>1, <2>3 DEF Limits!Become
  <2> QED BY <1>1, <1>2, <2>4, <2>5, <2>6, OnlyRequestsMove DEF Elsewhere
<1> QED BY <1>1, <1>6, <1>7 DEF Limits!MineCheck, Limits!Under

(* A sum of more is no less.                                                 *)
LEMMA SumsGrow ==
  ASSUME NEW S, IsFiniteSet(S), NEW f \in [S -> Nat], NEW g \in [S -> Nat], \A x \in S : f[x] <= g[x]
  PROVE  Limits!Total(f) <= Limits!Total(g)
<1>1. Units(f, S) \in SUBSET Units(g, S)
  <2>1. ASSUME NEW x \in S, NEW u \in Column(f, x) PROVE u \in Column(g, x)
    <3>1. f[x] \in Nat /\ g[x] \in Nat /\ f[x] <= g[x]
      OBVIOUS
    <3>2. u[1] = x /\ u[2] \in 1 .. f[x] /\ u = <<u[1], u[2]>>
      BY <2>1 DEF Column
    <3>3. u[2] \in 1 .. g[x]
      BY <3>1, <3>2
    <3> QED BY <3>2, <3>3 DEF Column
  <2> QED BY <2>1 DEF Units
<1>2. Cardinality(Units(f, S)) <= Cardinality(Units(g, S))
  BY <1>1, UnitsAreFinite, FS_Subset
<1> QED BY <1>2, SumsCountUnits

LEMMA LimitsBegin ==
  ASSUME Limits!Init
  PROVE  Limits!LimitInv
<1> USE DEF Limits!Init
<1>1. Limits!Nothing \in Limits!Table
  BY DEF Limits!Nothing, Limits!Table
<1>2. \A t \in Limited, k \in Limits!Window, s \in 0 .. MaxMinutes :
        counters[t][k][s] = 0 /\ admitted[t][k][s] = 0 /\ unwritten[t][k][s] = 0
  BY DEF Limits!Nothing
<1>3. Limits!TypeOK
  <2>1. scenario.runs \in Nat
    OBVIOUS
  <2>2. active \in [Limited -> [Limits!Kind -> Nat]] /\ unspent \in [Limited -> [0 .. MaxMinutes -> Nat]]
    OBVIOUS
  <2>3. requests \in [Handler -> Limits!Admission \union {Limits!Resting}]
    OBVIOUS
  <2>4. minute \in 0 .. MaxMinutes /\ losses \in 0 .. MaxFaults /\ submitted \in 0 .. scenario.runs
    BY <2>1
  <2> QED BY <1>1, <2>2, <2>3, <2>4 DEF Limits!TypeOK
<1>4. Limits!RequestsAreOnCourse
  BY DEF Limits!RequestsAreOnCourse
<1>5. Limits!NothingIsEarly
  BY <1>2 DEF Limits!NothingIsEarly, Limits!Counters, Limits!Window
<1>6. \A h \in Handler : requests[h] = Limits!Resting
  OBVIOUS
<1>7. ASSUME NEW f \in [Handler -> Nat], \A h \in Handler : f[h] = 0 PROVE Limits!Total(f) = 0
  BY <1>7, SumsOfNothing
<1>8. Limits!CountsAreKept
  <2>1. ASSUME NEW t \in Limited, NEW k \in Limits!Counters, NEW s PROVE Limits!UnderWay(t, k, s) = 0
    <3>1. PICK f : f = [h \in Handler |-> Limits!Owes(requests[h], t, k, s)]
      OBVIOUS
    <3>2. f \in [Handler -> Nat] /\ \A h \in Handler : f[h] = 0
      BY <1>6, <3>1, RestingShares
    <3> QED BY <1>7, <3>1, <3>2 DEF Limits!UnderWay
  <2>2. ASSUME NEW t \in Limited, NEW s
        PROVE  Limits!Total([m \in 0 .. MaxMinutes |-> IF Limits!Start("tokens", m) = s THEN unspent[t][m] ELSE 0]) = 0
    <3>1. PICK f : f = [m \in 0 .. MaxMinutes |-> IF Limits!Start("tokens", m) = s THEN unspent[t][m] ELSE 0]
      OBVIOUS
    <3>2. f \in [0 .. MaxMinutes -> Nat] /\ \A m \in 0 .. MaxMinutes : f[m] = 0
      BY <3>1
    <3> QED BY <3>1, <3>2, SumsOfNothing
  <2>3. WorkerCounts => Limits!TokensAreCounted
    <3>1. ASSUME NEW t \in Limited, NEW s \in Limits!Live
          PROVE  /\ counters[t]["tokens"][s] = 0 /\ admitted[t]["tokens"][s] = 0 /\ unwritten[t]["tokens"][s] = 0
                 /\ Limits!Total([m \in 0 .. MaxMinutes |-> IF Limits!Start("tokens", m) = s THEN unspent[t][m] ELSE 0]) = 0
      BY <1>2, <2>2 DEF Limits!Live, Limits!Window
    <3>2. 0 + 0 + 0 = 0
      OBVIOUS
    <3> HIDE DEF Limits!Init
    <3> QED BY <3>1, <3>2 DEF Limits!TokensAreCounted
  <2> QED BY <1>2, <2>1, <2>3 DEF Limits!CountsAreKept, Limits!RunsAreCounted, Limits!Window, Limits!Live, Limits!Counters
<1>9. Limits!WindowsAreBounded
  <2>1. ASSUME NEW t \in Limited, NEW k \in Limits!InForce, NEW s \in 0 .. MaxMinutes
        PROVE  counters[t][k][s] + Limits!Coming(t, k, s) < Limits!Limit(k) + Limits!AtOnce
    <3>1. PICK f : f = [h \in Handler |-> Limits!Comes(requests[h], t, k, s)]
      OBVIOUS
    <3>2. f \in [Handler -> Nat] /\ \A h \in Handler : f[h] = 0
      BY <1>6, <3>1, RestingShares
    <3>3. Limits!Coming(t, k, s) = 0
      BY <1>7, <3>1, <3>2 DEF Limits!Coming
    <3>4. counters[t][k][s] = 0 /\ Limits!Limit(k) \in Nat
      BY <1>2 DEF Limits!InForce, Limits!Counters, Limits!Window, Limits!Limit
    <3> HIDE DEF Limits!Init
    <3> QED BY <3>3, <3>4, AtOnceIs
  <2> QED BY <2>1 DEF Limits!WindowsAreBounded
<1>10. Limits!QueuesAreBounded
  <2>1. ASSUME NEW t PROVE Limits!Entering(t) = 0
    <3>1. PICK f : f = [h \in Handler |-> Limits!Enters(requests[h], t)]
      OBVIOUS
    <3>2. f \in [Handler -> Nat] /\ \A h \in Handler : f[h] = 0
      BY <1>6, <3>1, RestingShares
    <3> QED BY <1>7, <3>1, <3>2 DEF Limits!Entering
  <2>2. ASSUME NEW T, NEW steps PROVE Limits!Queueing(T, steps) = 0
    <3>1. PICK f : f = [h \in Handler |-> Limits!Queues(requests[h], T, steps)]
      OBVIOUS
    <3>2. f \in [Handler -> Nat] /\ \A h \in Handler : f[h] = 0
      BY <1>6, <3>1, RestingShares
    <3> QED BY <1>7, <3>1, <3>2 DEF Limits!Queueing
  <2>3. Limits!Backlog = 0
    <3>1. PICK f : f = [t \in Limited |-> active[t]["ocr"]]
      OBVIOUS
    <3>2. f \in [Limited -> Nat] /\ \A t \in Limited : f[t] = 0
      BY <3>1 DEF Limits!Kind
    <3> QED BY <3>1, <3>2, SumsOfNothing DEF Limits!Backlog
  <2>4. \A t \in Limited : active[t]["extraction"] = 0 /\ active[t]["ocr"] = 0
    BY DEF Limits!Kind
  <2>5. PICK n \in Nat \ {0} : n = Cardinality(Handler) /\ n = Limits!Cardinality(Handler)
    BY AtOnceIs, SizesAgree
  <2> HIDE DEF Limits!Init
  <2>6. /\ \A t \in Limited : active[t]["extraction"] + Limits!Entering(t) = 0 /\ active[t]["ocr"] + Limits!Queueing({t}, {"submit"}) = 0
        /\ Limits!Backlog + Limits!Queueing(Limited, {"mine", "submit"}) = 0
    BY <2>1, <2>2, <2>3, <2>4
  <2>7. 0 < ConcurrencyLimit + Limits!AtOnce /\ 0 < OcrLimit + n /\ 0 < OcrTotal + n
    BY AtOnceIs
  <2> QED BY <2>5, <2>6, <2>7 DEF Limits!QueuesAreBounded
<1> QED BY <1>3, <1>4, <1>5, <1>8, <1>9, <1>10 DEF Limits!LimitInv

LEMMA NothingMoves ==
  ASSUME Limits!LimitInv, UNCHANGED Limits!limitVars
  PROVE  Limits!LimitInv'
<1>1. v1' = v1 /\ v2' = v2 /\ v3' = v3 /\ v4' = v4 /\ v5' = v5 /\ v6' = v6 /\ v7' = v7 /\ v8' = v8 /\ v9' = v9 /\ v10' = v10 /\ v11' = v11
  BY DEF Limits!limitVars
<1> USE DEF Limits!LimitInv
<1>2. Limits!TypeOK'
  BY <1>1 DEF Limits!TypeOK, Limits!Table, Limits!Admission, Limits!Resting, Limits!Window, Limits!Kind
<1>3. Limits!RequestsAreOnCourse'
  BY <1>1 DEF Limits!RequestsAreOnCourse, Limits!OnCourse, Limits!InForce, Limits!Resting, Limits!Counters, Limits!Past, Limits!Limit
<1>4. Limits!NothingIsEarly'
  BY <1>1 DEF Limits!NothingIsEarly, Limits!Counters, Limits!Start
<1>5. Limits!CountsAreKept'
  <2>1. WorkerCounts => Limits!TokensAreCounted'
    BY <1>1 DEF Limits!CountsAreKept, Limits!RunsAreCounted, Limits!TokensAreCounted, Limits!Live, Limits!Start, Limits!Total
  <2>2. \A t, k, s : Limits!UnderWay(t, k, s)' = Limits!UnderWay(t, k, s)
    BY <1>1 DEF Limits!UnderWay, Limits!Owes, Limits!Total, Limits!Start, Limits!Resting
  <2> QED BY <1>1, <2>1, <2>2 DEF Limits!CountsAreKept, Limits!RunsAreCounted, Limits!Live
<1>6. Limits!WindowsAreBounded'
  <2>1. \A t, k, s : Limits!Coming(t, k, s)' = Limits!Coming(t, k, s)
    BY <1>1 DEF Limits!Coming, Limits!Comes, Limits!Total, Limits!Start, Limits!Resting, Limits!Past, Limits!Limit
  <2> QED BY <1>1, <2>1 DEF Limits!WindowsAreBounded, Limits!InForce, Limits!Counters, Limits!Limit, Limits!AtOnce
<1>7. Limits!QueuesAreBounded'
  <2>1. \A t : Limits!Entering(t)' = Limits!Entering(t)
    BY <1>1 DEF Limits!Entering, Limits!Enters, Limits!Total, Limits!Resting
  <2>2. \A T, steps : Limits!Queueing(T, steps)' = Limits!Queueing(T, steps)
    BY <1>1 DEF Limits!Queueing, Limits!Queues, Limits!Total, Limits!Resting
  <2>3. Limits!Backlog' = Limits!Backlog
    BY <1>1 DEF Limits!Backlog, Limits!Total
  <2> QED BY <1>1, <2>1, <2>2, <2>3 DEF Limits!QueuesAreBounded, Limits!AtOnce
<1> QED BY <1>1, <1>2, <1>3, <1>4, <1>5, <1>6, <1>7

(* What a table holds once something is added to it.                         *)
Holds(after, table, t, k, now, by) ==
  /\ after \in Limits!Table
  /\ \A u \in Limited, l \in Limits!Window, s \in 0 .. MaxMinutes :
       after[u][l][s] = IF k \in scenario.policy /\ u = t /\ l = k /\ s = Limits!Start(k, now)
                        THEN table[u][l][s] + by ELSE table[u][l][s]

LEMMA Adding ==
  ASSUME NEW table \in Limits!Table, NEW t \in Limited, NEW k \in Limits!Window, NEW now \in Nat, NEW by \in Nat,
         now <= MaxMinutes
  PROVE  Holds(Limits!Added(table, t, k, now, by), table, t, k, now, by)
<1>1. PICK b : b = Limits!Start(k, now)
  OBVIOUS
<1>2. b \in 0 .. MaxMinutes
  BY <1>1, WindowsBegin
<1>3. table[t][k][b] + by \in Nat
  <2>1. table[t][k][b] \in Nat
    BY <1>2 DEF Limits!Table
  <2> QED BY <2>1
<1>4. PICK n \in Nat : n = table[t][k][b] + by
  BY <1>3
<1>5. PICK after : after = [table EXCEPT ![t][k][b] = n]
  OBVIOUS
<1>6. after \in Limits!Table
  BY <1>2, <1>5 DEF Limits!Table
<1>7. \A u \in Limited, l \in Limits!Window, s \in 0 .. MaxMinutes :
        after[u][l][s] = IF u = t /\ l = k /\ s = b THEN n ELSE table[u][l][s]
  BY <1>2, <1>5 DEF Limits!Table
<1>8. Limits!Added(table, t, k, now, by) = IF k \in scenario.policy THEN after ELSE table
  BY <1>1, <1>4, <1>5 DEF Limits!Added
<1> QED BY <1>1, <1>4, <1>6, <1>7, <1>8 DEF Holds

(* What a step that moves one request does to the sums over requests.        *)
LEMMA OneMoves ==
  ASSUME Limits!LimitInv, NEW h \in Handler, NEW r \in Limits!Admission \union {Limits!Resting},
         r # Limits!Resting => Limits!OnCourse(r), requests' = [requests EXCEPT ![h] = r], v1' = v1, v8' = v8
  PROVE  /\ requests' \in [Handler -> Limits!Admission \union {Limits!Resting}]
         /\ Limits!RequestsAreOnCourse'
         /\ Shares(requests[h]) /\ Shares(r)
         /\ OweMoves(requests[h], r) /\ ComeMoves(requests[h], r)
         /\ EnterMoves(requests[h], r) /\ QueueMoves(requests[h], r)
<1>1. requests \in [Handler -> Limits!Admission \union {Limits!Resting}] /\ minute \in Nat
  BY DEF Limits!LimitInv, Limits!TypeOK
<1>2. requests' \in [Handler -> Limits!Admission \union {Limits!Resting}]
      /\ \A i \in Handler : requests'[i] # Limits!Resting => Limits!OnCourse(requests'[i])
  BY <1>1 DEF Limits!LimitInv, Limits!RequestsAreOnCourse
<1>3. (\A i \in Handler : Shares(requests[i])) /\ Shares(r)
  <2>1. \A i \in Handler : requests[i] \in Limits!Admission \union {Limits!Resting} /\ (requests[i] # Limits!Resting => Limits!OnCourse(requests[i]))
    BY <1>1 DEF Limits!LimitInv, Limits!RequestsAreOnCourse
  <2>2. ASSUME NEW q \in Limits!Admission \union {Limits!Resting}, q # Limits!Resting => Limits!OnCourse(q) PROVE Shares(q)
    BY <1>1, <2>2, ShareOfOne DEF Shares
  <2> QED BY <2>1, <2>2
<1>4. Limits!RequestsAreOnCourse'
  BY <1>2 DEF Limits!RequestsAreOnCourse, Limits!OnCourse, Limits!Resting, Limits!InForce, Limits!Limit, Limits!Past, Limits!Counters
<1>5. /\ OweMoves(requests[h], r) /\ ComeMoves(requests[h], r)
      /\ EnterMoves(requests[h], r) /\ QueueMoves(requests[h], r)
  BY <1>1, <1>3, OneRequestMoves
<1> QED BY <1>2, <1>3, <1>4, <1>5

(* What a request owes once it has submitted a run, and what it may yet do.  *)
LEMMA SubmittedIs ==
  ASSUME NEW q \in Limits!Admission, Limits!OnCourse(q), q.step = "submit", minute \in Nat
  PROVE  \E r \in Limits!Admission \union {Limits!Resting} :
         /\ r = Limits!Onward(Limits!Owing(q)) /\ (r # Limits!Resting => Limits!OnCourse(r))
         /\ \A t, s : \A k \in Limits!Counters :
              Limits!Owes(r, t, k, s) = IF Limits!Counted(q) /\ t = q.tenant /\ Limits!Start(k, q.at) = s
                                        THEN Limits!Owes(q, t, k, s) + 1 ELSE Limits!Owes(q, t, k, s)
         /\ \A t, s : \A k \in Limits!Counters : Limits!Comes(r, t, k, s) <= Limits!Comes(q, t, k, s)
         /\ \A t : Limits!Enters(r, t) <= Limits!Enters(q, t)
         /\ q.kind = "extraction" => Limits!Enters(r, q.tenant) + 1 <= Limits!Enters(q, q.tenant)
         /\ \A T, steps : Limits!Queues(r, T, steps) <= Limits!Queues(q, T, steps)
         /\ q.kind = "ocr" => \A T, steps : q.tenant \in T /\ "submit" \in steps =>
                                Limits!Queues(r, T, steps) + 1 <= Limits!Queues(q, T, steps)
<1>0. q # Limits!Resting
  BY DEF Limits!Resting
<1>1. /\ q.n \in Nat /\ q.n > 0 /\ q.submissions \in Nat /\ q.runs_per_period = q.submissions
      /\ q.n + q.runs_per_period <= Reruns
      /\ (q.kind = "ocr" => q.n = 1 /\ q.submissions = 0) /\ q.kind \in {"extraction", "ocr"}
  BY DEF Limits!OnCourse, Limits!Admission, Limits!Kind
<1>2. PICK c \in {0, 1} : c = IF Limits!Counted(q) THEN 1 ELSE 0
  OBVIOUS
<1>3. PICK o \in Limits!Admission :
        /\ o = Limits!Owing(q) /\ o.step = "submit" /\ o.tenant = q.tenant /\ o.kind = q.kind /\ o.at = q.at /\ o.n = q.n
        /\ o.submissions = q.submissions + c /\ o.runs_per_period = q.submissions + c
  <2>1. CASE Limits!Counted(q)
    <3>1. PICK o : o = [q EXCEPT !.submissions = @ + 1, !.runs_per_period = @ + 1]
      OBVIOUS
    <3>2. o \in Limits!Admission
      <4>1. q.submissions + 1 \in Nat /\ q.runs_per_period + 1 \in Nat
        BY <1>1
      <4>2. PICK m \in Nat : m = q.submissions + 1 /\ m = q.runs_per_period + 1
        BY <1>1, <4>1
      <4>3. o = [q EXCEPT !.submissions = m, !.runs_per_period = m]
        BY <3>1, <4>2 DEF Limits!Admission
      <4> QED BY <4>3 DEF Limits!Admission
    <3>3. /\ o.step = "submit" /\ o.tenant = q.tenant /\ o.kind = q.kind /\ o.at = q.at /\ o.n = q.n
          /\ o.submissions = q.submissions + 1 /\ o.runs_per_period = q.submissions + 1
      BY <1>1, <3>1 DEF Limits!Admission
    <3>4. o = Limits!Owing(q)
      BY <2>1, <3>1 DEF Limits!Owing
    <3> QED BY <1>2, <2>1, <3>2, <3>3, <3>4
  <2>2. CASE ~Limits!Counted(q)
    BY <1>1, <1>2, <2>2 DEF Limits!Owing
  <2> QED BY <2>1, <2>2
<1>4. Limits!Counted(q) <=> c = 1
  BY <1>2
<1>5. Limits!Counted(q) => q.kind = "extraction"
  BY DEF Limits!Counted
<1>6. PICK d \in Nat : d = q.submissions + c
  BY <1>1, <1>2
<1>7. \A k \in Limits!Counters : q[k] = q.submissions /\ q[k] \in Nat
  BY <1>1 DEF Limits!Counters
<1>8. \A k : "submit" \in Limits!Past(k) /\ "count" \in Limits!Past(k)
  BY DEF Limits!Past
<1>9. /\ \A t, s : \A k \in Limits!Counters :
           Limits!Owes(q, t, k, s) = IF t = q.tenant /\ Limits!Start(k, q.at) = s THEN q.submissions ELSE 0
      /\ \A t, s : \A k \in Limits!Counters :
           Limits!Comes(q, t, k, s) = IF t = q.tenant /\ q.kind = "extraction" /\ Limits!Start(k, q.at) = s
                                      THEN q.n + q.submissions ELSE 0
      /\ \A t : Limits!Enters(q, t) = IF t = q.tenant /\ q.kind = "extraction" THEN q.n ELSE 0
      /\ \A T, steps : Limits!Queues(q, T, steps) = IF q.tenant \in T /\ q.kind = "ocr" /\ "submit" \in steps THEN 1 ELSE 0
  <2>1. \A t, s : \A k \in Limits!Counters :
           Limits!Owes(q, t, k, s) = IF t = q.tenant /\ Limits!Start(k, q.at) = s THEN q.submissions ELSE 0
    BY <1>0, <1>7 DEF Limits!Owes
  <2>2. \A t, s : \A k \in Limits!Counters :
           Limits!Comes(q, t, k, s) = IF t = q.tenant /\ q.kind = "extraction" /\ Limits!Start(k, q.at) = s
                                      THEN q.n + q.submissions ELSE 0
    BY <1>0, <1>1, <1>7, <1>8 DEF Limits!Comes
  <2>3. \A t : Limits!Enters(q, t) = IF t = q.tenant /\ q.kind = "extraction" THEN q.n ELSE 0
    BY <1>0 DEF Limits!Enters
  <2>4. \A T, steps : Limits!Queues(q, T, steps) = IF q.tenant \in T /\ q.kind = "ocr" /\ "submit" \in steps THEN 1 ELSE 0
    BY <1>0 DEF Limits!Queues
  <2> QED BY <2>1, <2>2, <2>3, <2>4
<1>10. CASE q.n > 1
  <2>1. q.kind = "extraction"
    BY <1>1, <1>10
  <2>2. PICK r : r = [o EXCEPT !.n = @ - 1]
    OBVIOUS
  <2>3. /\ r.step = "submit" /\ r.tenant = q.tenant /\ r.kind = "extraction" /\ r.at = q.at /\ r.n = q.n - 1
        /\ r.submissions = d /\ r.runs_per_period = d /\ r # Limits!Resting /\ r.n \in Nat /\ r.n > 0
    BY <1>1, <1>3, <1>6, <1>10, <2>1, <2>2 DEF Limits!Admission, Limits!Resting
  <2>4. r \in Limits!Admission
    <3>1. q.n - 1 \in Nat
      BY <1>1
    <3> QED BY <1>3, <2>2, <3>1 DEF Limits!Admission
  <2>5. r = Limits!Onward(Limits!Owing(q))
    BY <1>3, <1>10, <2>2 DEF Limits!Onward
  <2>6. r.n + r.runs_per_period <= Reruns
    BY <1>1, <1>6, <2>3
  <2>7. Limits!OnCourse(r)
    BY <1>8, <2>1, <2>3, <2>6 DEF Limits!OnCourse
  <2>8. \A k \in Limits!Counters : r[k] = d
    BY <2>3 DEF Limits!Counters
  <2>9. \A t, s : \A k \in Limits!Counters :
           Limits!Owes(r, t, k, s) = IF t = q.tenant /\ Limits!Start(k, q.at) = s THEN d ELSE 0
    BY <2>3, <2>8 DEF Limits!Owes
  <2>10. \A t, s : \A k \in Limits!Counters :
           Limits!Comes(r, t, k, s) = IF t = q.tenant /\ Limits!Start(k, q.at) = s THEN (q.n - 1) + d ELSE 0
    BY <1>8, <2>3, <2>8 DEF Limits!Comes
  <2>11. \A t : Limits!Enters(r, t) = IF t = q.tenant THEN q.n - 1 ELSE 0
    BY <2>3 DEF Limits!Enters
  <2>12. \A T, steps : Limits!Queues(r, T, steps) = 0
    BY <2>3 DEF Limits!Queues
  <2>13. d <= q.submissions + 1 /\ (c = 1 => d = q.submissions + 1) /\ (c # 1 => d = q.submissions)
         /\ (q.n - 1) + d <= q.n + q.submissions
    BY <1>1, <1>2, <1>6
  <2>14. \A t, s : \A k \in Limits!Counters :
              Limits!Owes(r, t, k, s) = IF Limits!Counted(q) /\ t = q.tenant /\ Limits!Start(k, q.at) = s
                                        THEN Limits!Owes(q, t, k, s) + 1 ELSE Limits!Owes(q, t, k, s)
    BY <1>4, <1>9, <2>9, <2>13
  <2>15. \A t, s : \A k \in Limits!Counters : Limits!Comes(r, t, k, s) <= Limits!Comes(q, t, k, s)
    BY <1>9, <2>1, <2>10, <2>13
  <2>16. (\A t : Limits!Enters(r, t) <= Limits!Enters(q, t)) /\ Limits!Enters(r, q.tenant) + 1 <= Limits!Enters(q, q.tenant)
    BY <1>1, <1>9, <2>1, <2>11
  <2>17. \A T, steps : Limits!Queues(r, T, steps) <= Limits!Queues(q, T, steps)
    BY <1>9, <2>1, <2>12
  <2> QED BY <2>1, <2>4, <2>5, <2>7, <2>14, <2>15, <2>16, <2>17
<1>11. CASE q.n = 1 /\ d = 0
  <2>1. PICK r : r = Limits!Resting
    OBVIOUS
  <2>2. r = Limits!Onward(Limits!Owing(q))
    BY <1>3, <1>6, <1>11, <2>1 DEF Limits!Onward
  <2>3. q.submissions = 0 /\ c = 0
    BY <1>1, <1>2, <1>6, <1>11
  <2>4. \A t, s : \A k \in Limits!Counters : Limits!Owes(r, t, k, s) = 0 /\ Limits!Owes(q, t, k, s) = 0
    BY <1>9, <2>1, <2>3, RestingShares
  <2>5. \A t, s : \A k \in Limits!Counters : Limits!Comes(r, t, k, s) <= Limits!Comes(q, t, k, s)
    BY <1>1, <1>9, <2>1, RestingShares
  <2>6. /\ \A t : Limits!Enters(r, t) <= Limits!Enters(q, t)
        /\ q.kind = "extraction" => Limits!Enters(r, q.tenant) + 1 <= Limits!Enters(q, q.tenant)
    BY <1>1, <1>9, <1>11, <2>1, RestingShares
  <2>7. /\ \A T, steps : Limits!Queues(r, T, steps) <= Limits!Queues(q, T, steps)
        /\ q.kind = "ocr" => \A T, steps : q.tenant \in T /\ "submit" \in steps =>
                                Limits!Queues(r, T, steps) + 1 <= Limits!Queues(q, T, steps)
    BY <1>1, <1>9, <2>1, RestingShares
  <2>8. ~Limits!Counted(q)
    BY <1>4, <2>3
  <2> QED BY <2>1, <2>2, <2>4, <2>5, <2>6, <2>7, <2>8
<1>12. CASE q.n = 1 /\ d > 0
  <2>1. q.kind = "extraction"
    BY <1>1, <1>4, <1>5, <1>6, <1>12
  <2>2. PICK r : r = [o EXCEPT !.n = 0, !.step = "count"]
    OBVIOUS
  <2>3. /\ r.step = "count" /\ r.tenant = q.tenant /\ r.kind = "extraction" /\ r.at = q.at /\ r.n = 0
        /\ r.submissions = d /\ r.runs_per_period = d /\ r # Limits!Resting
    BY <1>3, <1>6, <2>1, <2>2 DEF Limits!Admission, Limits!Resting
  <2>4. r \in Limits!Admission
    BY <1>3, <2>2 DEF Limits!Admission
  <2>5. r = Limits!Onward(Limits!Owing(q))
    <3>1. o.submissions # 0
      BY <1>3, <1>6, <1>12
    <3> QED BY <1>3, <1>12, <2>2, <3>1 DEF Limits!Onward
  <2>6. r.n + r.runs_per_period <= Reruns
    BY <1>1, <1>2, <1>6, <1>12, <2>3
  <2>7. Limits!OnCourse(r)
    BY <1>8, <1>12, <2>1, <2>3, <2>6 DEF Limits!OnCourse
  <2>8. \A k \in Limits!Counters : r[k] = d
    BY <2>3 DEF Limits!Counters
  <2>9. \A t, s : \A k \in Limits!Counters :
           Limits!Owes(r, t, k, s) = IF t = q.tenant /\ Limits!Start(k, q.at) = s THEN d ELSE 0
    BY <2>3, <2>8 DEF Limits!Owes
  <2>10. \A t, s : \A k \in Limits!Counters :
           Limits!Comes(r, t, k, s) = IF t = q.tenant /\ Limits!Start(k, q.at) = s THEN d ELSE 0
    <3>1. 0 + d = d
      OBVIOUS
    <3> QED BY <1>8, <2>3, <2>8, <3>1 DEF Limits!Comes
  <2>11. \A t : Limits!Enters(r, t) = 0
    BY <2>3 DEF Limits!Enters
  <2>12. \A T, steps : Limits!Queues(r, T, steps) = 0
    BY <2>3 DEF Limits!Queues
  <2>13. (c = 1 => d = q.submissions + 1) /\ (c # 1 => d = q.submissions) /\ d <= q.n + q.submissions
    BY <1>1, <1>2, <1>6, <1>12
  <2>14. \A t, s : \A k \in Limits!Counters :
              Limits!Owes(r, t, k, s) = IF Limits!Counted(q) /\ t = q.tenant /\ Limits!Start(k, q.at) = s
                                        THEN Limits!Owes(q, t, k, s) + 1 ELSE Limits!Owes(q, t, k, s)
    BY <1>4, <1>9, <2>9, <2>13
  <2>15. \A t, s : \A k \in Limits!Counters : Limits!Comes(r, t, k, s) <= Limits!Comes(q, t, k, s)
    BY <1>9, <2>1, <2>10, <2>13
  <2>16. (\A t : Limits!Enters(r, t) <= Limits!Enters(q, t)) /\ Limits!Enters(r, q.tenant) + 1 <= Limits!Enters(q, q.tenant)
    BY <1>9, <1>12, <2>1, <2>11
  <2>17. \A T, steps : Limits!Queues(r, T, steps) <= Limits!Queues(q, T, steps)
    BY <1>9, <2>1, <2>12
  <2> QED BY <2>1, <2>4, <2>5, <2>7, <2>14, <2>15, <2>16, <2>17
<1> QED BY <1>1, <1>6, <1>10, <1>11, <1>12

LEMMA NumbersAre ==
  ASSUME Limits!TypeOK
  PROVE  /\ \A t \in Limited, k \in Limits!Window, s \in 0 .. MaxMinutes :
              counters[t][k][s] \in Nat /\ unwritten[t][k][s] \in Nat /\ admitted[t][k][s] \in Nat
         /\ \A k \in Limits!Counters : Limits!Limit(k) \in Nat /\ k \in Limits!Window
<1>1. ASSUME NEW table \in Limits!Table, NEW t \in Limited, NEW k \in Limits!Window, NEW s \in 0 .. MaxMinutes
      PROVE  table[t][k][s] \in Nat
  <2>1. table[t] \in [Limits!Window -> [0 .. MaxMinutes -> Nat]]
    BY DEF Limits!Table
  <2> QED BY <2>1
<1>2. \A k \in Limits!Counters : Limits!Limit(k) \in Nat /\ k \in Limits!Window
  BY DEF Limits!Counters, Limits!Limit, Limits!Window
<1> QED BY <1>1, <1>2 DEF Limits!TypeOK

LEMMA SubmitKeeps ==
  ASSUME Limits!LimitInv, NEW h \in Handler, Limits!Submit(h)
  PROVE  Limits!LimitInv'
<1>1. PICK q : q = requests[h]
  OBVIOUS
<1>2. q.step = "submit" /\ v1' = v1 /\ v4' = v4 /\ v7' = v7 /\ v8' = v8 /\ v9' = v9 /\ v11' = v11
  BY <1>1 DEF Limits!Submit
<1>3. q # Limits!Resting
  BY <1>2 DEF Limits!Resting
<1>4. q \in Limits!Admission /\ Limits!OnCourse(q) /\ minute \in Nat /\ minute <= MaxMinutes
  BY <1>1, <1>3, OneOnCourse DEF Limits!LimitInv, Limits!TypeOK
<1>5. q.tenant \in Limited /\ q.kind \in {"extraction", "ocr"} /\ q.at \in Nat /\ q.at <= minute /\ q.at <= MaxMinutes
  BY <1>4 DEF Limits!Admission, Limits!Kind, Limits!OnCourse
<1>6. PICK r \in Limits!Admission \union {Limits!Resting} :
         /\ r = Limits!Onward(Limits!Owing(q)) /\ (r # Limits!Resting => Limits!OnCourse(r))
         /\ \A t, s : \A k \in Limits!Counters :
              Limits!Owes(r, t, k, s) = IF Limits!Counted(q) /\ t = q.tenant /\ Limits!Start(k, q.at) = s
                                        THEN Limits!Owes(q, t, k, s) + 1 ELSE Limits!Owes(q, t, k, s)
         /\ \A t, s : \A k \in Limits!Counters : Limits!Comes(r, t, k, s) <= Limits!Comes(q, t, k, s)
         /\ \A t : Limits!Enters(r, t) <= Limits!Enters(q, t)
         /\ q.kind = "extraction" => Limits!Enters(r, q.tenant) + 1 <= Limits!Enters(q, q.tenant)
         /\ \A T, steps : Limits!Queues(r, T, steps) <= Limits!Queues(q, T, steps)
         /\ q.kind = "ocr" => \A T, steps : q.tenant \in T /\ "submit" \in steps =>
                                Limits!Queues(r, T, steps) + 1 <= Limits!Queues(q, T, steps)
  BY <1>2, <1>4, SubmittedIs
<1>7. requests' = [requests EXCEPT ![h] = r]
  BY <1>1, <1>6 DEF Limits!Submit, Limits!Become
<1>8. r # Limits!Resting => Limits!OnCourse(r)
  BY <1>6
<1>9. /\ requests' \in [Handler -> Limits!Admission \union {Limits!Resting}]
       /\ Limits!RequestsAreOnCourse'
       /\ Shares(requests[h]) /\ Shares(r)
       /\ OweMoves(requests[h], r) /\ ComeMoves(requests[h], r)
       /\ EnterMoves(requests[h], r) /\ QueueMoves(requests[h], r)
  BY <1>2, <1>7, <1>8, OneMoves
<1>10. /\ requests' \in [Handler -> Limits!Admission \union {Limits!Resting}]
      /\ Limits!RequestsAreOnCourse'
      /\ Shares(q) /\ Shares(r)
      /\ OweMoves(q, r) /\ ComeMoves(q, r)
      /\ EnterMoves(q, r) /\ QueueMoves(q, r)
  BY <1>1, <1>9
<1>11. Limits!TypeOK /\ Limits!NothingIsEarly /\ Limits!CountsAreKept /\ Limits!WindowsAreBounded /\ Limits!QueuesAreBounded
      /\ scenario \in Scenarios
  BY DEF Limits!LimitInv
<1>12. /\ admitted' \in Limits!Table
       /\ \A t \in Limited, k \in Limits!InForce, s \in 0 .. MaxMinutes :
            admitted'[t][k][s] = IF Limits!Counted(q) /\ t = q.tenant /\ Limits!Start(k, q.at) = s
                                 THEN admitted[t][k][s] + 1 ELSE admitted[t][k][s]
       /\ \A t \in Limited, s \in 0 .. MaxMinutes : admitted'[t]["tokens"][s] = admitted[t]["tokens"][s]
  <2>1. admitted \in Limits!Table
    BY <1>11 DEF Limits!TypeOK
  <2>2. Limits!InForce \subseteq Limits!Window /\ Limits!InForce \subseteq scenario.policy
        /\ (\A k \in Limits!InForce : k \in {"submissions", "runs_per_period"})
        /\ {"submissions", "runs_per_period", "tokens"} \subseteq Limits!Window
    BY DEF Limits!InForce, Limits!Counters, Limits!Window
  <2>5. ASSUME NEW table \in Limits!Table, NEW k \in Limits!Window
        PROVE  Holds(Limits!Added(table, q.tenant, k, q.at, 1), table, q.tenant, k, q.at, 1)
    BY <1>5, Adding
  <2>3. CASE Limits!Counted(q)
    <3>0. "submissions" \in Limits!Window /\ "runs_per_period" \in Limits!Window /\ 1 \in Nat
      BY <2>2
    <3>1. admitted' = Limits!Added(Limits!Added(admitted, q.tenant, "submissions", q.at, 1), q.tenant, "runs_per_period", q.at, 1)
      BY <1>1, <2>3 DEF Limits!Submit, Limits!Counted
    <3>2. PICK mid : mid = Limits!Added(admitted, q.tenant, "submissions", q.at, 1)
      OBVIOUS
    <3>3. /\ mid \in Limits!Table
          /\ \A u \in Limited, l \in Limits!Window, s \in 0 .. MaxMinutes :
               mid[u][l][s] = IF "submissions" \in scenario.policy /\ u = q.tenant /\ l = "submissions" /\ s = Limits!Start("submissions", q.at)
                              THEN admitted[u][l][s] + 1 ELSE admitted[u][l][s]
      BY <2>1, <2>5, <3>0, <3>2 DEF Holds
    <3>4. /\ admitted' \in Limits!Table
          /\ \A u \in Limited, l \in Limits!Window, s \in 0 .. MaxMinutes :
               admitted'[u][l][s]
                 = IF "runs_per_period" \in scenario.policy /\ u = q.tenant /\ l = "runs_per_period" /\ s = Limits!Start("runs_per_period", q.at)
                   THEN mid[u][l][s] + 1 ELSE mid[u][l][s]
      BY <2>5, <3>0, <3>1, <3>2, <3>3 DEF Holds
    <3> QED BY <2>2, <2>3, <3>3, <3>4
  <2>4. CASE ~Limits!Counted(q)
    BY <1>1, <1>5, <2>1, <2>4 DEF Limits!Submit, Limits!Counted
  <2> QED BY <2>3, <2>4
<1>13. /\ active' \in [Limited -> [Limits!Kind -> Nat]]
       /\ \A t \in Limited, x \in Limits!Kind :
            /\ active[t][x] \in Nat
            /\ active'[t][x] = active[t][x] \/ (active'[t][x] = active[t][x] + 1 /\ t = q.tenant /\ x = q.kind)
  <2>1. active \in [Limited -> [Limits!Kind -> Nat]] /\ q.kind \in Limits!Kind
    BY <1>4, <1>11 DEF Limits!TypeOK, Limits!Admission
  <2>2. active' = active \/ active' = [active EXCEPT ![q.tenant][q.kind] = @ + 1]
    BY <1>1 DEF Limits!Submit
  <2>3. CASE active' = active
    BY <2>1, <2>3
  <2>4. CASE active' = [active EXCEPT ![q.tenant][q.kind] = @ + 1]
    <3>1. active[q.tenant][q.kind] \in Nat
      BY <1>5, <2>1
    <3>2. PICK n \in Nat : n = active[q.tenant][q.kind] + 1
      BY <3>1
    <3>3. active' = [active EXCEPT ![q.tenant][q.kind] = n]
      BY <2>4, <3>2
    <3> QED BY <1>5, <2>1, <3>2, <3>3
  <2> QED BY <2>2, <2>3, <2>4
<1>14. Limits!TypeOK'
  <2>1. Limits!Table' = Limits!Table /\ Limits!Admission' = Limits!Admission /\ Limits!Resting' = Limits!Resting
    BY DEF Limits!Table, Limits!Admission, Limits!Resting, Limits!Window, Limits!Kind
  <2>2. usedKeys' \subseteq Limited \X RequestKey
    BY <1>11 DEF Limits!TypeOK, Limits!Submit
  <2>3. submitted' \in 0 .. scenario.runs
    <3>1. submitted \in 0 .. scenario.runs /\ scenario.runs \in Nat
      BY <1>11 DEF Limits!TypeOK
    <3>2. submitted' = submitted \/ (submitted < scenario.runs /\ submitted' = submitted + 1)
      BY DEF Limits!Submit
    <3> QED BY <3>1, <3>2
  <2> QED BY <1>2, <1>10, <1>11, <1>12, <1>13, <2>1, <2>2, <2>3 DEF Limits!TypeOK, Limits!Kind
<1>15. Limits!NothingIsEarly'
  BY <1>2, <1>11 DEF Limits!NothingIsEarly, Limits!Start, Limits!Counters
<1>16. Limits!CountsAreKept'
  <2>1. Limits!Live' = Limits!Live /\ Limits!InForce' = Limits!InForce /\ Limits!Live \subseteq 0 .. MaxMinutes
    BY <1>2 DEF Limits!Live, Limits!InForce, Limits!Counters
  <2>2. ASSUME NEW t \in Limited, NEW k \in Limits!InForce, NEW s \in Limits!Live
        PROVE  counters'[t][k][s] + Limits!UnderWay(t, k, s)' + unwritten'[t][k][s] = admitted'[t][k][s]
    <3>1. counters[t][k][s] + Limits!UnderWay(t, k, s) + unwritten[t][k][s] = admitted[t][k][s]
      BY <1>11 DEF Limits!CountsAreKept, Limits!RunsAreCounted, Limits!InForce, Limits!Counters
    <3>2. k \in Limits!Counters /\ k \in Limits!Window /\ s \in 0 .. MaxMinutes
      BY <2>1 DEF Limits!InForce, Limits!Counters, Limits!Window
    <3>3. counters[t][k][s] \in Nat /\ unwritten[t][k][s] \in Nat /\ admitted[t][k][s] \in Nat
      BY <1>11, <3>2, NumbersAre
    <3>4. /\ Limits!UnderWay(t, k, s) \in Nat /\ Limits!UnderWay(t, k, s)' \in Nat
          /\ Limits!UnderWay(t, k, s)' + Limits!Owes(q, t, k, s) = Limits!UnderWay(t, k, s) + Limits!Owes(r, t, k, s)
      BY <1>10, <3>2 DEF OweMoves
    <3>5. Limits!Owes(q, t, k, s) \in Nat
      BY <1>10, <3>2 DEF Shares
    <3>6. \/ /\ Limits!Owes(r, t, k, s) = Limits!Owes(q, t, k, s) + 1 /\ admitted'[t][k][s] = admitted[t][k][s] + 1
          \/ /\ Limits!Owes(r, t, k, s) = Limits!Owes(q, t, k, s) /\ admitted'[t][k][s] = admitted[t][k][s]
      BY <1>6, <1>12, <3>2
    <3> QED BY <1>2, <3>1, <3>3, <3>4, <3>5, <3>6
  <2>3. WorkerCounts => Limits!TokensAreCounted'
    BY <1>2, <1>11, <1>12, <2>1 DEF Limits!CountsAreKept, Limits!RunsAreCounted, Limits!TokensAreCounted, Limits!Live, Limits!Total, Limits!Start
  <2> QED BY <2>1, <2>2, <2>3 DEF Limits!CountsAreKept, Limits!RunsAreCounted, Limits!InForce, Limits!Counters
<1>17. Limits!WindowsAreBounded'
  <2>1. ASSUME NEW t \in Limited, NEW k \in Limits!InForce, NEW s \in 0 .. MaxMinutes
        PROVE  counters'[t][k][s] + Limits!Coming(t, k, s)' < Limits!Limit(k) + Limits!AtOnce
    <3>1. k \in Limits!Counters /\ k \in Limits!Window /\ s \in Nat
      BY DEF Limits!InForce, Limits!Counters, Limits!Window
    <3>2. counters[t][k][s] \in Nat /\ Limits!Limit(k) \in Nat
      BY <1>11, <3>1, NumbersAre
    <3>3. counters[t][k][s] + Limits!Coming(t, k, s) < Limits!Limit(k) + Limits!AtOnce
      BY <1>11 DEF Limits!WindowsAreBounded
    <3>4. /\ Limits!Coming(t, k, s) \in Nat /\ Limits!Coming(t, k, s)' \in Nat
          /\ Limits!Coming(t, k, s)' + Limits!Comes(q, t, k, s) = Limits!Coming(t, k, s) + Limits!Comes(r, t, k, s)
      BY <1>10, <3>1 DEF ComeMoves
    <3>5. Limits!Comes(q, t, k, s) \in Nat /\ Limits!Comes(r, t, k, s) \in Nat /\ Limits!Comes(r, t, k, s) <= Limits!Comes(q, t, k, s)
      BY <1>6, <1>10, <3>1 DEF Shares
    <3> QED BY <1>2, <3>2, <3>3, <3>4, <3>5, AtOnceIs
  <2> QED BY <1>2, <2>1 DEF Limits!WindowsAreBounded, Limits!InForce, Limits!Limit, Limits!AtOnce, Limits!Counters
<1>18. Limits!QueuesAreBounded'
  <2>1. ASSUME NEW t \in Limited, "concurrent" \in scenario.policy
        PROVE  active'[t]["extraction"] + Limits!Entering(t)' < ConcurrencyLimit + Limits!AtOnce
    <3>1. active[t]["extraction"] + Limits!Entering(t) < ConcurrencyLimit + Limits!AtOnce
      BY <1>11, <2>1 DEF Limits!QueuesAreBounded
    <3>2. /\ Limits!Entering(t) \in Nat /\ Limits!Entering(t)' \in Nat
          /\ Limits!Entering(t)' + Limits!Enters(q, t) = Limits!Entering(t) + Limits!Enters(r, t)
          /\ Limits!Enters(q, t) \in Nat /\ Limits!Enters(r, t) \in Nat
      BY <1>10 DEF Shares, EnterMoves
    <3>3. /\ active[t]["extraction"] \in Nat
          /\ \/ active'[t]["extraction"] = active[t]["extraction"]
             \/ active'[t]["extraction"] = active[t]["extraction"] + 1 /\ t = q.tenant /\ q.kind = "extraction"
      BY <1>13 DEF Limits!Kind
    <3>4. Limits!Enters(r, t) <= Limits!Enters(q, t)
          /\ (t = q.tenant /\ q.kind = "extraction" => Limits!Enters(r, t) + 1 <= Limits!Enters(q, t))
      BY <1>6
    <3> QED BY <3>1, <3>2, <3>3, <3>4, AtOnceIs
  <2>2. PICK n \in Nat \ {0} : n = Cardinality(Handler) /\ n = Limits!Cardinality(Handler)
    BY AtOnceIs, SizesAgree
  <2>3. ASSUME NEW T, NEW steps
        PROVE  /\ Limits!Queueing(T, steps) \in Nat /\ Limits!Queueing(T, steps)' \in Nat
               /\ Limits!Queueing(T, steps)' + Limits!Queues(q, T, steps) = Limits!Queueing(T, steps) + Limits!Queues(r, T, steps)
               /\ Limits!Queues(q, T, steps) \in Nat /\ Limits!Queues(r, T, steps) \in Nat
               /\ Limits!Queues(r, T, steps) <= Limits!Queues(q, T, steps)
               /\ (q.kind = "ocr" /\ q.tenant \in T /\ "submit" \in steps => Limits!Queues(r, T, steps) + 1 <= Limits!Queues(q, T, steps))
    BY <1>6, <1>10 DEF Shares, QueueMoves
  <2>4. ASSUME NEW t \in Limited
        PROVE  active'[t]["ocr"] + Limits!Queueing({t}, {"submit"})' < OcrLimit + n
    <3>1. active[t]["ocr"] + Limits!Queueing({t}, {"submit"}) < OcrLimit + n
      BY <1>11, <2>2 DEF Limits!QueuesAreBounded
    <3>2. /\ active[t]["ocr"] \in Nat
          /\ \/ active'[t]["ocr"] = active[t]["ocr"]
             \/ active'[t]["ocr"] = active[t]["ocr"] + 1 /\ t = q.tenant /\ q.kind = "ocr"
      BY <1>13 DEF Limits!Kind
    <3>3. q.kind = "ocr" /\ t = q.tenant => q.tenant \in {t} /\ "submit" \in {"submit"}
      OBVIOUS
    <3> QED BY <2>2, <2>3, <3>1, <3>2, <3>3
  <2>5. Limits!Backlog' + Limits!Queueing(Limited, {"mine", "submit"})' < OcrTotal + n
    <3>1. Limits!Backlog + Limits!Queueing(Limited, {"mine", "submit"}) < OcrTotal + n
      BY <1>11, <2>2 DEF Limits!QueuesAreBounded
    <3>2. PICK f : f = [t \in Limited |-> active[t]["ocr"]]
      OBVIOUS
    <3>3. PICK g : g = [t \in Limited |-> active'[t]["ocr"]]
      OBVIOUS
    <3>4. f \in [Limited -> Nat] /\ g \in [Limited -> Nat]
      BY <1>13, <3>2, <3>3 DEF Limits!Kind
    <3>5. (\A t \in Limited \ {q.tenant} : g[t] = f[t]) /\ (g[q.tenant] = f[q.tenant] \/ (g[q.tenant] = f[q.tenant] + 1 /\ q.kind = "ocr"))
          /\ f[q.tenant] \in Nat
      BY <1>5, <1>13, <3>2, <3>3 DEF Limits!Kind
    <3>6. /\ Limits!Total(f) \in Nat /\ Limits!Total(g) \in Nat
          /\ Limits!Total(g) + f[q.tenant] = Limits!Total(f) + g[q.tenant]
      BY <1>5, <3>4, <3>5, SumsMove
    <3>7. Limits!Backlog = Limits!Total(f) /\ Limits!Backlog' = Limits!Total(g)
      BY <3>2, <3>3 DEF Limits!Backlog, Limits!Total
    <3>8. q.kind = "ocr" => q.tenant \in Limited /\ "submit" \in {"mine", "submit"}
      BY <1>5
    <3> QED BY <2>2, <2>3, <3>1, <3>5, <3>6, <3>7, <3>8
  <2> QED BY <1>2, <2>1, <2>2, <2>4, <2>5 DEF Limits!QueuesAreBounded, Limits!AtOnce
<1> QED BY <1>2, <1>10, <1>11, <1>14, <1>15, <1>16, <1>17, <1>18 DEF Limits!LimitInv

(* What a request owes once it has written one count.                        *)
Settles(q, r, k) ==
  /\ k \in Limits!Counters /\ r \in Limits!Admission \union {Limits!Resting} /\ (r # Limits!Resting => Limits!OnCourse(r))
  /\ \A t, s : \A l \in Limits!Counters :
       /\ Limits!Owes(q, t, l, s) = IF l = k /\ t = q.tenant /\ Limits!Start(l, q.at) = s
                                    THEN Limits!Owes(r, t, l, s) + 1 ELSE Limits!Owes(r, t, l, s)
       /\ Limits!Comes(q, t, l, s) = IF l = k /\ t = q.tenant /\ Limits!Start(l, q.at) = s
                                     THEN Limits!Comes(r, t, l, s) + 1 ELSE Limits!Comes(r, t, l, s)
  /\ \A t : Limits!Enters(r, t) = 0 /\ Limits!Enters(q, t) = 0
  /\ \A T, steps : Limits!Queues(r, T, steps) = 0 /\ Limits!Queues(q, T, steps) = 0

LEMMA CountedIs ==
  ASSUME NEW q \in Limits!Admission, Limits!OnCourse(q), q.step = "count", minute \in Nat, NEW k,
         k = IF q.submissions = q.runs_per_period THEN "submissions" ELSE "runs_per_period", NEW left,
         left = [q EXCEPT ![k] = @ - 1], NEW r, r = IF left.runs_per_period = 0 THEN Limits!Resting ELSE left
  PROVE  Settles(q, r, k)
<1>0. q # Limits!Resting /\ q.kind = "extraction" /\ q.n = 0 /\ q.at \in Nat
  BY DEF Limits!Resting, Limits!OnCourse, Limits!Admission, Limits!Kind
<1>1. PICK d \in Nat : d = q.runs_per_period /\ d > 0
  BY DEF Limits!OnCourse, Limits!Admission
<1>2. PICK e \in Nat : e = q.submissions /\ e \in {d, d - 1}
  BY <1>1 DEF Limits!OnCourse, Limits!Admission
<1>3. \/ k = "submissions" /\ e = d
      \/ k = "runs_per_period" /\ e = d - 1
  BY <1>1, <1>2
<1>4. k \in Limits!Counters
  BY <1>3 DEF Limits!Counters
<1>5. PICK m \in Nat : m = d - 1
  BY <1>1
<1>6. left = [q EXCEPT ![k] = m]
  BY <1>1, <1>2, <1>3, <1>5
<1>7. left \in Limits!Admission
  BY <1>3, <1>6 DEF Limits!Admission
<1>8. /\ left.step = "count" /\ left.tenant = q.tenant /\ left.kind = "extraction" /\ left.at = q.at /\ left.n = 0
      /\ left # Limits!Resting
      /\ left.submissions = m
      /\ left.runs_per_period = IF k = "submissions" THEN d ELSE m
  BY <1>0, <1>1, <1>2, <1>3, <1>5, <1>6 DEF Limits!Admission, Limits!Resting
<1>9. \A x : "count" \in Limits!Past(x)
  BY DEF Limits!Past
<1>10. \A l \in Limits!Counters : q[l] \in Nat /\ left[l] \in Nat /\ q[l] = IF l = k THEN left[l] + 1 ELSE left[l]
  <2>1. d = m + 1 /\ (k # "submissions" => e = m)
    BY <1>1, <1>3, <1>5
  <2> QED BY <1>1, <1>2, <1>3, <1>8, <2>1 DEF Limits!Counters
<1>11. \A t, s : \A l \in Limits!Counters :
          /\ Limits!Owes(q, t, l, s) = IF t = q.tenant /\ Limits!Start(l, q.at) = s THEN q[l] ELSE 0
          /\ Limits!Comes(q, t, l, s) = IF t = q.tenant /\ Limits!Start(l, q.at) = s THEN q[l] ELSE 0
  <2>1. \A l \in Limits!Counters : q.n + q[l] = q[l]
    BY <1>0, <1>10
  <2> QED BY <1>0, <1>9, <2>1 DEF Limits!Owes, Limits!Comes
<1>12. /\ \A t : Limits!Enters(q, t) = 0 /\ Limits!Enters(left, t) = 0
       /\ \A T, steps : Limits!Queues(q, T, steps) = 0 /\ Limits!Queues(left, T, steps) = 0
  BY <1>0, <1>8 DEF Limits!Enters, Limits!Queues
<1>13. CASE left.runs_per_period = 0
  <2>1. r = Limits!Resting
    BY <1>13
  <2>2. k = "runs_per_period" /\ m = 0
    BY <1>1, <1>3, <1>8, <1>13
  <2>3. \A l \in Limits!Counters : q[l] = IF l = k THEN 1 ELSE 0
    BY <1>8, <1>10, <2>2 DEF Limits!Counters
  <2>4. \A t, s : \A l \in Limits!Counters : Limits!Owes(Limits!Resting, t, l, s) = 0 /\ Limits!Comes(Limits!Resting, t, l, s) = 0
    BY RestingShares
  <2>5. ASSUME NEW t, NEW s, NEW l \in Limits!Counters
        PROVE  /\ Limits!Owes(q, t, l, s) = IF l = k /\ t = q.tenant /\ Limits!Start(l, q.at) = s
                                            THEN Limits!Owes(Limits!Resting, t, l, s) + 1 ELSE Limits!Owes(Limits!Resting, t, l, s)
               /\ Limits!Comes(q, t, l, s) = IF l = k /\ t = q.tenant /\ Limits!Start(l, q.at) = s
                                             THEN Limits!Comes(Limits!Resting, t, l, s) + 1 ELSE Limits!Comes(Limits!Resting, t, l, s)
    <3>1. Limits!Owes(Limits!Resting, t, l, s) = 0 /\ Limits!Comes(Limits!Resting, t, l, s) = 0
      BY <2>4
    <3>2. /\ Limits!Owes(q, t, l, s) = IF l = k /\ t = q.tenant /\ Limits!Start(l, q.at) = s THEN 1 ELSE 0
          /\ Limits!Comes(q, t, l, s) = IF l = k /\ t = q.tenant /\ Limits!Start(l, q.at) = s THEN 1 ELSE 0
      BY <1>11, <2>3
    <3> QED BY <3>1, <3>2
  <2>6. Limits!Resting \in Limits!Admission \union {Limits!Resting} /\ (Limits!Resting # Limits!Resting => Limits!OnCourse(r))
    BY <2>1
  <2>7. /\ \A t : Limits!Enters(Limits!Resting, t) = 0 /\ Limits!Enters(q, t) = 0
        /\ \A T, steps : Limits!Queues(Limits!Resting, T, steps) = 0 /\ Limits!Queues(q, T, steps) = 0
    BY <1>12, RestingShares
  <2>8. Settles(q, Limits!Resting, k)
    BY <1>4, <2>5, <2>6, <2>7 DEF Settles
  <2> QED BY <2>1, <2>8
<1>14. CASE left.runs_per_period # 0
  <2>1. r = left
    BY <1>14
  <2>2. /\ left.n + left.runs_per_period <= Reruns /\ left.at <= minute
        /\ left.runs_per_period > 0 /\ left.submissions \in {left.runs_per_period, left.runs_per_period - 1}
    <3>1. q.n + d <= Reruns /\ q.at <= minute
      BY <1>1 DEF Limits!OnCourse
    <3>2. left.runs_per_period <= d /\ left.runs_per_period > 0 /\ left.runs_per_period \in Nat
      BY <1>1, <1>5, <1>8, <1>14
    <3>3. left.submissions \in {left.runs_per_period, left.runs_per_period - 1}
      BY <1>1, <1>3, <1>5, <1>8
    <3> QED BY <1>0, <1>1, <1>8, <3>1, <3>2, <3>3
  <2>3. Limits!OnCourse(left)
    <3>1. \A l \in Limits!InForce : Limits!Limit(l) > 0
      BY <1>0, <1>9 DEF Limits!OnCourse
    <3> QED BY <1>8, <2>2, <3>1 DEF Limits!OnCourse
  <2>5. ASSUME NEW t, NEW s, NEW l \in Limits!Counters
        PROVE  /\ Limits!Owes(q, t, l, s) = IF l = k /\ t = q.tenant /\ Limits!Start(l, q.at) = s
                                            THEN Limits!Owes(left, t, l, s) + 1 ELSE Limits!Owes(left, t, l, s)
               /\ Limits!Comes(q, t, l, s) = IF l = k /\ t = q.tenant /\ Limits!Start(l, q.at) = s
                                             THEN Limits!Comes(left, t, l, s) + 1 ELSE Limits!Comes(left, t, l, s)
    <3>1. q[l] \in Nat /\ left[l] \in Nat /\ q[l] = IF l = k THEN left[l] + 1 ELSE left[l]
      BY <1>10
    <3>2. /\ Limits!Owes(q, t, l, s) = IF t = q.tenant /\ Limits!Start(l, q.at) = s THEN q[l] ELSE 0
          /\ Limits!Comes(q, t, l, s) = IF t = q.tenant /\ Limits!Start(l, q.at) = s THEN q[l] ELSE 0
      BY <1>11
    <3>3. /\ Limits!Owes(left, t, l, s) = IF t = q.tenant /\ Limits!Start(l, q.at) = s THEN left[l] ELSE 0
          /\ Limits!Comes(left, t, l, s) = IF t = q.tenant /\ Limits!Start(l, q.at) = s THEN left[l] ELSE 0
      <4>1. left.n + left[l] = left[l]
        BY <1>8, <3>1
      <4>2. Limits!Owes(left, t, l, s) = IF t = q.tenant /\ Limits!Start(l, q.at) = s THEN left[l] ELSE 0
        BY <1>8 DEF Limits!Owes
      <4>3. Limits!Comes(left, t, l, s) = IF t = q.tenant /\ Limits!Start(l, q.at) = s THEN left[l] ELSE 0
        BY <1>8, <1>9, <4>1 DEF Limits!Comes
      <4> QED BY <4>2, <4>3
    <3>4. CASE l = k
      <4>1. q[l] = left[l] + 1
        BY <3>1, <3>4
      <4>2. CASE t = q.tenant /\ Limits!Start(l, q.at) = s
        BY <3>2, <3>3, <3>4, <4>1, <4>2
      <4>3. CASE ~(t = q.tenant /\ Limits!Start(l, q.at) = s)
        BY <3>2, <3>3, <4>3
      <4> QED BY <4>2, <4>3
    <3>5. CASE l # k
      <4>1. q[l] = left[l]
        BY <3>1, <3>5
      <4> QED BY <3>2, <3>3, <3>5, <4>1
    <3> QED BY <3>4, <3>5
  <2>6. left \in Limits!Admission \union {Limits!Resting} /\ (left # Limits!Resting => Limits!OnCourse(left))
    BY <1>7, <2>1, <2>3
  <2>7. /\ \A t : Limits!Enters(left, t) = 0 /\ Limits!Enters(q, t) = 0
        /\ \A T, steps : Limits!Queues(left, T, steps) = 0 /\ Limits!Queues(q, T, steps) = 0
    BY <1>12
  <2>8. Settles(q, left, k)
    BY <1>4, <2>5, <2>6, <2>7 DEF Settles
  <2> QED BY <2>1, <2>8
<1> QED BY <1>13, <1>14

LEMMA RecordKeeps ==
  ASSUME Limits!LimitInv, NEW h \in Handler, Limits!Record(h)
  PROVE  Limits!LimitInv'
<1>1. PICK q : q = requests[h]
  OBVIOUS
<1>2. /\ q.step = "count" /\ v1' = v1 /\ v2' = v2 /\ v3' = v3 /\ v6' = v6 /\ v7' = v7 /\ v8' = v8 /\ v9' = v9 /\ v10' = v10 /\ v11' = v11
  BY <1>1 DEF Limits!Record
<1>3. q # Limits!Resting
  BY <1>2 DEF Limits!Resting
<1>4. q \in Limits!Admission /\ Limits!OnCourse(q) /\ minute \in Nat /\ minute <= MaxMinutes
  BY <1>1, <1>3, OneOnCourse DEF Limits!LimitInv, Limits!TypeOK
<1>5. q.tenant \in Limited /\ q.at \in Nat /\ q.at <= minute /\ q.at <= MaxMinutes
  BY <1>4 DEF Limits!Admission, Limits!OnCourse
<1>6. PICK k : k = IF q.submissions = q.runs_per_period THEN "submissions" ELSE "runs_per_period"
  OBVIOUS
<1>7. PICK left : left = [q EXCEPT ![k] = @ - 1]
  OBVIOUS
<1>8. PICK r : r = IF left.runs_per_period = 0 THEN Limits!Resting ELSE left
  OBVIOUS
<1>9. /\ k \in Limits!Counters /\ r \in Limits!Admission \union {Limits!Resting} /\ (r # Limits!Resting => Limits!OnCourse(r))
      /\ \A t, s : \A l \in Limits!Counters :
           /\ Limits!Owes(q, t, l, s) = IF l = k /\ t = q.tenant /\ Limits!Start(l, q.at) = s
                                        THEN Limits!Owes(r, t, l, s) + 1 ELSE Limits!Owes(r, t, l, s)
           /\ Limits!Comes(q, t, l, s) = IF l = k /\ t = q.tenant /\ Limits!Start(l, q.at) = s
                                         THEN Limits!Comes(r, t, l, s) + 1 ELSE Limits!Comes(r, t, l, s)
      /\ \A t : Limits!Enters(r, t) = 0 /\ Limits!Enters(q, t) = 0
      /\ \A T, steps : Limits!Queues(r, T, steps) = 0 /\ Limits!Queues(q, T, steps) = 0
  <2>1. Settles(q, r, k)
    BY <1>2, <1>4, <1>6, <1>7, <1>8, CountedIs
  <2> QED BY <2>1 DEF Settles
<1>10. requests' = [requests EXCEPT ![h] = r] /\ counters' = Limits!Added(counters, q.tenant, k, q.at, 1)
  BY <1>1, <1>6, <1>7, <1>8 DEF Limits!Record, Limits!Become
<1>11. r # Limits!Resting => Limits!OnCourse(r)
  BY <1>9
<1>12. /\ requests' \in [Handler -> Limits!Admission \union {Limits!Resting}]
       /\ Limits!RequestsAreOnCourse'
       /\ Shares(requests[h]) /\ Shares(r)
       /\ OweMoves(requests[h], r) /\ ComeMoves(requests[h], r)
       /\ EnterMoves(requests[h], r) /\ QueueMoves(requests[h], r)
  BY <1>2, <1>9, <1>10, <1>11, OneMoves
<1>13. /\ requests' \in [Handler -> Limits!Admission \union {Limits!Resting}]
       /\ Limits!RequestsAreOnCourse'
       /\ Shares(q) /\ Shares(r)
       /\ OweMoves(q, r) /\ ComeMoves(q, r)
       /\ EnterMoves(q, r) /\ QueueMoves(q, r)
  BY <1>1, <1>12
<1>14. Limits!TypeOK /\ Limits!NothingIsEarly /\ Limits!CountsAreKept /\ Limits!WindowsAreBounded /\ Limits!QueuesAreBounded
      /\ scenario \in Scenarios
  BY DEF Limits!LimitInv
<1>15. Holds(counters', counters, q.tenant, k, q.at, 1)
  <2>1. counters \in Limits!Table /\ k \in Limits!Window /\ 1 \in Nat
    BY <1>9, <1>14, NumbersAre DEF Limits!TypeOK
  <2> QED BY <1>5, <1>10, <2>1, Adding
<1>16. /\ counters' \in Limits!Table
       /\ \A t \in Limited, l \in Limits!Window, s \in 0 .. MaxMinutes :
            counters'[t][l][s] = IF k \in scenario.policy /\ l = k /\ t = q.tenant /\ Limits!Start(l, q.at) = s
                                 THEN counters[t][l][s] + 1 ELSE counters[t][l][s]
  BY <1>15 DEF Holds
<1>17. Limits!TypeOK'
  <2>1. Limits!Table' = Limits!Table /\ Limits!Admission' = Limits!Admission /\ Limits!Resting' = Limits!Resting
    BY DEF Limits!Table, Limits!Admission, Limits!Resting, Limits!Window, Limits!Kind
  <2> QED BY <1>2, <1>13, <1>14, <1>16, <2>1 DEF Limits!TypeOK, Limits!Kind
<1>18. Limits!NothingIsEarly'
  <2>1. ASSUME NEW t \in Limited, NEW l \in Limits!Counters, NEW s \in 0 .. MaxMinutes, s > Limits!Start(l, minute)
        PROVE  counters'[t][l][s] = 0
    <3>1. Limits!Start(l, q.at) <= Limits!Start(l, minute) /\ Limits!Start(l, q.at) \in Nat /\ Limits!Start(l, minute) \in Nat
      BY <1>4, <1>5, WindowsBegin, WindowsGoOn
    <3>2. s # Limits!Start(l, q.at)
      BY <2>1, <3>1
    <3>3. counters[t][l][s] = 0 /\ l \in Limits!Window
      BY <1>14, <2>1, NumbersAre DEF Limits!NothingIsEarly
    <3> QED BY <1>16, <3>2, <3>3
  <2> QED BY <1>2, <1>14, <2>1 DEF Limits!NothingIsEarly, Limits!Start, Limits!Counters
<1>19. Limits!CountsAreKept'
  <2>1. Limits!Live' = Limits!Live /\ Limits!InForce' = Limits!InForce /\ Limits!Live \subseteq 0 .. MaxMinutes
    BY <1>2 DEF Limits!Live, Limits!InForce, Limits!Counters
  <2>2. ASSUME NEW t \in Limited, NEW l \in Limits!InForce, NEW s \in Limits!Live
        PROVE  counters'[t][l][s] + Limits!UnderWay(t, l, s)' + unwritten'[t][l][s] = admitted'[t][l][s]
    <3>1. counters[t][l][s] + Limits!UnderWay(t, l, s) + unwritten[t][l][s] = admitted[t][l][s]
      BY <1>14 DEF Limits!CountsAreKept, Limits!RunsAreCounted, Limits!InForce, Limits!Counters
    <3>2. l \in Limits!Counters /\ l \in Limits!Window /\ s \in 0 .. MaxMinutes /\ l \in scenario.policy
      BY <2>1 DEF Limits!InForce, Limits!Counters, Limits!Window
    <3>3. counters[t][l][s] \in Nat /\ unwritten[t][l][s] \in Nat /\ admitted[t][l][s] \in Nat
      BY <1>14, <3>2, NumbersAre
    <3>4. /\ Limits!UnderWay(t, l, s) \in Nat /\ Limits!UnderWay(t, l, s)' \in Nat
          /\ Limits!UnderWay(t, l, s)' + Limits!Owes(q, t, l, s) = Limits!UnderWay(t, l, s) + Limits!Owes(r, t, l, s)
      BY <1>13, <3>2 DEF OweMoves
    <3>5. Limits!Owes(r, t, l, s) \in Nat
      BY <1>13, <3>2 DEF Shares
    <3>6. \/ /\ Limits!Owes(q, t, l, s) = Limits!Owes(r, t, l, s) + 1 /\ counters'[t][l][s] = counters[t][l][s] + 1
          \/ /\ Limits!Owes(r, t, l, s) = Limits!Owes(q, t, l, s) /\ counters'[t][l][s] = counters[t][l][s]
      BY <1>9, <1>16, <3>2
    <3> QED BY <1>2, <3>1, <3>3, <3>4, <3>5, <3>6
  <2>3. \A t \in Limited, s \in Limits!Live : counters'[t]["tokens"][s] = counters[t]["tokens"][s]
    <3>1. k # "tokens" /\ "tokens" \in Limits!Window
      BY <1>9 DEF Limits!Counters, Limits!Window
    <3> QED BY <1>16, <2>1, <3>1
  <2>4. WorkerCounts => Limits!TokensAreCounted'
    BY <1>2, <1>14, <2>1, <2>3 DEF Limits!CountsAreKept, Limits!RunsAreCounted, Limits!TokensAreCounted, Limits!Total, Limits!Start
  <2> QED BY <2>1, <2>2, <2>4 DEF Limits!CountsAreKept, Limits!RunsAreCounted, Limits!InForce, Limits!Counters
<1>20. Limits!WindowsAreBounded'
  <2>1. ASSUME NEW t \in Limited, NEW l \in Limits!InForce, NEW s \in 0 .. MaxMinutes
        PROVE  counters'[t][l][s] + Limits!Coming(t, l, s)' < Limits!Limit(l) + Limits!AtOnce
    <3>1. l \in Limits!Counters /\ l \in Limits!Window /\ s \in Nat /\ l \in scenario.policy
      BY DEF Limits!InForce, Limits!Counters, Limits!Window
    <3>2. counters[t][l][s] \in Nat /\ Limits!Limit(l) \in Nat
      BY <1>14, <3>1, NumbersAre
    <3>3. counters[t][l][s] + Limits!Coming(t, l, s) < Limits!Limit(l) + Limits!AtOnce
      BY <1>14 DEF Limits!WindowsAreBounded
    <3>4. /\ Limits!Coming(t, l, s) \in Nat /\ Limits!Coming(t, l, s)' \in Nat
          /\ Limits!Coming(t, l, s)' + Limits!Comes(q, t, l, s) = Limits!Coming(t, l, s) + Limits!Comes(r, t, l, s)
      BY <1>13, <3>1 DEF ComeMoves
    <3>5. Limits!Comes(r, t, l, s) \in Nat
      BY <1>13, <3>1 DEF Shares
    <3>6. \/ /\ Limits!Comes(q, t, l, s) = Limits!Comes(r, t, l, s) + 1 /\ counters'[t][l][s] = counters[t][l][s] + 1
          \/ /\ Limits!Comes(r, t, l, s) = Limits!Comes(q, t, l, s) /\ counters'[t][l][s] = counters[t][l][s]
      BY <1>9, <1>16, <3>1
    <3> QED BY <3>2, <3>3, <3>4, <3>5, <3>6, AtOnceIs
  <2> QED BY <1>2, <2>1 DEF Limits!WindowsAreBounded, Limits!InForce, Limits!Limit, Limits!AtOnce, Limits!Counters
<1>21. Limits!QueuesAreBounded'
  <2>1. \A t : Limits!Entering(t)' = Limits!Entering(t)
    <3>1. ASSUME NEW t PROVE Limits!Entering(t)' = Limits!Entering(t)
      BY <1>9, <1>13 DEF EnterMoves
    <3> QED BY <3>1
  <2>2. \A T, steps : Limits!Queueing(T, steps)' = Limits!Queueing(T, steps)
    <3>1. ASSUME NEW T, NEW steps PROVE Limits!Queueing(T, steps)' = Limits!Queueing(T, steps)
      BY <1>9, <1>13 DEF QueueMoves
    <3> QED BY <3>1
  <2>3. Limits!Backlog' = Limits!Backlog
    BY <1>2 DEF Limits!Backlog, Limits!Total
  <2> QED BY <1>2, <1>14, <2>1, <2>2, <2>3 DEF Limits!QueuesAreBounded, Limits!AtOnce
<1> QED BY <1>2, <1>13, <1>14, <1>17, <1>18, <1>19, <1>20, <1>21 DEF Limits!LimitInv

(* Steps that move no request, and those that only make room.                *)
Numbered ==
  /\ \A t, s : \A k \in Limits!Counters : Limits!UnderWay(t, k, s) \in Nat
  /\ \A t : \A k \in Limits!Counters, s \in Nat : Limits!Coming(t, k, s) \in Nat
  /\ \A t : Limits!Entering(t) \in Nat
  /\ \A T, steps : Limits!Queueing(T, steps) \in Nat

NoneMoves ==
  /\ \A t, s : \A k \in Limits!Counters : Limits!UnderWay(t, k, s)' = Limits!UnderWay(t, k, s)
  /\ \A t : \A k \in Limits!Counters, s \in Nat : Limits!Coming(t, k, s)' = Limits!Coming(t, k, s)
  /\ \A t : Limits!Entering(t)' = Limits!Entering(t)
  /\ \A T, steps : Limits!Queueing(T, steps)' = Limits!Queueing(T, steps)

FewerCome ==
  /\ \A t \in Limited, k \in Limits!Counters, s \in 0 .. MaxMinutes : Limits!Coming(t, k, s)' \in Nat /\ Limits!Coming(t, k, s)' <= Limits!Coming(t, k, s)
  /\ \A t \in Limited : Limits!Entering(t)' \in Nat /\ Limits!Entering(t)' <= Limits!Entering(t)
  /\ \A T, steps : Limits!Queueing(T, steps)' \in Nat /\ Limits!Queueing(T, steps)' <= Limits!Queueing(T, steps)

LEMMA SumsOfRequests ==
  ASSUME Limits!LimitInv
  PROVE  Numbered
<1>1. requests \in [Handler -> Limits!Admission \union {Limits!Resting}] /\ minute \in Nat
  BY DEF Limits!LimitInv, Limits!TypeOK
<1>2. ASSUME NEW i \in Handler PROVE Shares(requests[i])
  <2>1. requests[i] \in Limits!Admission \union {Limits!Resting} /\ (requests[i] # Limits!Resting => Limits!OnCourse(requests[i]))
    BY <1>1 DEF Limits!LimitInv, Limits!RequestsAreOnCourse
  <2>2. ASSUME NEW q \in Limits!Admission \union {Limits!Resting}, q # Limits!Resting => Limits!OnCourse(q) PROVE Shares(q)
    BY <1>1, <2>2, ShareOfOne DEF Shares
  <2> QED BY <2>1, <2>2
<1>3. ASSUME NEW t, NEW s, NEW k \in Limits!Counters PROVE Limits!UnderWay(t, k, s) \in Nat
  <2>1. PICK f : f = [i \in Handler |-> Limits!Owes(requests[i], t, k, s)]
    OBVIOUS
  <2>2. f \in [Handler -> Nat]
    BY <1>2, <2>1 DEF Shares
  <2> QED BY <2>1, <2>2, SumsAreNumbers DEF Limits!UnderWay
<1>4. ASSUME NEW t, NEW k \in Limits!Counters, NEW s \in Nat PROVE Limits!Coming(t, k, s) \in Nat
  <2>1. PICK f : f = [i \in Handler |-> Limits!Comes(requests[i], t, k, s)]
    OBVIOUS
  <2>2. f \in [Handler -> Nat]
    BY <1>2, <2>1 DEF Shares
  <2> QED BY <2>1, <2>2, SumsAreNumbers DEF Limits!Coming
<1>5. ASSUME NEW t PROVE Limits!Entering(t) \in Nat
  <2>1. PICK f : f = [i \in Handler |-> Limits!Enters(requests[i], t)]
    OBVIOUS
  <2>2. f \in [Handler -> Nat]
    BY <1>2, <2>1 DEF Shares
  <2> QED BY <2>1, <2>2, SumsAreNumbers DEF Limits!Entering
<1>6. ASSUME NEW T, NEW steps PROVE Limits!Queueing(T, steps) \in Nat
  <2>1. PICK f : f = [i \in Handler |-> Limits!Queues(requests[i], T, steps)]
    OBVIOUS
  <2>2. f \in [Handler -> Nat]
    BY <1>2, <2>1 DEF Shares
  <2> QED BY <2>1, <2>2, SumsAreNumbers DEF Limits!Queueing
<1> QED BY <1>3, <1>4, <1>5, <1>6 DEF Numbered

LEMMA SumsStay ==
  ASSUME v1' = v1, v5' = v5
  PROVE  NoneMoves
<1>1. \A t, s : \A k \in Limits!Counters : Limits!UnderWay(t, k, s)' = Limits!UnderWay(t, k, s)
  BY DEF Limits!UnderWay, Limits!Owes, Limits!Total, Limits!Start, Limits!Resting
<1>2. \A t : \A k \in Limits!Counters, s \in Nat : Limits!Coming(t, k, s)' = Limits!Coming(t, k, s)
  BY DEF Limits!Coming, Limits!Comes, Limits!Total, Limits!Start, Limits!Resting, Limits!Past, Limits!Limit
<1>3. \A t : Limits!Entering(t)' = Limits!Entering(t)
  BY DEF Limits!Entering, Limits!Enters, Limits!Total, Limits!Resting
<1>4. \A T, steps : Limits!Queueing(T, steps)' = Limits!Queueing(T, steps)
  BY DEF Limits!Queueing, Limits!Queues, Limits!Total, Limits!Resting
<1> QED BY <1>1, <1>2, <1>3, <1>4 DEF NoneMoves

LEMMA BoundsStay ==
  ASSUME Limits!LimitInv, v1' = v1, FewerCome,
         \A t \in Limited, k \in Limits!Counters, s \in 0 .. MaxMinutes :
           counters'[t][k][s] \in Nat /\ counters'[t][k][s] <= counters[t][k][s],
         \A t \in Limited, x \in Limits!Kind : active'[t][x] \in Nat /\ active'[t][x] <= active[t][x]
  PROVE  Limits!WindowsAreBounded' /\ Limits!QueuesAreBounded'
<1>1. Numbered
  BY SumsOfRequests
<1>2. Limits!TypeOK /\ Limits!WindowsAreBounded /\ Limits!QueuesAreBounded
  BY DEF Limits!LimitInv
<1>3. \A t \in Limited, x \in Limits!Kind : active[t][x] \in Nat
  BY <1>2 DEF Limits!TypeOK
<1>4. Limits!WindowsAreBounded'
  <2>1. ASSUME NEW t \in Limited, NEW k \in Limits!InForce, NEW s \in 0 .. MaxMinutes
        PROVE  counters'[t][k][s] + Limits!Coming(t, k, s)' < Limits!Limit(k) + Limits!AtOnce
    <3>1. k \in Limits!Counters /\ k \in Limits!Window /\ s \in Nat /\ Limits!Limit(k) \in Nat /\ counters[t][k][s] \in Nat
      BY <1>2, NumbersAre DEF Limits!InForce
    <3>2. counters[t][k][s] + Limits!Coming(t, k, s) < Limits!Limit(k) + Limits!AtOnce
      BY <1>2 DEF Limits!WindowsAreBounded
    <3>3. /\ Limits!Coming(t, k, s) \in Nat /\ Limits!Coming(t, k, s)' \in Nat /\ Limits!Coming(t, k, s)' <= Limits!Coming(t, k, s)
      BY <1>1, <3>1 DEF Numbered, FewerCome
    <3>4. counters'[t][k][s] \in Nat /\ counters'[t][k][s] <= counters[t][k][s]
      BY <3>1
    <3> QED BY <3>1, <3>2, <3>3, <3>4, AtOnceIs
  <2> QED BY <2>1 DEF Limits!WindowsAreBounded, Limits!InForce, Limits!Limit, Limits!AtOnce, Limits!Counters
<1>5. Limits!QueuesAreBounded'
  <2>1. PICK n \in Nat \ {0} : n = Cardinality(Handler) /\ n = Limits!Cardinality(Handler)
    BY AtOnceIs, SizesAgree
  <2>2. ASSUME NEW t \in Limited, "concurrent" \in scenario.policy
        PROVE  active'[t]["extraction"] + Limits!Entering(t)' < ConcurrencyLimit + Limits!AtOnce
    <3>1. active[t]["extraction"] + Limits!Entering(t) < ConcurrencyLimit + Limits!AtOnce
      BY <1>2, <2>2 DEF Limits!QueuesAreBounded
    <3>2. Limits!Entering(t) \in Nat /\ Limits!Entering(t)' \in Nat /\ Limits!Entering(t)' <= Limits!Entering(t)
      BY <1>1 DEF Numbered, FewerCome
    <3>3. active[t]["extraction"] \in Nat /\ active'[t]["extraction"] \in Nat /\ active'[t]["extraction"] <= active[t]["extraction"]
      BY <1>3 DEF Limits!Kind
    <3> QED BY <3>1, <3>2, <3>3, AtOnceIs
  <2>3. ASSUME NEW T, NEW steps
        PROVE  /\ Limits!Queueing(T, steps) \in Nat /\ Limits!Queueing(T, steps)' \in Nat
               /\ Limits!Queueing(T, steps)' <= Limits!Queueing(T, steps)
    BY <1>1 DEF Numbered, FewerCome
  <2>4. ASSUME NEW t \in Limited
        PROVE  active'[t]["ocr"] + Limits!Queueing({t}, {"submit"})' < OcrLimit + n
    <3>1. active[t]["ocr"] + Limits!Queueing({t}, {"submit"}) < OcrLimit + n
      BY <1>2, <2>1 DEF Limits!QueuesAreBounded
    <3>2. active[t]["ocr"] \in Nat /\ active'[t]["ocr"] \in Nat /\ active'[t]["ocr"] <= active[t]["ocr"]
      BY <1>3 DEF Limits!Kind
    <3> QED BY <2>3, <3>1, <3>2
  <2>5. Limits!Backlog' + Limits!Queueing(Limited, {"mine", "submit"})' < OcrTotal + n
    <3>1. Limits!Backlog + Limits!Queueing(Limited, {"mine", "submit"}) < OcrTotal + n
      BY <1>2, <2>1 DEF Limits!QueuesAreBounded
    <3>2. PICK f : f = [t \in Limited |-> active[t]["ocr"]]
      OBVIOUS
    <3>3. PICK g : g = [t \in Limited |-> active'[t]["ocr"]]
      OBVIOUS
    <3>4. f \in [Limited -> Nat] /\ g \in [Limited -> Nat] /\ \A t \in Limited : g[t] <= f[t]
      BY <1>3, <3>2, <3>3 DEF Limits!Kind
    <3>5. Limits!Total(g) <= Limits!Total(f) /\ Limits!Total(g) \in Nat /\ Limits!Total(f) \in Nat
      BY <3>4, SumsGrow, SumsAreNumbers
    <3>6. Limits!Backlog = Limits!Total(f) /\ Limits!Backlog' = Limits!Total(g)
      BY <3>2, <3>3 DEF Limits!Backlog, Limits!Total
    <3> QED BY <2>3, <3>1, <3>5, <3>6
  <2> QED BY <2>1, <2>2, <2>4, <2>5 DEF Limits!QueuesAreBounded, Limits!AtOnce
<1> QED BY <1>4, <1>5

(* The tokens of a window that are not counted yet.                          *)
Spent(t, s) == Limits!Total([m \in 0 .. MaxMinutes |-> IF Limits!Start("tokens", m) = s THEN unspent[t][m] ELSE 0])

Spending(t, b, before, after) ==
  \A s : \A u \in Limited :
    /\ Spent(u, s) \in Nat /\ Spent(u, s)' \in Nat
    /\ u = t /\ Limits!Start("tokens", b) = s => Spent(u, s)' + before = Spent(u, s) + after
    /\ ~(u = t /\ Limits!Start("tokens", b) = s) => Spent(u, s)' = Spent(u, s)

LEMMA TokensMove ==
  ASSUME Limits!TypeOK, NEW t \in Limited, NEW b \in 0 .. MaxMinutes, NEW n \in Nat,
         unspent' = [unspent EXCEPT ![t][b] = n]
  PROVE  /\ unspent' \in [Limited -> [0 .. MaxMinutes -> Nat]] /\ unspent[t][b] \in Nat
         /\ \A u \in Limited, m \in 0 .. MaxMinutes : unspent'[u][m] = IF u = t /\ m = b THEN n ELSE unspent[u][m]
         /\ Spending(t, b, unspent[t][b], n)
<1>1. unspent \in [Limited -> [0 .. MaxMinutes -> Nat]]
  BY DEF Limits!TypeOK
<1>2. \A u \in Limited, m \in 0 .. MaxMinutes : unspent'[u][m] = IF u = t /\ m = b THEN n ELSE unspent[u][m]
  BY <1>1
<1>3. unspent' \in [Limited -> [0 .. MaxMinutes -> Nat]]
  BY <1>1
<1>4. PICK before \in Nat : before = unspent[t][b]
  BY <1>1
<1>5. PICK S : S = 0 .. MaxMinutes /\ IsFiniteSet(S)
  <2>1. 0 \in Int /\ MaxMinutes \in Int
    OBVIOUS
  <2>2. IsFiniteSet(0 .. MaxMinutes)
    BY <2>1, FS_Interval
  <2> QED BY <2>2
<1>6. ASSUME NEW u \in Limited, NEW s
      PROVE  /\ Spent(u, s) \in Nat /\ Spent(u, s)' \in Nat
             /\ u = t /\ Limits!Start("tokens", b) = s => Spent(u, s)' + before = Spent(u, s) + n
             /\ ~(u = t /\ Limits!Start("tokens", b) = s) => Spent(u, s)' = Spent(u, s)
  <2>1. PICK f : f = [m \in 0 .. MaxMinutes |-> IF Limits!Start("tokens", m) = s THEN unspent[u][m] ELSE 0]
    OBVIOUS
  <2>2. PICK g : g = [m \in 0 .. MaxMinutes |-> IF Limits!Start("tokens", m) = s THEN unspent'[u][m] ELSE 0]
    OBVIOUS
  <2>3. f \in [0 .. MaxMinutes -> Nat] /\ g \in [0 .. MaxMinutes -> Nat]
    BY <1>1, <1>3, <2>1, <2>2
  <2>4. Spent(u, s) = Limits!Total(f) /\ Spent(u, s)' = Limits!Total(g)
    BY <2>1, <2>2 DEF Spent, Limits!Total, Limits!Start
  <2>5. \A m \in (0 .. MaxMinutes) \ {b} : g[m] = f[m]
    BY <1>2, <2>1, <2>2
  <2>6. /\ Limits!Total(f) \in Nat /\ Limits!Total(g) \in Nat
        /\ Limits!Total(g) + f[b] = Limits!Total(f) + g[b]
    <3>1. f \in [S -> Nat] /\ g \in [S -> Nat] /\ b \in S /\ \A m \in S \ {b} : g[m] = f[m]
      BY <1>5, <2>3, <2>5
    <3>2. IsFiniteSet(S)
      BY <1>5
    <3> QED BY <3>1, <3>2, SumsMove
  <2>7. CASE u = t /\ Limits!Start("tokens", b) = s
    <3>1. f[b] = before /\ g[b] = n
      BY <1>2, <1>4, <2>1, <2>2, <2>7
    <3> QED BY <2>4, <2>6, <2>7, <3>1
  <2>8. CASE ~(u = t /\ Limits!Start("tokens", b) = s)
    <3>1. f[b] = g[b] /\ f[b] \in Nat
      BY <1>2, <2>1, <2>2, <2>3, <2>8
    <3> QED BY <2>4, <2>6, <2>8, <3>1
  <2> QED BY <2>7, <2>8
<1>7. Spending(t, b, before, n)
  BY <1>6 DEF Spending
<1> QED BY <1>2, <1>3, <1>4, <1>7

LEMMA TokensStay ==
  ASSUME Limits!TypeOK, v7' = v7
  PROVE  \A s : \A u \in Limited : Spent(u, s)' = Spent(u, s) /\ Spent(u, s) \in Nat
<1>1. ASSUME NEW u \in Limited, NEW s PROVE Spent(u, s) \in Nat
  <2>1. PICK f : f = [m \in 0 .. MaxMinutes |-> IF Limits!Start("tokens", m) = s THEN unspent[u][m] ELSE 0]
    OBVIOUS
  <2>2. f \in [0 .. MaxMinutes -> Nat]
    BY <2>1 DEF Limits!TypeOK
  <2>3. IsFiniteSet(0 .. MaxMinutes)
    BY FS_Interval
  <2> QED BY <2>1, <2>2, <2>3, SumsAreNumbers DEF Spent
<1>2. \A u, s : Spent(u, s)' = Spent(u, s)
  BY DEF Spent, Limits!Total, Limits!Start
<1> QED BY <1>1, <1>2

LEMMA TokensAre ==
  /\ Limits!TokensAreCounted <=> \A t \in Limited, s \in Limits!Live :
       counters[t]["tokens"][s] + unwritten[t]["tokens"][s] + Spent(t, s) = admitted[t]["tokens"][s]
  /\ Limits!TokensAreCounted' <=> \A t \in Limited, s \in Limits!Live' :
       counters'[t]["tokens"][s] + unwritten'[t]["tokens"][s] + Spent(t, s)' = admitted'[t]["tokens"][s]
BY DEF Limits!TokensAreCounted, Spent, Limits!Total, Limits!Start, Limits!Live

(* Steps that count no run leave the runs that are counted alone.            *)
LEMMA RunsStayCounted ==
  ASSUME Limits!LimitInv, v1' = v1, v5' = v5, Limits!Live' \subseteq Limits!Live,
         \A t \in Limited, k \in Limits!Counters, s \in Limits!Live :
           counters'[t][k][s] = counters[t][k][s] /\ unwritten'[t][k][s] = unwritten[t][k][s]
           /\ admitted'[t][k][s] = admitted[t][k][s],
         WorkerCounts => Limits!TokensAreCounted'
  PROVE  Limits!CountsAreKept'
<1>1. NoneMoves
  BY SumsStay
<1>2. ASSUME NEW t \in Limited, NEW k \in Limits!InForce, NEW s \in Limits!Live'
      PROVE  counters'[t][k][s] + Limits!UnderWay(t, k, s)' + unwritten'[t][k][s] = admitted'[t][k][s]
  <2>1. s \in Limits!Live /\ k \in Limits!Counters
    BY DEF Limits!InForce
  <2>2. counters[t][k][s] + Limits!UnderWay(t, k, s) + unwritten[t][k][s] = admitted[t][k][s]
    BY <2>1 DEF Limits!LimitInv, Limits!CountsAreKept, Limits!RunsAreCounted, Limits!InForce, Limits!Counters
  <2>3. Limits!UnderWay(t, k, s)' = Limits!UnderWay(t, k, s)
    BY <1>1, <2>1 DEF NoneMoves
  <2> QED BY <2>1, <2>2, <2>3
<1> QED BY <1>2 DEF Limits!CountsAreKept, Limits!RunsAreCounted, Limits!InForce, Limits!Counters

LEMMA EndRunKeeps ==
  ASSUME Limits!LimitInv, NEW t \in Limited, NEW kind \in Limits!Kind, NEW began \in 0 .. MaxMinutes,
         Limits!EndRun(t, kind, began)
  PROVE  Limits!LimitInv'
<1>1. /\ v1' = v1 /\ v3' = v3 /\ v4' = v4 /\ v5' = v5 /\ v6' = v6 /\ v8' = v8 /\ v9' = v9 /\ v11' = v11
      /\ active[t][kind] > 0 /\ active' = [active EXCEPT ![t][kind] = @ - 1]
  BY DEF Limits!EndRun
<1>2. Limits!TypeOK /\ Limits!RequestsAreOnCourse /\ Limits!NothingIsEarly /\ Limits!CountsAreKept /\ scenario \in Scenarios
  BY DEF Limits!LimitInv
<1>3. /\ active' \in [Limited -> [Limits!Kind -> Nat]]
      /\ \A u \in Limited, x \in Limits!Kind : active'[u][x] \in Nat /\ active'[u][x] <= active[u][x]
  <2>1. active \in [Limited -> [Limits!Kind -> Nat]]
    BY <1>2 DEF Limits!TypeOK
  <2>2. PICK n \in Nat : n = active[t][kind] - 1
    <3>1. active[t][kind] \in Nat
      BY <2>1
    <3>2. active[t][kind] - 1 \in Nat
      BY <1>1, <3>1
    <3> QED BY <3>2
  <2>3. n <= active[t][kind]
    <3>1. active[t][kind] \in Nat
      BY <2>1
    <3> QED BY <2>2, <3>1
  <2>4. active' = [active EXCEPT ![t][kind] = n]
    BY <1>1, <2>2
  <2> QED BY <2>1, <2>2, <2>3, <2>4
<1>4. NoneMoves /\ Numbered
  BY <1>1, SumsStay, SumsOfRequests
<1>5. FewerCome
  BY <1>4 DEF NoneMoves, Numbered, FewerCome
<1>6. Limits!WindowsAreBounded' /\ Limits!QueuesAreBounded'
  <2>1. \A u \in Limited, k \in Limits!Counters, s \in 0 .. MaxMinutes :
           counters'[u][k][s] \in Nat /\ counters'[u][k][s] <= counters[u][k][s]
    BY <1>1, <1>2, NumbersAre
  <2> QED BY <1>1, <1>3, <1>5, <2>1, BoundsStay
<1>7. Limits!RequestsAreOnCourse'
  BY <1>1, <1>2 DEF Limits!RequestsAreOnCourse, Limits!OnCourse, Limits!Resting, Limits!InForce, Limits!Limit, Limits!Past, Limits!Counters
<1>8. Limits!Live' = Limits!Live /\ Limits!Live \subseteq 0 .. MaxMinutes
  BY <1>1 DEF Limits!Live
<1>9. /\ Limits!Table' = Limits!Table /\ Limits!Admission' = Limits!Admission /\ Limits!Resting' = Limits!Resting
      /\ Limits!Table \subseteq Limits!Table
  BY DEF Limits!Table, Limits!Admission, Limits!Resting, Limits!Window, Limits!Kind
<1>10. CASE UNCHANGED <<unspent, admitted>>
  <2>1. Limits!TypeOK'
    BY <1>1, <1>2, <1>3, <1>9, <1>10 DEF Limits!TypeOK, Limits!Kind
  <2>2. Limits!NothingIsEarly'
    BY <1>1, <1>2, <1>10 DEF Limits!NothingIsEarly, Limits!Start, Limits!Counters
  <2>3. WorkerCounts => Limits!TokensAreCounted'
    BY <1>1, <1>2, <1>8, <1>10, TokensAre, TokensStay DEF Limits!CountsAreKept, Limits!RunsAreCounted
  <2>4. Limits!CountsAreKept'
    BY <1>1, <1>8, <1>10, <2>3, RunsStayCounted
  <2> QED BY <1>1, <1>2, <1>6, <1>7, <2>1, <2>2, <2>4 DEF Limits!LimitInv
<1>11. CASE /\ WorkerCounts /\ "tokens" \in scenario.policy /\ admitted' = Limits!Added(admitted, t, "tokens", began, 1)
            /\ unspent' = [unspent EXCEPT ![t][began] = @ + 1]
  <2>1. Holds(admitted', admitted, t, "tokens", began, 1)
    <3>1. admitted \in Limits!Table /\ "tokens" \in Limits!Window /\ 1 \in Nat /\ began \in Nat /\ began <= MaxMinutes
      BY <1>2 DEF Limits!TypeOK, Limits!Window
    <3> QED BY <1>11, <3>1, Adding
  <2>2. PICK n \in Nat : n = unspent[t][began] + 1
    <3>1. unspent[t][began] \in Nat
      BY <1>2 DEF Limits!TypeOK
    <3> QED BY <3>1
  <2>3. unspent' = [unspent EXCEPT ![t][began] = n]
    BY <1>11, <2>2
  <2>4. /\ unspent' \in [Limited -> [0 .. MaxMinutes -> Nat]] /\ unspent[t][began] \in Nat
        /\ Spending(t, began, unspent[t][began], n)
    BY <1>2, <2>3, TokensMove
  <2>5. Limits!TypeOK'
    BY <1>1, <1>2, <1>3, <1>9, <2>1, <2>4 DEF Limits!TypeOK, Limits!Kind, Holds
  <2>6. Limits!NothingIsEarly'
    BY <1>1, <1>2, <1>11 DEF Limits!NothingIsEarly, Limits!Start, Limits!Counters
  <2>7. Limits!TokensAreCounted'
    <3>1. ASSUME NEW u \in Limited, NEW s \in Limits!Live
          PROVE  counters'[u]["tokens"][s] + unwritten'[u]["tokens"][s] + Spent(u, s)' = admitted'[u]["tokens"][s]
      <4>1. s \in 0 .. MaxMinutes /\ "tokens" \in Limits!Window
        BY <1>8 DEF Limits!Window
      <4>2. counters[u]["tokens"][s] \in Nat /\ unwritten[u]["tokens"][s] \in Nat /\ admitted[u]["tokens"][s] \in Nat
        BY <1>2, <4>1, NumbersAre
      <4>3. counters[u]["tokens"][s] + unwritten[u]["tokens"][s] + Spent(u, s) = admitted[u]["tokens"][s]
        BY <1>2, <1>11, TokensAre DEF Limits!CountsAreKept
      <4>4. admitted'[u]["tokens"][s] = IF u = t /\ s = Limits!Start("tokens", began)
                                        THEN admitted[u]["tokens"][s] + 1 ELSE admitted[u]["tokens"][s]
        BY <1>11, <2>1, <4>1 DEF Holds
      <4>5. /\ Spent(u, s) \in Nat /\ Spent(u, s)' \in Nat
            /\ u = t /\ Limits!Start("tokens", began) = s => Spent(u, s)' + unspent[t][began] = Spent(u, s) + n
            /\ ~(u = t /\ Limits!Start("tokens", began) = s) => Spent(u, s)' = Spent(u, s)
        BY <2>4 DEF Spending
      <4>6. \/ admitted'[u]["tokens"][s] = admitted[u]["tokens"][s] + 1 /\ Spent(u, s)' = Spent(u, s) + 1
            \/ admitted'[u]["tokens"][s] = admitted[u]["tokens"][s] /\ Spent(u, s)' = Spent(u, s)
        <5>1. CASE u = t /\ Limits!Start("tokens", began) = s
          <6>1. admitted'[u]["tokens"][s] = admitted[u]["tokens"][s] + 1
            BY <4>4, <5>1
          <6>2. Spent(u, s)' + unspent[t][began] = Spent(u, s) + n
            BY <4>5, <5>1
          <6>3. PICK x \in Nat : x = unspent[t][began]
            BY <2>4
          <6>4. Spent(u, s)' = Spent(u, s) + 1
            BY <2>2, <4>5, <6>2, <6>3
          <6> QED BY <6>1, <6>4
        <5>2. CASE ~(u = t /\ Limits!Start("tokens", began) = s)
          BY <4>4, <4>5, <5>2
        <5> QED BY <5>1, <5>2
      <4> QED BY <1>1, <4>2, <4>3, <4>5, <4>6
    <3> QED BY <1>8, <3>1, TokensAre
  <2>8. Limits!CountsAreKept'
    <3>1. ASSUME NEW u \in Limited, NEW k \in Limits!Counters, NEW s \in Limits!Live PROVE admitted'[u][k][s] = admitted[u][k][s]
      <4>1. k # "tokens" /\ k \in Limits!Window /\ s \in 0 .. MaxMinutes
        BY <1>8 DEF Limits!Counters, Limits!Window
      <4> QED BY <2>1, <4>1 DEF Holds
    <3> QED BY <1>1, <1>8, <2>7, <3>1, RunsStayCounted
  <2> QED BY <1>1, <1>2, <1>6, <1>7, <2>5, <2>6, <2>8 DEF Limits!LimitInv
<1>12. CASE ~WorkerCounts /\ unspent' = unspent /\ admitted' = Limits!Added(admitted, t, "tokens", began, 1)
  <2>1. Holds(admitted', admitted, t, "tokens", began, 1)
    <3>1. admitted \in Limits!Table /\ "tokens" \in Limits!Window /\ 1 \in Nat /\ began \in Nat /\ began <= MaxMinutes
      BY <1>2 DEF Limits!TypeOK, Limits!Window
    <3> QED BY <1>12, <3>1, Adding
  <2>2. Limits!TypeOK'
    BY <1>1, <1>2, <1>3, <1>9, <1>12, <2>1 DEF Limits!TypeOK, Limits!Kind, Holds
  <2>3. Limits!NothingIsEarly'
    BY <1>1, <1>2, <1>12 DEF Limits!NothingIsEarly, Limits!Start, Limits!Counters
  <2>4. Limits!CountsAreKept'
    <3>1. ASSUME NEW u \in Limited, NEW k \in Limits!Counters, NEW s \in Limits!Live PROVE admitted'[u][k][s] = admitted[u][k][s]
      <4>1. k # "tokens" /\ k \in Limits!Window /\ s \in 0 .. MaxMinutes
        BY <1>8 DEF Limits!Counters, Limits!Window
      <4> QED BY <2>1, <4>1 DEF Holds
    <3> QED BY <1>1, <1>8, <1>12, <3>1, RunsStayCounted
  <2> QED BY <1>1, <1>2, <1>6, <1>7, <2>2, <2>3, <2>4 DEF Limits!LimitInv
<1> QED BY <1>10, <1>11, <1>12 DEF Limits!EndRun

LEMMA RecordTokensKeeps ==
  ASSUME Limits!LimitInv, NEW t \in Limited, NEW began \in 0 .. MaxMinutes, Limits!RecordTokens(t, began)
  PROVE  Limits!LimitInv'
<1>1. /\ v1' = v1 /\ v2' = v2 /\ v3' = v3 /\ v5' = v5 /\ v6' = v6 /\ v8' = v8 /\ v10' = v10
      /\ unspent[t][began] > 0 /\ unspent' = [unspent EXCEPT ![t][began] = @ - 1]
  BY DEF Limits!RecordTokens
<1>2. Limits!TypeOK /\ Limits!RequestsAreOnCourse /\ Limits!NothingIsEarly /\ Limits!CountsAreKept /\ scenario \in Scenarios
  BY DEF Limits!LimitInv
<1>3. "tokens" \in scenario.policy /\ "tokens" \in Limits!Window
  BY <1>1, <1>2 DEF Limits!NothingIsEarly, Limits!Window
<1>4. PICK x \in Nat : x = unspent[t][began] /\ x > 0
  <2>1. unspent[t][began] \in Nat
    BY <1>2 DEF Limits!TypeOK
  <2> QED BY <1>1, <2>1
<1>5. PICK n \in Nat : x = n + 1
  <2>1. x - 1 \in Nat /\ x = (x - 1) + 1
    BY <1>4
  <2> QED BY <2>1
<1>6. unspent' = [unspent EXCEPT ![t][began] = n]
  <2>1. unspent[t][began] - 1 = n
    BY <1>4, <1>5
  <2> QED BY <1>1, <2>1
<1>7. /\ unspent' \in [Limited -> [0 .. MaxMinutes -> Nat]]
      /\ \A u \in Limited, m \in 0 .. MaxMinutes : unspent'[u][m] = IF u = t /\ m = began THEN n ELSE unspent[u][m]
      /\ Spending(t, began, x, n)
  <2>1. /\ unspent' \in [Limited -> [0 .. MaxMinutes -> Nat]] /\ unspent[t][began] \in Nat
        /\ \A u \in Limited, m \in 0 .. MaxMinutes : unspent'[u][m] = IF u = t /\ m = began THEN n ELSE unspent[u][m]
        /\ Spending(t, began, unspent[t][began], n)
    BY <1>2, <1>6, TokensMove
  <2> QED BY <1>4, <2>1
<1>8. /\ counters \in Limits!Table /\ unwritten \in Limits!Table
      /\ \/ /\ Holds(counters', counters, t, "tokens", began, 1) /\ unwritten' = unwritten /\ losses' = losses
         \/ /\ Holds(unwritten', unwritten, t, "tokens", began, 1) /\ counters' = counters
            /\ losses < MaxFaults /\ losses' = losses + 1
  <2>1. counters \in Limits!Table /\ unwritten \in Limits!Table /\ 1 \in Nat /\ began \in Nat /\ began <= MaxMinutes
    BY <1>2 DEF Limits!TypeOK
  <2>2. Holds(Limits!Added(counters, t, "tokens", began, 1), counters, t, "tokens", began, 1)
    BY <1>3, <2>1, Adding
  <2>3. Holds(Limits!Added(unwritten, t, "tokens", began, 1), unwritten, t, "tokens", began, 1)
    BY <1>3, <2>1, Adding
  <2> QED BY <2>1, <2>2, <2>3 DEF Limits!RecordTokens
<1>9. /\ counters' \in Limits!Table /\ unwritten' \in Limits!Table
      /\ \A u \in Limited, k \in Limits!Counters, s \in 0 .. MaxMinutes :
           counters'[u][k][s] = counters[u][k][s] /\ unwritten'[u][k][s] = unwritten[u][k][s]
  <2>1. ASSUME NEW k \in Limits!Counters PROVE k # "tokens" /\ k \in Limits!Window
    BY DEF Limits!Counters, Limits!Window
  <2> QED BY <1>8, <2>1 DEF Holds
<1>10. NoneMoves /\ Numbered
  BY <1>1, SumsStay, SumsOfRequests
<1>11. FewerCome
  BY <1>10 DEF NoneMoves, Numbered, FewerCome
<1>12. Limits!WindowsAreBounded' /\ Limits!QueuesAreBounded'
  <2>1. \A u \in Limited, k \in Limits!Counters, s \in 0 .. MaxMinutes :
           counters'[u][k][s] \in Nat /\ counters'[u][k][s] <= counters[u][k][s]
    BY <1>2, <1>9, NumbersAre
  <2>2. \A u \in Limited, y \in Limits!Kind : active'[u][y] \in Nat /\ active'[u][y] <= active[u][y]
    BY <1>1, <1>2 DEF Limits!TypeOK
  <2> QED BY <1>1, <1>11, <2>1, <2>2, BoundsStay
<1>13. Limits!RequestsAreOnCourse'
  BY <1>1, <1>2 DEF Limits!RequestsAreOnCourse, Limits!OnCourse, Limits!Resting, Limits!InForce, Limits!Limit, Limits!Past, Limits!Counters
<1>14. Limits!Live' = Limits!Live /\ Limits!Live \subseteq 0 .. MaxMinutes
  BY <1>1 DEF Limits!Live
<1>15. Limits!TypeOK'
  <2>1. Limits!Table' = Limits!Table /\ Limits!Admission' = Limits!Admission /\ Limits!Resting' = Limits!Resting
    BY DEF Limits!Table, Limits!Admission, Limits!Resting, Limits!Window, Limits!Kind
  <2>2. losses' \in 0 .. MaxFaults
    <3>1. losses \in 0 .. MaxFaults
      BY <1>2 DEF Limits!TypeOK
    <3> QED BY <1>8, <3>1
  <2> QED BY <1>1, <1>2, <1>7, <1>9, <2>1, <2>2 DEF Limits!TypeOK, Limits!Kind
<1>16. Limits!NothingIsEarly'
  BY <1>1, <1>2, <1>3, <1>9 DEF Limits!NothingIsEarly, Limits!Start, Limits!Counters
<1>17. WorkerCounts => Limits!TokensAreCounted'
  <2> SUFFICES ASSUME WorkerCounts PROVE Limits!TokensAreCounted'
    OBVIOUS
  <2>1. ASSUME NEW u \in Limited, NEW s \in Limits!Live
        PROVE  counters'[u]["tokens"][s] + unwritten'[u]["tokens"][s] + Spent(u, s)' = admitted'[u]["tokens"][s]
    <3>1. s \in 0 .. MaxMinutes
      BY <1>14
    <3>2. counters[u]["tokens"][s] \in Nat /\ unwritten[u]["tokens"][s] \in Nat /\ admitted[u]["tokens"][s] \in Nat
      BY <1>2, <1>3, <3>1, NumbersAre
    <3>3. counters[u]["tokens"][s] + unwritten[u]["tokens"][s] + Spent(u, s) = admitted[u]["tokens"][s]
      BY <1>2, TokensAre DEF Limits!CountsAreKept, Limits!RunsAreCounted
    <3>4. /\ Spent(u, s) \in Nat /\ Spent(u, s)' \in Nat
          /\ u = t /\ Limits!Start("tokens", began) = s => Spent(u, s)' + x = Spent(u, s) + n
          /\ ~(u = t /\ Limits!Start("tokens", began) = s) => Spent(u, s)' = Spent(u, s)
      BY <1>7 DEF Spending
    <3>5. CASE u = t /\ Limits!Start("tokens", began) = s
      <4>1. \/ counters'[u]["tokens"][s] = counters[u]["tokens"][s] + 1 /\ unwritten'[u]["tokens"][s] = unwritten[u]["tokens"][s]
            \/ unwritten'[u]["tokens"][s] = unwritten[u]["tokens"][s] + 1 /\ counters'[u]["tokens"][s] = counters[u]["tokens"][s]
        BY <1>3, <1>8, <3>1, <3>5 DEF Holds
      <4>2. Spent(u, s) = Spent(u, s)' + 1
        BY <1>5, <3>4, <3>5
      <4> QED BY <1>1, <3>2, <3>3, <3>4, <4>1, <4>2
    <3>6. CASE ~(u = t /\ Limits!Start("tokens", began) = s)
      <4>1. counters'[u]["tokens"][s] = counters[u]["tokens"][s] /\ unwritten'[u]["tokens"][s] = unwritten[u]["tokens"][s]
        BY <1>3, <1>8, <3>1, <3>6 DEF Holds
      <4> QED BY <1>1, <3>3, <3>4, <3>6, <4>1
    <3> QED BY <3>5, <3>6
  <2> QED BY <1>14, <2>1, TokensAre
<1>18. Limits!CountsAreKept'
  BY <1>1, <1>9, <1>14, <1>17, RunsStayCounted
<1> QED BY <1>1, <1>2, <1>12, <1>13, <1>15, <1>16, <1>18 DEF Limits!LimitInv

(* A window that is read again is not expired, and a later minute only lets  *)
(* windows go.                                                               *)
LEMMA ExpireKeeps ==
  ASSUME Limits!LimitInv, Limits!Expire
  PROVE  Limits!LimitInv'
<1>1. /\ v1' = v1 /\ v2' = v2 /\ v3' = v3 /\ v5' = v5 /\ v6' = v6 /\ v7' = v7 /\ v8' = v8 /\ v9' = v9 /\ v10' = v10 /\ v11' = v11
      /\ counters' = [t \in Limited |-> [k \in Limits!Window |-> [s \in 0 .. MaxMinutes |->
                        IF s + Limits!Keep < minute THEN 0 ELSE counters[t][k][s]]]]
  BY DEF Limits!Expire
<1>2. Limits!TypeOK /\ Limits!RequestsAreOnCourse /\ Limits!NothingIsEarly /\ Limits!CountsAreKept /\ scenario \in Scenarios
  BY DEF Limits!LimitInv
<1>3. counters' \in Limits!Table
      /\ \A t \in Limited, k \in Limits!Window, s \in 0 .. MaxMinutes :
           counters'[t][k][s] = IF s + Limits!Keep < minute THEN 0 ELSE counters[t][k][s]
  <2>1. \A t \in Limited, k \in Limits!Window, s \in 0 .. MaxMinutes : counters[t][k][s] \in Nat
    BY <1>2, NumbersAre
  <2> QED BY <1>1, <2>1 DEF Limits!Table
<1>4. Limits!Live' = Limits!Live /\ Limits!Live \subseteq 0 .. MaxMinutes
      /\ \A s \in Limits!Live : ~(s + Limits!Keep < minute)
  <2>1. minute \in Nat
    BY <1>2 DEF Limits!TypeOK
  <2>2. PICK b \in Nat : b = Period
    OBVIOUS
  <2>3. Limits!Keep = b + b
    BY <2>2 DEF Limits!Keep
  <2> QED BY <1>1, <2>1, <2>2, <2>3 DEF Limits!Live
<1>5. \A t \in Limited, k \in Limits!Window, s \in Limits!Live : counters'[t][k][s] = counters[t][k][s]
  BY <1>3, <1>4
<1>6. \A k \in Limits!Counters : k \in Limits!Window
  BY DEF Limits!Counters, Limits!Window
<1>7. NoneMoves /\ Numbered
  BY <1>1, SumsStay, SumsOfRequests
<1>8. FewerCome
  BY <1>7 DEF NoneMoves, Numbered, FewerCome
<1>9. Limits!WindowsAreBounded' /\ Limits!QueuesAreBounded'
  <2>1. ASSUME NEW t \in Limited, NEW k \in Limits!Counters, NEW s \in 0 .. MaxMinutes
        PROVE  counters'[t][k][s] \in Nat /\ counters'[t][k][s] <= counters[t][k][s]
    <3>1. counters[t][k][s] \in Nat
      BY <1>2, <1>6, NumbersAre
    <3>2. counters'[t][k][s] \in {0, counters[t][k][s]}
      BY <1>3, <1>6
    <3> QED BY <3>1, <3>2
  <2>2. \A t \in Limited, x \in Limits!Kind : active'[t][x] \in Nat /\ active'[t][x] <= active[t][x]
    BY <1>1, <1>2 DEF Limits!TypeOK
  <2> QED BY <1>1, <1>8, <2>1, <2>2, BoundsStay
<1>10. Limits!RequestsAreOnCourse'
  BY <1>1, <1>2 DEF Limits!RequestsAreOnCourse, Limits!OnCourse, Limits!Resting, Limits!InForce, Limits!Limit, Limits!Past, Limits!Counters
<1>11. Limits!TypeOK'
  <2>1. Limits!Table' = Limits!Table /\ Limits!Admission' = Limits!Admission /\ Limits!Resting' = Limits!Resting
    BY DEF Limits!Table, Limits!Admission, Limits!Resting, Limits!Window, Limits!Kind
  <2> QED BY <1>1, <1>2, <1>3, <2>1 DEF Limits!TypeOK, Limits!Kind
<1>12. Limits!NothingIsEarly'
  BY <1>1, <1>2, <1>3, <1>6 DEF Limits!NothingIsEarly, Limits!Start, Limits!Counters
<1>13. WorkerCounts => Limits!TokensAreCounted'
  <2>1. "tokens" \in Limits!Window
    BY DEF Limits!Window
  <2> QED BY <1>1, <1>2, <1>4, <1>5, <2>1, TokensAre, TokensStay DEF Limits!CountsAreKept, Limits!RunsAreCounted
<1>14. Limits!CountsAreKept'
  BY <1>1, <1>4, <1>5, <1>6, <1>13, RunsStayCounted
<1> QED BY <1>1, <1>2, <1>9, <1>10, <1>11, <1>12, <1>14 DEF Limits!LimitInv

LEMMA TickKeeps ==
  ASSUME Limits!LimitInv, Limits!Tick
  PROVE  Limits!LimitInv'
<1>1. /\ v1' = v1 /\ v2' = v2 /\ v3' = v3 /\ v4' = v4 /\ v5' = v5 /\ v6' = v6 /\ v7' = v7 /\ v9' = v9 /\ v10' = v10 /\ v11' = v11
      /\ minute < scenario.minutes /\ minute' = minute + 1
  BY DEF Limits!Tick
<1>2. Limits!TypeOK /\ Limits!RequestsAreOnCourse /\ Limits!NothingIsEarly /\ Limits!CountsAreKept /\ scenario \in Scenarios
  BY DEF Limits!LimitInv
<1>3. minute \in 0 .. MaxMinutes /\ minute' \in 0 .. MaxMinutes
  <2>1. minute \in 0 .. MaxMinutes /\ scenario.minutes \in 0 .. MaxMinutes
    BY <1>2 DEF Limits!TypeOK
  <2> QED BY <1>1, <2>1
<1>4. Limits!Live' \subseteq Limits!Live /\ Limits!Live \subseteq 0 .. MaxMinutes
  BY <1>1, <1>3 DEF Limits!Live
<1>5. NoneMoves /\ Numbered
  BY <1>1, SumsStay, SumsOfRequests
<1>6. FewerCome
  BY <1>5 DEF NoneMoves, Numbered, FewerCome
<1>7. Limits!WindowsAreBounded' /\ Limits!QueuesAreBounded'
  <2>1. \A t \in Limited, k \in Limits!Counters, s \in 0 .. MaxMinutes :
           counters'[t][k][s] \in Nat /\ counters'[t][k][s] <= counters[t][k][s]
    BY <1>1, <1>2, NumbersAre
  <2>2. \A t \in Limited, x \in Limits!Kind : active'[t][x] \in Nat /\ active'[t][x] <= active[t][x]
    BY <1>1, <1>2 DEF Limits!TypeOK
  <2> QED BY <1>1, <1>6, <2>1, <2>2, BoundsStay
<1>8. Limits!RequestsAreOnCourse'
  <2>1. ASSUME NEW h \in Handler, requests[h] # Limits!Resting
        PROVE  requests[h].at <= minute /\ requests[h].at \in Nat /\ requests[h].at <= minute'
    <3>1. requests[h].at <= minute /\ requests[h].at \in Nat
      BY <1>2, <2>1 DEF Limits!RequestsAreOnCourse, Limits!OnCourse, Limits!TypeOK, Limits!Admission
    <3> QED BY <1>1, <1>3, <3>1
  <2> QED BY <1>1, <1>2, <2>1 DEF Limits!RequestsAreOnCourse, Limits!OnCourse, Limits!Resting, Limits!InForce, Limits!Limit, Limits!Past, Limits!Counters
<1>9. Limits!TypeOK'
  <2>1. Limits!Table' = Limits!Table /\ Limits!Admission' = Limits!Admission /\ Limits!Resting' = Limits!Resting
    BY DEF Limits!Table, Limits!Admission, Limits!Resting, Limits!Window, Limits!Kind
  <2> QED BY <1>1, <1>2, <1>3, <2>1 DEF Limits!TypeOK, Limits!Kind
<1>10. Limits!NothingIsEarly'
  <2>1. ASSUME NEW t \in Limited, NEW k \in Limits!Counters, NEW s \in 0 .. MaxMinutes, s > Limits!Start(k, minute')
        PROVE  counters[t][k][s] = 0
    <3>1. PICK m \in Nat : m = minute
      BY <1>3
    <3>2. Limits!Start(k, m) <= Limits!Start(k, m + 1) /\ Limits!Start(k, m) \in Nat /\ Limits!Start(k, m + 1) \in Nat
      <4>1. m + 1 \in Nat /\ m <= m + 1
        OBVIOUS
      <4> QED BY <4>1, WindowsBegin, WindowsGoOn
    <3>3. s > Limits!Start(k, minute)
      BY <1>1, <2>1, <3>1, <3>2
    <3> QED BY <1>2, <3>3 DEF Limits!NothingIsEarly
  <2> QED BY <1>1, <1>2, <2>1 DEF Limits!NothingIsEarly, Limits!Start, Limits!Counters
<1>11. WorkerCounts => Limits!TokensAreCounted'
  BY <1>1, <1>2, <1>4, TokensAre, TokensStay DEF Limits!CountsAreKept, Limits!RunsAreCounted
<1>12. Limits!CountsAreKept'
  BY <1>1, <1>4, <1>11, RunsStayCounted
<1> QED BY <1>1, <1>2, <1>7, <1>8, <1>9, <1>10, <1>12 DEF Limits!LimitInv

(* What a request owed when its process died is written off.                 *)
LEMMA FailKeeps ==
  ASSUME Limits!LimitInv, NEW h \in Handler, Limits!Fail(h)
  PROVE  Limits!LimitInv'
<1>1. PICK q : q = requests[h]
  OBVIOUS
<1>2. /\ q.step \in {"submit", "count"} /\ v1' = v1 /\ v2' = v2 /\ v3' = v3 /\ v4' = v4 /\ v6' = v6 /\ v7' = v7 /\ v8' = v8 /\ v10' = v10
      /\ losses < MaxFaults /\ losses' = losses + 1
  BY <1>1 DEF Limits!Fail
<1>3. q # Limits!Resting
  BY <1>2 DEF Limits!Resting
<1>4. q \in Limits!Admission /\ Limits!OnCourse(q) /\ minute \in Nat /\ minute <= MaxMinutes
  BY <1>1, <1>3, OneOnCourse DEF Limits!LimitInv, Limits!TypeOK
<1>5. q.tenant \in Limited /\ q.at \in Nat /\ q.at <= minute /\ q.at <= MaxMinutes /\ q.submissions \in Nat /\ q.runs_per_period \in Nat
  BY <1>4 DEF Limits!Admission, Limits!OnCourse
<1>6. PICK r : r = Limits!Resting
  OBVIOUS
<1>7. requests' = [requests EXCEPT ![h] = r] /\ r \in Limits!Admission \union {Limits!Resting} /\ (r # Limits!Resting => Limits!OnCourse(r))
  BY <1>6 DEF Limits!Fail, Limits!Answer, Limits!Become
<1>8. /\ requests' \in [Handler -> Limits!Admission \union {Limits!Resting}]
       /\ Limits!RequestsAreOnCourse'
       /\ Shares(requests[h]) /\ Shares(r)
       /\ OweMoves(requests[h], r) /\ ComeMoves(requests[h], r)
       /\ EnterMoves(requests[h], r) /\ QueueMoves(requests[h], r)
  BY <1>2, <1>7, OneMoves
<1>9. /\ requests' \in [Handler -> Limits!Admission \union {Limits!Resting}]
       /\ Limits!RequestsAreOnCourse'
       /\ Shares(q) /\ Shares(r)
       /\ OweMoves(q, r) /\ ComeMoves(q, r)
       /\ EnterMoves(q, r) /\ QueueMoves(q, r)
  BY <1>1, <1>8
<1>10. Limits!TypeOK /\ Limits!NothingIsEarly /\ Limits!CountsAreKept /\ Limits!WindowsAreBounded /\ Limits!QueuesAreBounded
      /\ scenario \in Scenarios
  BY DEF Limits!LimitInv
<1>11. PICK mid \in Limits!Table :
          /\ Holds(mid, unwritten, q.tenant, "submissions", q.at, q.submissions)
          /\ Holds(unwritten', mid, q.tenant, "runs_per_period", q.at, q.runs_per_period)
  <2>1. PICK mid : mid = Limits!Added(unwritten, q.tenant, "submissions", q.at, q.submissions)
    OBVIOUS
  <2>2. unwritten \in Limits!Table /\ "submissions" \in Limits!Window /\ "runs_per_period" \in Limits!Window
    BY <1>10 DEF Limits!TypeOK, Limits!Window
  <2>3. Holds(mid, unwritten, q.tenant, "submissions", q.at, q.submissions)
    BY <1>5, <2>1, <2>2, Adding
  <2>4. mid \in Limits!Table
    BY <2>3 DEF Holds
  <2>5. unwritten' = Limits!Added(mid, q.tenant, "runs_per_period", q.at, q.runs_per_period)
    BY <1>1, <2>1 DEF Limits!Fail
  <2>6. Holds(unwritten', mid, q.tenant, "runs_per_period", q.at, q.runs_per_period)
    BY <1>5, <2>2, <2>4, <2>5, Adding
  <2> QED BY <2>3, <2>4, <2>6
<1>12. /\ unwritten' \in Limits!Table
       /\ \A t \in Limited, s \in 0 .. MaxMinutes : unwritten'[t]["tokens"][s] = unwritten[t]["tokens"][s]
  <2>1. "tokens" \in Limits!Window
    BY DEF Limits!Window
  <2> QED BY <1>11, <2>1 DEF Holds
<1>13. ASSUME NEW t \in Limited, NEW k \in Limits!InForce, NEW s \in 0 .. MaxMinutes
       PROVE  unwritten'[t][k][s] = unwritten[t][k][s] + Limits!Owes(q, t, k, s)
  <2>1. k \in {"submissions", "runs_per_period"} /\ k \in scenario.policy /\ k \in Limits!Window
    BY DEF Limits!InForce, Limits!Counters, Limits!Window
  <2>2. unwritten[t][k][s] \in Nat
    BY <1>10, <2>1, NumbersAre
  <2>3. CASE t = q.tenant /\ Limits!Start(k, q.at) = s
    <3>1. Limits!Owes(q, t, k, s) = q[k]
      BY <1>3, <2>3 DEF Limits!Owes
    <3>2. unwritten'[t][k][s] = unwritten[t][k][s] + q[k]
      <4>1. CASE k = "submissions"
        <5>1. unwritten'[t][k][s] = mid[t][k][s]
          BY <1>11, <2>1, <4>1 DEF Holds
        <5>2. mid[t][k][s] = unwritten[t][k][s] + q.submissions
          BY <1>11, <2>1, <2>3, <4>1 DEF Holds
        <5> QED BY <4>1, <5>1, <5>2
      <4>2. CASE k = "runs_per_period"
        <5>1. unwritten'[t][k][s] = mid[t][k][s] + q.runs_per_period
          BY <1>11, <2>1, <2>3, <4>2 DEF Holds
        <5>2. mid[t][k][s] = unwritten[t][k][s]
          BY <1>11, <2>1, <4>2 DEF Holds
        <5> QED BY <4>2, <5>1, <5>2
      <4> QED BY <2>1, <4>1, <4>2
    <3> QED BY <3>1, <3>2
  <2>4. CASE ~(t = q.tenant /\ Limits!Start(k, q.at) = s)
    <3>1. Limits!Owes(q, t, k, s) = 0
      BY <2>4 DEF Limits!Owes
    <3>2. unwritten'[t][k][s] = unwritten[t][k][s]
      BY <1>11, <2>1, <2>4 DEF Holds
    <3> QED BY <2>2, <3>1, <3>2
  <2> QED BY <2>3, <2>4
<1>14. Limits!TypeOK'
  <2>1. Limits!Table' = Limits!Table /\ Limits!Admission' = Limits!Admission /\ Limits!Resting' = Limits!Resting
    BY DEF Limits!Table, Limits!Admission, Limits!Resting, Limits!Window, Limits!Kind
  <2>2. losses' \in 0 .. MaxFaults
    <3>1. losses \in 0 .. MaxFaults
      BY <1>10 DEF Limits!TypeOK
    <3> QED BY <1>2, <3>1
  <2> QED BY <1>2, <1>9, <1>10, <1>12, <2>1, <2>2 DEF Limits!TypeOK, Limits!Kind
<1>15. Limits!NothingIsEarly'
  BY <1>2, <1>10 DEF Limits!NothingIsEarly, Limits!Start, Limits!Counters
<1>16. Limits!CountsAreKept'
  <2>1. Limits!Live' = Limits!Live /\ Limits!InForce' = Limits!InForce /\ Limits!Live \subseteq 0 .. MaxMinutes
    BY <1>2 DEF Limits!Live, Limits!InForce, Limits!Counters
  <2>2. ASSUME NEW t \in Limited, NEW k \in Limits!InForce, NEW s \in Limits!Live
        PROVE  counters'[t][k][s] + Limits!UnderWay(t, k, s)' + unwritten'[t][k][s] = admitted'[t][k][s]
    <3>1. counters[t][k][s] + Limits!UnderWay(t, k, s) + unwritten[t][k][s] = admitted[t][k][s]
      BY <1>10 DEF Limits!CountsAreKept, Limits!RunsAreCounted, Limits!InForce, Limits!Counters
    <3>2. k \in Limits!Counters /\ k \in Limits!Window /\ s \in 0 .. MaxMinutes
      BY <2>1 DEF Limits!InForce, Limits!Counters, Limits!Window
    <3>3. counters[t][k][s] \in Nat /\ unwritten[t][k][s] \in Nat /\ admitted[t][k][s] \in Nat
      BY <1>10, <3>2, NumbersAre
    <3>4. /\ Limits!UnderWay(t, k, s) \in Nat /\ Limits!UnderWay(t, k, s)' \in Nat
          /\ Limits!UnderWay(t, k, s)' + Limits!Owes(q, t, k, s) = Limits!UnderWay(t, k, s) + Limits!Owes(r, t, k, s)
      BY <1>9, <3>2 DEF OweMoves
    <3>5. Limits!Owes(q, t, k, s) \in Nat /\ Limits!Owes(r, t, k, s) = 0
      BY <1>6, <1>9, <3>2, RestingShares DEF Shares
    <3>6. unwritten'[t][k][s] = unwritten[t][k][s] + Limits!Owes(q, t, k, s)
      BY <1>13, <3>2
    <3> QED BY <1>2, <3>1, <3>3, <3>4, <3>5, <3>6
  <2>3. WorkerCounts => Limits!TokensAreCounted'
    BY <1>2, <1>10, <1>12, <2>1, TokensAre, TokensStay DEF Limits!CountsAreKept, Limits!RunsAreCounted
  <2> QED BY <2>1, <2>2, <2>3 DEF Limits!CountsAreKept, Limits!RunsAreCounted, Limits!InForce, Limits!Counters
<1>17. FewerCome
  <2>1. ASSUME NEW t \in Limited, NEW k \in Limits!Counters, NEW s \in 0 .. MaxMinutes
        PROVE  Limits!Coming(t, k, s)' \in Nat /\ Limits!Coming(t, k, s)' <= Limits!Coming(t, k, s)
    <3>1. /\ Limits!Coming(t, k, s) \in Nat /\ Limits!Coming(t, k, s)' \in Nat
          /\ Limits!Coming(t, k, s)' + Limits!Comes(q, t, k, s) = Limits!Coming(t, k, s) + Limits!Comes(r, t, k, s)
      BY <1>9 DEF ComeMoves
    <3>2. Limits!Comes(q, t, k, s) \in Nat /\ Limits!Comes(r, t, k, s) = 0
      BY <1>6, <1>9, RestingShares DEF Shares
    <3> QED BY <3>1, <3>2
  <2>2. ASSUME NEW t \in Limited
        PROVE  Limits!Entering(t)' \in Nat /\ Limits!Entering(t)' <= Limits!Entering(t)
    <3>1. /\ Limits!Entering(t) \in Nat /\ Limits!Entering(t)' \in Nat
          /\ Limits!Entering(t)' + Limits!Enters(q, t) = Limits!Entering(t) + Limits!Enters(r, t)
      BY <1>9 DEF EnterMoves
    <3>2. Limits!Enters(q, t) \in Nat /\ Limits!Enters(r, t) = 0
      BY <1>6, <1>9, RestingShares DEF Shares
    <3> QED BY <3>1, <3>2
  <2>3. ASSUME NEW T, NEW steps
        PROVE  Limits!Queueing(T, steps)' \in Nat /\ Limits!Queueing(T, steps)' <= Limits!Queueing(T, steps)
    <3>1. /\ Limits!Queueing(T, steps) \in Nat /\ Limits!Queueing(T, steps)' \in Nat
          /\ Limits!Queueing(T, steps)' + Limits!Queues(q, T, steps) = Limits!Queueing(T, steps) + Limits!Queues(r, T, steps)
      BY <1>9 DEF QueueMoves
    <3>2. Limits!Queues(q, T, steps) \in Nat /\ Limits!Queues(r, T, steps) = 0
      BY <1>6, <1>9, RestingShares DEF Shares
    <3> QED BY <3>1, <3>2
  <2> QED BY <2>1, <2>2, <2>3 DEF FewerCome
<1>18. Limits!WindowsAreBounded' /\ Limits!QueuesAreBounded'
  <2>1. \A t \in Limited, k \in Limits!Counters, s \in 0 .. MaxMinutes :
           counters'[t][k][s] \in Nat /\ counters'[t][k][s] <= counters[t][k][s]
    BY <1>2, <1>10, NumbersAre
  <2>2. \A t \in Limited, x \in Limits!Kind : active'[t][x] \in Nat /\ active'[t][x] <= active[t][x]
    BY <1>2, <1>10 DEF Limits!TypeOK
  <2> QED BY <1>2, <1>17, <2>1, <2>2, BoundsStay
<1> QED BY <1>2, <1>9, <1>10, <1>14, <1>15, <1>16, <1>18 DEF Limits!LimitInv

LEMMA OvershootFollows ==
  ASSUME Limits!LimitInv
  PROVE  Limits!OvershootIsBounded
<1>1. Limits!TypeOK /\ Limits!RequestsAreOnCourse /\ Limits!CountsAreKept /\ Limits!WindowsAreBounded /\ Limits!QueuesAreBounded /\ Numbered
  BY SumsOfRequests DEF Limits!LimitInv
<1>2. PICK n \in Nat \ {0} : n = Cardinality(Handler) /\ n = Limits!Cardinality(Handler)
  BY AtOnceIs, SizesAgree
<1>3. Limits!Live \subseteq 0 .. MaxMinutes
  BY DEF Limits!Live
<1>4. requests \in [Handler -> Limits!Admission \union {Limits!Resting}] /\ minute \in Nat
  BY <1>1 DEF Limits!TypeOK
(* What is owed is part of what is to come.                                  *)
<1>5. ASSUME NEW t \in Limited, NEW k \in Limits!InForce, NEW s \in 0 .. MaxMinutes
      PROVE  Limits!UnderWay(t, k, s) <= Limits!Coming(t, k, s)
  <2>1. k \in Limits!Counters /\ s \in Nat
    BY DEF Limits!InForce
  <2>2. ASSUME NEW i \in Handler
        PROVE  /\ Limits!Owes(requests[i], t, k, s) \in Nat /\ Limits!Comes(requests[i], t, k, s) \in Nat
               /\ Limits!Owes(requests[i], t, k, s) <= Limits!Comes(requests[i], t, k, s)
    <3>1. PICK q : q = requests[i]
      OBVIOUS
    <3>2. q \in Limits!Admission \union {Limits!Resting} /\ (q # Limits!Resting => Limits!OnCourse(q))
      BY <1>1, <1>4, <3>1 DEF Limits!RequestsAreOnCourse
    <3>3. Limits!Owes(q, t, k, s) \in Nat /\ Limits!Comes(q, t, k, s) \in Nat
      BY <1>4, <2>1, <3>2, ShareOfOne
    <3>4. CASE Limits!Owes(q, t, k, s) = 0
      BY <3>1, <3>3, <3>4
    <3>5. CASE Limits!Owes(q, t, k, s) # 0
      <4>1. /\ q # Limits!Resting /\ q.tenant = t /\ Limits!Start(k, q.at) = s /\ Limits!Owes(q, t, k, s) = q[k] /\ q[k] # 0
        BY <3>5 DEF Limits!Owes
      <4>2. q \in Limits!Admission /\ Limits!OnCourse(q) /\ q.n \in Nat
        BY <3>2, <4>1 DEF Limits!Admission
      <4>3. q.kind # "ocr" /\ q.step \in {"submit", "count"}
        BY <2>1, <3>5, <4>2, NoneOwedYet
      <4>4. q.step \in Limits!Past(k)
        BY <4>3 DEF Limits!Past
      <4>5. Limits!Comes(q, t, k, s) = q.n + q[k]
        BY <4>1, <4>3, <4>4 DEF Limits!Comes
      <4>6. q[k] \in Nat
        BY <3>3, <4>1
      <4> QED BY <3>1, <3>3, <4>1, <4>2, <4>5, <4>6
    <3> QED BY <3>4, <3>5
  <2>3. PICK f : f = [i \in Handler |-> Limits!Owes(requests[i], t, k, s)]
    OBVIOUS
  <2>4. PICK g : g = [i \in Handler |-> Limits!Comes(requests[i], t, k, s)]
    OBVIOUS
  <2>5. f \in [Handler -> Nat] /\ g \in [Handler -> Nat] /\ \A i \in Handler : f[i] <= g[i]
    BY <2>2, <2>3, <2>4
  <2> QED BY <2>3, <2>4, <2>5, SumsGrow DEF Limits!UnderWay, Limits!Coming
<1>6. ASSUME NEW t \in Limited, NEW k \in Limits!InForce, NEW s \in Limits!Live
      PROVE  admitted[t][k][s] < Limits!Limit(k) + Limits!AtOnce + unwritten[t][k][s]
  <2>1. k \in Limits!Counters /\ k \in Limits!Window /\ s \in 0 .. MaxMinutes /\ s \in Nat
    BY <1>3 DEF Limits!InForce, Limits!Counters, Limits!Window
  <2>2. counters[t][k][s] \in Nat /\ unwritten[t][k][s] \in Nat /\ admitted[t][k][s] \in Nat /\ Limits!Limit(k) \in Nat
    BY <1>1, <2>1, NumbersAre
  <2>3. counters[t][k][s] + Limits!UnderWay(t, k, s) + unwritten[t][k][s] = admitted[t][k][s]
    BY <1>1 DEF Limits!CountsAreKept, Limits!RunsAreCounted, Limits!InForce, Limits!Counters
  <2>4. counters[t][k][s] + Limits!Coming(t, k, s) < Limits!Limit(k) + Limits!AtOnce
    BY <1>1, <2>1 DEF Limits!WindowsAreBounded
  <2>5. Limits!UnderWay(t, k, s) \in Nat /\ Limits!Coming(t, k, s) \in Nat /\ Limits!UnderWay(t, k, s) <= Limits!Coming(t, k, s)
    BY <1>1, <1>5, <2>1 DEF Numbered
  <2> QED BY <2>2, <2>3, <2>4, <2>5, AtOnceIs
<1>7. ASSUME NEW t \in Limited, "concurrent" \in scenario.policy
      PROVE  active[t]["extraction"] < ConcurrencyLimit + Limits!AtOnce
  <2>1. active[t]["extraction"] + Limits!Entering(t) < ConcurrencyLimit + Limits!AtOnce
    BY <1>1, <1>7 DEF Limits!QueuesAreBounded
  <2>2. active[t]["extraction"] \in Nat /\ Limits!Entering(t) \in Nat
    BY <1>1 DEF Limits!TypeOK, Limits!Kind, Numbered
  <2> QED BY <2>1, <2>2, AtOnceIs
<1>8. ASSUME NEW t \in Limited PROVE active[t]["ocr"] < OcrLimit + n
  <2>1. active[t]["ocr"] + Limits!Queueing({t}, {"submit"}) < OcrLimit + n
    BY <1>1, <1>2 DEF Limits!QueuesAreBounded
  <2>2. active[t]["ocr"] \in Nat
    BY <1>1 DEF Limits!TypeOK, Limits!Kind
  <2>3. Limits!Queueing({t}, {"submit"}) \in Nat
    BY <1>1 DEF Numbered
  <2> QED BY <2>1, <2>2, <2>3
<1>9. Limits!Backlog < OcrTotal + n
  <2>1. Limits!Backlog + Limits!Queueing(Limited, {"mine", "submit"}) < OcrTotal + n
    BY <1>1, <1>2 DEF Limits!QueuesAreBounded
  <2>2. Limits!Queueing(Limited, {"mine", "submit"}) \in Nat
    BY <1>1 DEF Numbered
  <2>3. Limits!Backlog \in Nat
    <3>1. PICK f : f = [t \in Limited |-> active[t]["ocr"]]
      OBVIOUS
    <3>2. f \in [Limited -> Nat]
      BY <1>1, <3>1 DEF Limits!TypeOK, Limits!Kind
    <3> QED BY <3>1, <3>2, SumsAreNumbers DEF Limits!Backlog
  <2> QED BY <2>1, <2>2, <2>3
<1> QED BY <1>2, <1>6, <1>7, <1>8, <1>9 DEF Limits!OvershootIsBounded, Limits!InForce, Limits!Counters

LEMMA LimitsStep ==
  ASSUME Limits!LimitInv, [Limits!Next]_(Limits!limitVars)
  PROVE  Limits!LimitInv'
<1>1. CASE UNCHANGED Limits!limitVars
  BY <1>1, NothingMoves
<1>2. ASSUME NEW h \in Handler, NEW t \in Limited, NEW key \in RequestKey \union {None},
             Limits!Ask(h, t, key) \/ Limits!AskOcr(h, t, key)
      PROVE  Limits!LimitInv'
  BY <1>2, AskKeeps, AskOcrKeeps
<1>3. ASSUME NEW h \in Handler,
             \/ \E k \in Limits!Window : Limits!WindowCheck(h, k)
             \/ Limits!ConcurrencyCheck(h) \/ Limits!Prepare(h) \/ Limits!TotalCheck(h) \/ Limits!MineCheck(h)
             \/ Limits!Submit(h) \/ Limits!Record(h) \/ Limits!Fail(h)
      PROVE  Limits!LimitInv'
  BY <1>3, WindowCheckKeeps, ConcurrencyCheckKeeps, PrepareKeeps, TotalCheckKeeps, MineCheckKeeps, SubmitKeeps,
     RecordKeeps, FailKeeps
<1>4. ASSUME NEW t \in Limited, NEW m \in 0 .. MaxMinutes,
             Limits!RecordTokens(t, m) \/ \E kind \in Limits!Kind : Limits!EndRun(t, kind, m)
      PROVE  Limits!LimitInv'
  BY <1>4, RecordTokensKeeps, EndRunKeeps
<1>5. Limits!Expire \/ Limits!Tick => Limits!LimitInv'
  BY ExpireKeeps, TickKeeps
<1> QED BY <1>1, <1>2, <1>3, <1>4, <1>5 DEF Limits!Next

HIDE LimitAssumption DEF scenario, active, usedKeys, counters, requests, submitted, unspent, minute, losses, admitted, unwritten

-----------------------------------------------------------------------------
(* Claims                                                                    *)

present == v1
line == v2
over == v3
hands == v4
idle == v5
crashes == v6

USE DEF present, line, over, hands, idle, crashes

(* What is so of 0 and passes from each number to the next is so of all.     *)
LEMMA Ladder ==
  ASSUME NEW T, 0 \in T, \A n \in Nat : n \in T => n + 1 \in T
  PROVE  Nat \subseteq T
<1> DEFINE U == Nat \ T
           R == OpToRel(<, Nat)
<1> SUFFICES ASSUME U # {} PROVE FALSE
  OBVIOUS
<1>1. \A a, b \in Nat : a < b => <<a, b>> \in R
  BY DEF OpToRel
<1>2. U \in SUBSET Nat
  OBVIOUS
<1>3. PICK n \in U : \A m \in U : <<m, n>> \notin R
  <2>1. IsWellFoundedOn(R, Nat)
    BY NatLessThanWellFounded
  <2> HIDE DEF R, U
  <2> QED BY <1>2, <2>1, WFMin
<1> HIDE DEF R
<1>4. n \in Nat /\ n # 0 /\ n - 1 \in Nat /\ n - 1 < n /\ n - 1 + 1 = n
  BY <1>3
<1>5. n - 1 \in T
  BY <1>1, <1>3, <1>4
<1> QED BY <1>3, <1>4, <1>5

LEMMA SmallerIs ==
  ASSUME NEW a \in Nat, NEW b \in Nat
  PROVE  Claiming!Min({a, b}) = IF a <= b THEN a ELSE b
BY DEF Claiming!Min

LEMMA LargerIs ==
  ASSUME NEW a \in Nat, NEW b \in Nat
  PROVE  Claiming!Max({a, b}) = IF a <= b THEN b ELSE a
BY DEF Claiming!Max

LEMMA CountsAgree == ASSUME NEW S PROVE Claiming!Cardinality(S) = Cardinality(S)
BY DEF Claiming!Cardinality, Cardinality

(* A recursion upward along the line is a function.                          *)
Going(gone, i, f) == IF i = 0 THEN <<>> ELSE IF line[i] \in gone THEN f[i - 1] ELSE Append(f[i - 1], line[i])

LEMMA LeavingRecurs ==
  ASSUME NEW gone, NEW n \in Nat
  PROVE  \E f : f = [i \in 0 .. n |-> Going(gone, i, f)]
<1> DEFINE T == {m \in Nat : \E f : f = [i \in 0 .. m |-> Going(gone, i, f)]}
<1>1. 0 \in T
  <2>1. PICK f : f = [i \in 0 .. 0 |-> <<>>]
    OBVIOUS
  <2>2. f = [i \in 0 .. 0 |-> Going(gone, i, f)]
    BY <2>1 DEF Going
  <2> QED BY <2>2
<1>2. ASSUME NEW m \in Nat, m \in T PROVE m + 1 \in T
  <2>1. PICK f : f = [i \in 0 .. m |-> Going(gone, i, f)]
    BY <1>2
  <2>2. PICK g : g = [i \in 0 .. m + 1 |-> IF i = m + 1 THEN Going(gone, m + 1, f) ELSE f[i]]
    OBVIOUS
  <2>3. \A i \in 0 .. m : g[i] = f[i]
    BY <2>2
  <2>4. ASSUME NEW i \in 0 .. m + 1 PROVE Going(gone, i, g) = Going(gone, i, f)
    <3>1. CASE i = 0
      BY <3>1 DEF Going
    <3>2. CASE i # 0
      <4>1. g[i - 1] = f[i - 1]
        BY <3>2, <2>3
      <4> QED BY <3>2, <4>1 DEF Going
    <3> QED BY <3>1, <3>2
  <2>5. ASSUME NEW i \in 0 .. m + 1 PROVE g[i] = Going(gone, i, g)
    <3>1. CASE i = m + 1
      BY <3>1, <2>2, <2>4
    <3>2. CASE i # m + 1
      <4>1. i \in 0 .. m
        BY <3>2
      <4>2. f[i] = Going(gone, i, f)
        BY <4>1, <2>1
      <4> QED BY <4>1, <4>2, <2>3, <2>4
    <3> QED BY <3>1, <3>2
  <2>6. g = [i \in 0 .. m + 1 |-> Going(gone, i, g)]
    BY <2>2, <2>5
  <2> QED BY <2>6
<1>3. n \in T
  <2> HIDE DEF T
  <2> QED BY <1>1, <1>2, Ladder
<1> QED BY <1>3

(* A sequence without repetition, and what is in it.                         *)
Lists(s, S) == /\ s \in Seq(QueueRow)
               /\ \A i, j \in 1 .. Len(s) : s[i] = s[j] => i = j
               /\ \A r : r \in S <=> \E i \in 1 .. Len(s) : s[i] = r

LEMMA ListsAre ==
  ASSUME NEW s \in Seq(QueueRow), NEW S
  PROVE  Lists(s, S) <=> Claiming!IsInjective(s) /\ Claiming!Range(s) = S
<1>1. DOMAIN s = 1 .. Len(s)
  OBVIOUS
<1>2. Claiming!IsInjective(s) <=> \A i, j \in 1 .. Len(s) : s[i] = s[j] => i = j
  BY <1>1 DEF Claiming!IsInjective
<1>3. Claiming!Range(s) = S <=> \A r : r \in S <=> \E i \in 1 .. Len(s) : s[i] = r
  BY <1>1 DEF Claiming!Range
<1> QED BY <1>2, <1>3 DEF Lists

LEMMA ListsGrow ==
  ASSUME NEW s, NEW S, Lists(s, S), NEW r \in QueueRow, r \notin S
  PROVE  Lists(Append(s, r), S \union {r})
<1>1. PICK t : t = Append(s, r)
  OBVIOUS
<1>2. /\ s \in Seq(QueueRow) /\ t \in Seq(QueueRow) /\ Len(t) = Len(s) + 1 /\ Len(s) \in Nat
      /\ t[Len(s) + 1] = r /\ \A i \in 1 .. Len(s) : t[i] = s[i]
  BY <1>1 DEF Lists
<1>3. ASSUME NEW i \in 1 .. Len(t), NEW j \in 1 .. Len(t), t[i] = t[j] PROVE i = j
  <2>1. CASE i = Len(s) + 1 /\ j # Len(s) + 1
    <3>1. j \in 1 .. Len(s) /\ s[j] = r
      BY <1>2, <1>3, <2>1
    <3> QED BY <3>1 DEF Lists
  <2>2. CASE j = Len(s) + 1 /\ i # Len(s) + 1
    <3>1. i \in 1 .. Len(s) /\ s[i] = r
      BY <1>2, <1>3, <2>2
    <3> QED BY <3>1 DEF Lists
  <2>3. CASE i # Len(s) + 1 /\ j # Len(s) + 1
    <3>1. i \in 1 .. Len(s) /\ j \in 1 .. Len(s) /\ s[i] = s[j]
      BY <1>2, <1>3, <2>3
    <3> QED BY <3>1 DEF Lists
  <2> QED BY <2>1, <2>2, <2>3
<1>4. ASSUME NEW q PROVE q \in S \union {r} <=> \E i \in 1 .. Len(t) : t[i] = q
  <2>1. ASSUME q \in S PROVE \E i \in 1 .. Len(t) : t[i] = q
    <3>1. PICK i \in 1 .. Len(s) : s[i] = q
      BY <2>1 DEF Lists
    <3>2. i \in 1 .. Len(t) /\ t[i] = q
      BY <1>2, <3>1
    <3> QED BY <3>2
  <2>2. ASSUME q = r PROVE \E i \in 1 .. Len(t) : t[i] = q
    <3>1. Len(s) + 1 \in 1 .. Len(t)
      BY <1>2
    <3> QED BY <1>2, <2>2, <3>1
  <2>3. ASSUME NEW i \in 1 .. Len(t), t[i] = q PROVE q \in S \union {r}
    <3>1. CASE i = Len(s) + 1
      BY <1>2, <2>3, <3>1
    <3>2. CASE i # Len(s) + 1
      <4>1. i \in 1 .. Len(s) /\ s[i] = q
        BY <1>2, <2>3, <3>2
      <4> QED BY <4>1 DEF Lists
    <3> QED BY <3>1, <3>2
  <2> QED BY <2>1, <2>2, <2>3
<1> QED BY <1>1, <1>2, <1>3, <1>4 DEF Lists

(* Those who leave the line leave the others in it.                          *)
LEMMA LinesShrink ==
  ASSUME NEW S, Lists(line, S), NEW gone
  PROVE  Lists(Claiming!Without(gone), S \ gone)
<1> DEFINE f == CHOOSE left : left = [i \in 0 .. Len(line) |-> Going(gone, i, left)]
<1>1. line \in Seq(QueueRow) /\ Len(line) \in Nat
  BY DEF Lists
<1>2. Claiming!Without(gone) = f[Len(line)]
  BY DEF Claiming!Without, Going
<1>3. f = [i \in 0 .. Len(line) |-> Going(gone, i, f)]
  BY <1>1, LeavingRecurs
<1> HIDE DEF f
<1> DEFINE First(n) == {line[i] : i \in 1 .. n}
<1> DEFINE T == {n \in Nat : n <= Len(line) => Lists(f[n], First(n) \ gone)}
<1>4. 0 \in T
  <2>1. f[0] = <<>>
    BY <1>1, <1>3 DEF Going
  <2>2. First(0) = {}
    OBVIOUS
  <2>3. Lists(<<>>, {})
    BY DEF Lists
  <2> QED BY <2>1, <2>2, <2>3
<1>5. ASSUME NEW n \in Nat, n \in T PROVE n + 1 \in T
  <2> SUFFICES ASSUME n + 1 <= Len(line) PROVE Lists(f[n + 1], First(n + 1) \ gone)
    OBVIOUS
  <2>1. Lists(f[n], First(n) \ gone)
    BY <1>1, <1>5
  <2>2. n + 1 \in 0 .. Len(line) /\ n + 1 # 0 /\ n + 1 - 1 = n /\ n + 1 \in 1 .. Len(line)
    BY <1>1
  <2>3. f[n + 1] = IF line[n + 1] \in gone THEN f[n] ELSE Append(f[n], line[n + 1])
    <3>1. PICK m : m = n + 1
      OBVIOUS
    <3>2. f[m] = Going(gone, m, f)
      BY <1>3, <2>2, <3>1
    <3>3. m # 0 /\ m - 1 = n
      BY <2>2, <3>1
    <3>4. f[m] = IF line[m] \in gone THEN f[n] ELSE Append(f[n], line[m])
      BY <3>2, <3>3 DEF Going
    <3> QED BY <3>1, <3>4
  <2>4. First(n + 1) = First(n) \union {line[n + 1]}
    <3>1. 1 .. n + 1 = (1 .. n) \union {n + 1}
      OBVIOUS
    <3> QED BY <3>1
  <2>5. line[n + 1] \in QueueRow /\ line[n + 1] \notin First(n)
    <3>1. line[n + 1] \in QueueRow
      BY <1>1, <2>2
    <3>2. ASSUME NEW i \in 1 .. n, line[i] = line[n + 1] PROVE FALSE
      <4>1. i \in 1 .. Len(line) /\ i # n + 1
        BY <1>1, <2>2
      <4> QED BY <2>2, <3>2, <4>1 DEF Lists
    <3> QED BY <3>1, <3>2
  <2> HIDE DEF First
  <2>6. CASE line[n + 1] \in gone
    <3>1. First(n + 1) \ gone = First(n) \ gone
      BY <2>4, <2>6
    <3> QED BY <2>1, <2>3, <2>6, <3>1
  <2>7. CASE line[n + 1] \notin gone
    <3>1. First(n + 1) \ gone = (First(n) \ gone) \union {line[n + 1]}
      BY <2>4, <2>7
    <3>2. line[n + 1] \notin First(n) \ gone
      BY <2>5
    <3>3. Lists(Append(f[n], line[n + 1]), (First(n) \ gone) \union {line[n + 1]})
      BY <2>1, <2>5, <3>2, ListsGrow
    <3> QED BY <2>3, <2>7, <3>1, <3>3
  <2> QED BY <2>6, <2>7
<1>6. Len(line) \in T
  <2> HIDE DEF T
  <2> QED BY <1>1, <1>4, <1>5, Ladder
<1>7. Lists(f[Len(line)], First(Len(line)) \ gone)
  BY <1>1, <1>6
<1>8. First(Len(line)) = S
  BY DEF Lists
<1> QED BY <1>2, <1>7, <1>8

(* What a worker holds is a run that is there and that it alone holds: a row *)
(* it locks may be claimed, and one it executes runs under a fresh lease.    *)
Busy(w) == hands[w].pc # "loop"

HeldAreThere(w) ==
  LET run == present[hands[w].row] IN
  /\ run # None
  /\ hands[w].pc = "locked" => (run.status = "queued" \/ Claiming!Lapsed(run)) /\ run.attempts < MaxClaims
  /\ hands[w].pc # "locked" => run.status = "running" /\ run.lease = Lease

HandsAgree ==
  \A w \in Worker : Busy(w) => HeldAreThere(w) /\ \A u \in Worker : Busy(u) /\ hands[u].row = hands[w].row => u = w

Rows == Claiming!RunRow \union {None}
Hands == {Claiming!Loop} \union [pc: {"locked", "claimed", "executing"}, row: QueueRow]
Places == 0 .. ServiceWindow - 1

ClaimInv ==
  /\ present \in [QueueRow -> Rows]
  /\ Lists(line, {r \in QueueRow : present[r] # None})
  /\ over \in [Tenant -> [Places -> Nat]]
  /\ hands \in [Worker -> Hands]
  /\ idle \in [Worker -> 0 .. TickInterval]
  /\ crashes \in 0 .. MaxFaults
  /\ HandsAgree

LEMMA ClaimsAreTyped == ASSUME ClaimInv PROVE Claiming!TypeOK
<1>1. line \in Seq(QueueRow)
  BY DEF ClaimInv, Lists
<1>2. Claiming!IsInjective(line) /\ Claiming!Range(line) = {r \in QueueRow : present[r] # None}
  BY <1>1, ListsAre DEF ClaimInv
<1> QED BY <1>1, <1>2 DEF ClaimInv, Claiming!TypeOK, Rows, Hands, Places

LEMMA HeldIs ==
  ASSUME ClaimInv, NEW w \in Worker
  PROVE  /\ hands[w] = Claiming!Loop <=> ~Busy(w)
         /\ Busy(w) => /\ hands[w] \in [pc: {"locked", "claimed", "executing"}, row: QueueRow]
                       /\ present[hands[w].row] \in Claiming!RunRow /\ HeldAreThere(w)
<1>1. hands[w] \in Hands
  BY DEF ClaimInv
<1>2. hands[w] = Claiming!Loop => hands[w].pc = "loop"
  BY DEF Claiming!Loop
<1>3. hands[w] # Claiming!Loop => hands[w] \in [pc: {"locked", "claimed", "executing"}, row: QueueRow]
  BY <1>1 DEF Hands
<1>4. hands[w] \in [pc: {"locked", "claimed", "executing"}, row: QueueRow] => hands[w].pc # "loop" /\ hands[w].row \in QueueRow
  OBVIOUS
<1>5. hands[w] = Claiming!Loop <=> ~Busy(w)
  BY <1>2, <1>3, <1>4 DEF Busy
<1>6. Busy(w) => HeldAreThere(w)
  BY DEF ClaimInv, HandsAgree
<1>7. ASSUME Busy(w) PROVE present[hands[w].row] \in Claiming!RunRow
  <2>1. hands[w].row \in QueueRow /\ present[hands[w].row] # None
    BY <1>3, <1>4, <1>5, <1>6, <1>7 DEF HeldAreThere
  <2> QED BY <2>1 DEF ClaimInv, Rows
<1> QED BY <1>3, <1>5, <1>6, <1>7

LEMMA ClaimsBegin == Claiming!Init => ClaimInv
<1> SUFFICES ASSUME Claiming!Init PROVE ClaimInv
  OBVIOUS
<1>1. present \in [QueueRow -> Rows] /\ {r \in QueueRow : present[r] # None} = {}
  BY DEF Claiming!Init, Rows
<1>2. Lists(line, {})
  BY DEF Claiming!Init, Lists
<1>3. over \in [Tenant -> [Places -> Nat]]
  BY DEF Claiming!Init, Places
<1>4. hands \in [Worker -> Hands] /\ \A w \in Worker : ~Busy(w)
  BY DEF Claiming!Init, Hands, Busy, Claiming!Loop
<1>5. idle \in [Worker -> 0 .. TickInterval] /\ crashes \in 0 .. MaxFaults
  BY ClaimAssumption DEF Claiming!Init
<1> QED BY <1>1, <1>2, <1>3, <1>4, <1>5 DEF ClaimInv, HandsAgree

(* Workers that go on holding what they held.                                *)
LEMMA HandsStay ==
  ASSUME ClaimInv, hands' = hands, \A w \in Worker : Busy(w) => present'[hands[w].row] = present[hands[w].row]
  PROVE  HandsAgree'
<1> SUFFICES ASSUME NEW w \in Worker, Busy(w)
             PROVE  HeldAreThere(w)' /\ \A u \in Worker : Busy(u) /\ hands[u].row = hands[w].row => u = w
  BY DEF HandsAgree, Busy
<1>1. HeldAreThere(w) /\ \A u \in Worker : Busy(u) /\ hands[u].row = hands[w].row => u = w
  BY DEF ClaimInv, HandsAgree
<1> QED BY <1>1 DEF HeldAreThere, Claiming!Lapsed

(* Workers of whom one has other things in hand.                             *)
LEMMA HandsMove ==
  ASSUME ClaimInv, NEW w \in Worker, NEW h, hands' = [hands EXCEPT ![w] = h],
         \A u \in Worker \ {w} : Busy(u) => present'[hands[u].row] = present[hands[u].row],
         Busy(w)' => HeldAreThere(w)' /\ \A u \in Worker \ {w} : Busy(u) => hands[u].row # h.row
  PROVE  HandsAgree'
<1>0. hands'[w] = h /\ \A u \in Worker \ {w} : hands'[u] = hands[u]
  BY DEF ClaimInv
<1> SUFFICES ASSUME NEW u \in Worker, Busy(u)'
             PROVE  HeldAreThere(u)' /\ \A v \in Worker : Busy(v)' /\ hands'[v].row = hands'[u].row => v = u
  BY DEF HandsAgree
<1>1. CASE u = w
  BY <1>0, <1>1 DEF Busy
<1>2. CASE u # w
  <2>1. Busy(u) /\ hands'[u] = hands[u]
    BY <1>0, <1>2 DEF Busy
  <2>2. HeldAreThere(u) /\ \A v \in Worker : Busy(v) /\ hands[v].row = hands[u].row => v = u
    BY <2>1 DEF ClaimInv, HandsAgree
  <2>3. HeldAreThere(u)'
    BY <1>2, <2>1, <2>2 DEF HeldAreThere, Claiming!Lapsed
  <2>4. ASSUME NEW v \in Worker, Busy(v)', hands'[v].row = hands'[u].row PROVE v = u
    <3>1. CASE v = w
      BY <1>0, <1>2, <2>1, <2>4, <3>1
    <3>2. CASE v # w
      BY <1>0, <2>1, <2>2, <2>4, <3>2 DEF Busy
    <3> QED BY <3>1, <3>2
  <2> QED BY <2>3, <2>4
<1> QED BY <1>1, <1>2

(* What a worker holds does not wait, unless it has locked it.               *)
LEMMA HeldRunsDoNotWait ==
  ASSUME ClaimInv, NEW w \in Worker, Busy(w)
  PROVE  /\ ~Claiming!Doomed(hands[w].row)
         /\ hands[w].pc # "locked" => ~Claiming!Waiting(hands[w].row)
         /\ hands[w].pc = "locked" => hands[w].row \in Claiming!Locked
<1>1. HeldAreThere(w) /\ present[hands[w].row] \in Claiming!RunRow
  BY HeldIs
<1>2. ~(present[hands[w].row].attempts < MaxClaims /\ present[hands[w].row].attempts >= MaxClaims)
  BY <1>1, ClaimAssumption DEF Claiming!RunRow
<1>3. Lease # 0
  BY ClaimAssumption
<1>4. hands[w].pc # "locked" => ~Claiming!Waiting(hands[w].row)
  BY <1>1, <1>3 DEF HeldAreThere, Claiming!Waiting, Claiming!Lapsed
<1> QED BY <1>1, <1>2, <1>4 DEF HeldAreThere, Claiming!Doomed, Claiming!Locked

LEMMA RunsAreRetired ==
  ASSUME ClaimInv, NEW gone \in SUBSET QueueRow, Claiming!Retire(gone)
  PROVE  /\ present' \in [QueueRow -> Rows]
         /\ Lists(line, {r \in QueueRow : present[r] # None})'
         /\ over' \in [Tenant -> [Places -> Nat]]
         /\ \A r \in QueueRow \ gone : present'[r] = present[r]
<1>1. /\ present' \in [QueueRow -> Rows] /\ \A r \in QueueRow \ gone : present'[r] = present[r]
      /\ \A r \in gone : present'[r] = None
  BY DEF Claiming!Retire, ClaimInv, Rows
<1>2. Lists(line, {r \in QueueRow : present[r] # None})'
  <2>1. PICK S : S = {r \in QueueRow : present[r] # None}
    OBVIOUS
  <2>2. Lists(line, S)
    BY <2>1 DEF ClaimInv
  <2>3. Lists(line', S \ gone)
    BY <2>2, LinesShrink DEF Claiming!Retire
  <2>4. S \ gone = {r \in QueueRow : present'[r] # None}
    BY <1>1, <2>1
  <2> QED BY <2>3, <2>4 DEF Lists
<1>3. over' \in [Tenant -> [Places -> Nat]]
  <2> SUFFICES ASSUME NEW t \in Tenant
               PROVE  [over[t] EXCEPT ![0] = @ + Claiming!Cardinality({r \in gone : present[r].tenant = t})] \in [Places -> Nat]
    BY DEF Claiming!Retire, Places
  <2>1. PICK G : G = {r \in gone : present[r].tenant = t}
    OBVIOUS
  <2>2. IsFiniteSet(G)
    <3>1. G \subseteq QueueRow
      BY <2>1
    <3> QED BY <3>1, FS_Subset, ClaimAssumption
  <2>3. Claiming!Cardinality(G) \in Nat
    BY <2>2, CountsAgree, FS_CardinalityType
  <2>4. PICK n \in Nat : n = Claiming!Cardinality(G)
    BY <2>3
  <2>5. over[t] \in [Places -> Nat]
    BY DEF ClaimInv
  <2>6. [over[t] EXCEPT ![0] = @ + n] \in [Places -> Nat]
    <3>1. CASE 0 \in Places
      <4>1. over[t][0] + n \in Nat
        BY <2>5, <3>1
      <4> QED BY <2>5, <3>1, <4>1
    <3>2. CASE 0 \notin Places
      BY <2>5, <3>2
    <3> QED BY <3>1, <3>2
  <2> QED BY <2>1, <2>4, <2>6
<1> QED BY <1>1, <1>2, <1>3

LEMMA RunsJoinTheLine ==
  ASSUME ClaimInv, NEW r \in QueueRow, NEW t \in Tenant, NEW p \in RunPriority, Claiming!Submit(r, t, p)
  PROVE  ClaimInv'
<1>1. PICK run : run = [tenant |-> t, priority |-> p, status |-> "queued", age |-> 0, lease |-> 0, touched |-> 0, attempts |-> 0]
  OBVIOUS
<1>2. run \in Claiming!RunRow /\ run # None
  <2>1. run \in Claiming!RunRow
    BY <1>1, ClaimAssumption DEF Claiming!RunRow
  <2> QED BY <2>1, ClaimAssumption
<1>3. present[r] = None /\ present' = [present EXCEPT ![r] = run] /\ line' = Append(line, r)
  BY <1>1 DEF Claiming!Submit
<1>4. present' \in [QueueRow -> Rows] /\ present'[r] = run /\ \A q \in QueueRow \ {r} : present'[q] = present[q]
  BY <1>2, <1>3 DEF ClaimInv, Rows
<1>5. Lists(line, {q \in QueueRow : present[q] # None})'
  <2>1. PICK S : S = {q \in QueueRow : present[q] # None}
    OBVIOUS
  <2>2. Lists(line, S) /\ r \notin S
    BY <1>3, <2>1 DEF ClaimInv
  <2>3. Lists(line', S \union {r})
    BY <1>3, <2>2, ListsGrow
  <2>4. S \union {r} = {q \in QueueRow : present'[q] # None}
    BY <1>2, <1>4, <2>1
  <2> QED BY <2>3, <2>4 DEF Lists
<1>6. HandsAgree'
  <2>1. ASSUME NEW w \in Worker, Busy(w) PROVE present'[hands[w].row] = present[hands[w].row]
    <3>1. hands[w].row \in QueueRow /\ present[hands[w].row] # None
      BY <2>1, HeldIs DEF HeldAreThere
    <3> QED BY <1>3, <1>4, <3>1
  <2> QED BY <2>1, HandsStay DEF Claiming!Submit
<1> QED BY <1>4, <1>5, <1>6 DEF ClaimInv, Claiming!Submit

LEMMA RunsAreAbandoned == ASSUME ClaimInv, NEW w \in Worker, Claiming!Abandon(w) PROVE ClaimInv'
<1>1. PICK gone : gone = {r \in QueueRow : Claiming!Doomed(r)}
  OBVIOUS
<1>2. Claiming!Retire(gone) /\ gone \in SUBSET QueueRow /\ UNCHANGED <<hands, idle, crashes>>
  BY <1>1 DEF Claiming!Abandon
<1>3. HandsAgree'
  <2>1. ASSUME NEW v \in Worker, Busy(v) PROVE present'[hands[v].row] = present[hands[v].row]
    <3>1. hands[v].row \in QueueRow \ gone
      BY <1>1, <2>1, HeldIs, HeldRunsDoNotWait
    <3> QED BY <1>2, <3>1, RunsAreRetired
  <2> QED BY <1>2, <2>1, HandsStay
<1> QED BY <1>2, <1>3, RunsAreRetired DEF ClaimInv

LEMMA RowsAreLocked ==
  ASSUME ClaimInv, NEW w \in Worker, NEW r \in QueueRow, Claiming!Lock(w, r)
  PROVE  ClaimInv'
<1>1. PICK h : h = [pc |-> "locked", row |-> r]
  OBVIOUS
<1>2. /\ hands' = [hands EXCEPT ![w] = h] /\ UNCHANGED <<present, line, over, idle, crashes>>
      /\ Claiming!Eligible(r) /\ r \notin Claiming!Locked
  BY <1>1 DEF Claiming!Lock, Claiming!First
<1>3. hands' \in [Worker -> Hands] /\ hands'[w] = h
  BY <1>1, <1>2 DEF ClaimInv, Hands
<1>4. HeldAreThere(w)'
  BY <1>1, <1>2, <1>3 DEF HeldAreThere, Claiming!Eligible, Claiming!Waiting, Claiming!Lapsed
<1>5. ASSUME NEW u \in Worker \ {w}, Busy(u) PROVE hands[u].row # h.row
  BY <1>1, <1>2, <1>5, HeldRunsDoNotWait DEF Claiming!Eligible
<1>6. HandsAgree'
  BY <1>2, <1>4, <1>5, HandsMove
<1> QED BY <1>2, <1>3, <1>6 DEF ClaimInv

LEMMA ClaimsAreCommitted == ASSUME ClaimInv, NEW w \in Worker, Claiming!Commit(w) PROVE ClaimInv'
<1>1. PICK r : r = hands[w].row
  OBVIOUS
<1>2. PICK h : h = [hands[w] EXCEPT !.pc = "claimed"]
  OBVIOUS
<1>3. hands[w].pc = "locked" /\ Busy(w)
  BY DEF Claiming!Commit, Busy
<1>4. /\ r \in QueueRow /\ present[r] \in Claiming!RunRow /\ present[r].attempts < MaxClaims
      /\ hands[w] \in [pc: {"locked", "claimed", "executing"}, row: QueueRow]
  BY <1>1, <1>3, HeldIs DEF HeldAreThere
<1>5. PICK run : run = [present[r] EXCEPT !.status = "running", !.lease = Lease, !.touched = 0, !.attempts = @ + 1]
  OBVIOUS
<1>6. /\ run \in Claiming!RunRow /\ run.status = "running" /\ run.lease = Lease /\ run # None
  <2>1. present[r].attempts + 1 \in 0 .. MaxClaims /\ Lease \in 0 .. Lease /\ 0 \in 0 .. ServiceWindow
    BY <1>4, ClaimAssumption DEF Claiming!RunRow
  <2>2. run \in Claiming!RunRow /\ run.status = "running" /\ run.lease = Lease
    BY <1>4, <1>5, <2>1 DEF Claiming!RunRow
  <2> QED BY <2>2, ClaimAssumption
<1>7. h = [pc |-> "claimed", row |-> r]
  BY <1>1, <1>2, <1>4
<1>8. present' = [present EXCEPT ![r] = run] /\ hands' = [hands EXCEPT ![w] = h] /\ UNCHANGED <<line, over, idle, crashes>>
  <2>1. present' = [present EXCEPT ![r] = run] /\ UNCHANGED <<line, over, idle, crashes>>
    BY <1>1, <1>5 DEF Claiming!Commit
  <2>2. hands' = [hands EXCEPT ![w].pc = "claimed"]
    BY DEF Claiming!Commit
  <2>3. hands' = [hands EXCEPT ![w] = h]
    BY <1>2, <2>2
  <2> QED BY <2>1, <2>3
<1>9. /\ present' \in [QueueRow -> Rows] /\ present'[r] = run /\ \A q \in QueueRow \ {r} : present'[q] = present[q]
      /\ hands' \in [Worker -> Hands] /\ hands'[w] = h
  BY <1>4, <1>6, <1>7, <1>8 DEF ClaimInv, Rows, Hands
<1>10. Lists(line, {q \in QueueRow : present[q] # None})'
  <2>1. {q \in QueueRow : present'[q] # None} = {q \in QueueRow : present[q] # None}
    BY <1>4, <1>6, <1>9, ClaimAssumption
  <2> QED BY <1>8, <2>1 DEF ClaimInv, Lists
<1>11. ASSUME NEW u \in Worker \ {w}, Busy(u) PROVE hands[u].row # r /\ present'[hands[u].row] = present[hands[u].row]
  <2>1. hands[u].row # r
    BY <1>1, <1>3, <1>11 DEF ClaimInv, HandsAgree
  <2>2. hands[u].row \in QueueRow
    BY <1>11, HeldIs
  <2> QED BY <1>9, <2>1, <2>2
<1>12. HeldAreThere(w)'
  BY <1>6, <1>7, <1>9 DEF HeldAreThere
<1>13. HandsAgree'
  BY <1>7, <1>8, <1>11, <1>12, HandsMove
<1> QED BY <1>8, <1>9, <1>10, <1>13 DEF ClaimInv

LEMMA WorkersMaintain == ASSUME ClaimInv, NEW w \in Worker, Claiming!Maintain(w) PROVE ClaimInv'
<1>1. idle' = [idle EXCEPT ![w] = 0] /\ UNCHANGED <<present, line, over, hands, crashes>>
  BY DEF Claiming!Maintain
<1>2. idle' \in [Worker -> 0 .. TickInterval]
  BY <1>1, ClaimAssumption DEF ClaimInv
<1>3. HandsAgree'
  BY <1>1, HandsStay
<1> QED BY <1>1, <1>2, <1>3 DEF ClaimInv, Lists

LEMMA WorkersFinish == ASSUME ClaimInv, NEW w \in Worker, Claiming!Finish(w) PROVE ClaimInv'
<1>1. PICK r : r = hands[w].row
  OBVIOUS
<1>2. Busy(w) /\ r \in QueueRow
  BY <1>1, HeldIs DEF Claiming!Finish, Busy
<1>3. Claiming!Retire({r}) /\ {r} \in SUBSET QueueRow /\ hands' = [hands EXCEPT ![w] = Claiming!Loop] /\ UNCHANGED <<idle, crashes>>
  BY <1>1, <1>2 DEF Claiming!Finish
<1>4. hands' \in [Worker -> Hands] /\ ~Busy(w)'
  BY <1>3 DEF ClaimInv, Hands, Busy, Claiming!Loop
<1>5. ASSUME NEW u \in Worker \ {w}, Busy(u) PROVE present'[hands[u].row] = present[hands[u].row]
  <2>1. hands[u].row \in QueueRow \ {r}
    <3>1. hands[u].row # r
      BY <1>1, <1>2, <1>5 DEF ClaimInv, HandsAgree
    <3> QED BY <1>5, <3>1, HeldIs
  <2> QED BY <1>3, <2>1, RunsAreRetired
<1>6. HandsAgree'
  BY <1>3, <1>4, <1>5, HandsMove
<1> QED BY <1>3, <1>4, <1>6, RunsAreRetired DEF ClaimInv

LEMMA WorkersCrash == ASSUME ClaimInv, NEW w \in Worker, Claiming!Crash(w) PROVE ClaimInv'
<1>1. hands' = [hands EXCEPT ![w] = Claiming!Loop] /\ crashes' = crashes + 1 /\ crashes < MaxFaults /\ UNCHANGED <<present, line, over, idle>>
  BY DEF Claiming!Crash
<1>2. hands' \in [Worker -> Hands] /\ ~Busy(w)'
  BY <1>1 DEF ClaimInv, Hands, Busy, Claiming!Loop
<1>3. crashes' \in 0 .. MaxFaults
  BY <1>1, ClaimAssumption DEF ClaimInv
<1>4. HandsAgree'
  BY <1>1, <1>2, HandsMove
<1> QED BY <1>1, <1>2, <1>3, <1>4 DEF ClaimInv, Lists

(* What time does to a run.                                                  *)
LEMMA RunsAge ==
  ASSUME ClaimInv, NEW r \in QueueRow, present[r] # None
  PROVE  /\ Claiming!Aged(r) \in Claiming!RunRow
         /\ Claiming!Aged(r).status = present[r].status /\ Claiming!Aged(r).attempts = present[r].attempts
         /\ r \in Claiming!Beating => Claiming!Aged(r).lease = Lease
         /\ r \notin Claiming!Beating /\ present[r].lease = 0 => Claiming!Aged(r).lease = 0
<1>1. PICK run : run = present[r]
  OBVIOUS
<1>2. run \in Claiming!RunRow
  BY <1>1 DEF ClaimInv, Rows
<1>3. run.age \in Nat /\ run.lease \in 0 .. Lease /\ run.touched \in Nat
  BY <1>2, ClaimAssumption DEF Claiming!RunRow
<1>4. PICK age : age = Claiming!Min({run.age + 1, Starvation + 1})
  OBVIOUS
<1>5. age \in 0 .. Starvation + 1
  <2>1. run.age + 1 \in Nat /\ Starvation + 1 \in Nat
    BY <1>3, ClaimAssumption
  <2>2. age = IF run.age + 1 <= Starvation + 1 THEN run.age + 1 ELSE Starvation + 1
    BY <1>4, <2>1, SmallerIs
  <2> QED BY <2>1, <2>2
<1>6. PICK lease : lease = IF r \in Claiming!Beating THEN Lease ELSE Claiming!Max({run.lease, 1}) - 1
  OBVIOUS
<1>7. lease \in 0 .. Lease /\ (r \in Claiming!Beating => lease = Lease) /\ (r \notin Claiming!Beating /\ run.lease = 0 => lease = 0)
  <2>1. Lease \in Nat \ {0} /\ run.lease \in Nat
    BY <1>3, ClaimAssumption
  <2>2. Claiming!Max({run.lease, 1}) = IF run.lease <= 1 THEN 1 ELSE run.lease
    BY <2>1, LargerIs
  <2> QED BY <1>3, <1>6, <2>1, <2>2
<1>8. PICK touched : touched = IF r \in Claiming!Beating THEN 0 ELSE Claiming!Min({run.touched + 1, ServiceWindow})
  OBVIOUS
<1>9. touched \in 0 .. ServiceWindow
  <2>1. run.touched + 1 \in Nat /\ ServiceWindow \in Nat
    BY <1>3, ClaimAssumption
  <2>2. Claiming!Min({run.touched + 1, ServiceWindow}) = IF run.touched + 1 <= ServiceWindow THEN run.touched + 1 ELSE ServiceWindow
    BY <2>1, SmallerIs
  <2> QED BY <1>8, <2>1, <2>2
<1>10. Claiming!Aged(r) = [run EXCEPT !.age = age, !.lease = lease, !.touched = touched]
  BY <1>1, <1>4, <1>6, <1>8 DEF Claiming!Aged
<1> QED BY <1>1, <1>2, <1>5, <1>7, <1>9, <1>10 DEF Claiming!RunRow

LEMMA QueueTimePasses == ASSUME ClaimInv, Claiming!Tick PROVE ClaimInv'
<1>1. present' = [r \in QueueRow |-> IF present[r] = None THEN None ELSE Claiming!Aged(r)] /\ UNCHANGED <<line, crashes>>
  BY DEF Claiming!Tick
<1>2. present' \in [QueueRow -> Rows]
  BY <1>1, RunsAge DEF Rows
<1>3. Lists(line, {r \in QueueRow : present[r] # None})'
  <2>1. {r \in QueueRow : present'[r] # None} = {r \in QueueRow : present[r] # None}
    BY <1>1, RunsAge, ClaimAssumption
  <2> QED BY <1>1, <2>1 DEF ClaimInv, Lists
<1>4. over' \in [Tenant -> [Places -> Nat]]
  <2> SUFFICES ASSUME NEW t \in Tenant, NEW a \in Places PROVE (IF a = 0 THEN 0 ELSE over[t][a - 1]) \in Nat
    BY DEF Claiming!Tick, Places
  <2>1. a # 0 => a - 1 \in Places
    BY ClaimAssumption DEF Places
  <2>2. over[t] \in [Places -> Nat]
    BY DEF ClaimInv
  <2> QED BY <2>1, <2>2
<1>5. hands' = [w \in Worker |-> IF hands[w].pc = "claimed" THEN [hands[w] EXCEPT !.pc = "executing"] ELSE hands[w]]
  BY DEF Claiming!Tick
<1>6. ASSUME NEW w \in Worker
      PROVE  /\ hands'[w] \in Hands
             /\ Busy(w)' <=> Busy(w)
             /\ Busy(w) => hands'[w].row = hands[w].row /\ (hands'[w].pc = "locked" <=> hands[w].pc = "locked")
  <2>1. CASE hands[w].pc = "claimed"
    <3>1. Busy(w) /\ hands[w] \in [pc: {"locked", "claimed", "executing"}, row: QueueRow]
      BY <2>1, HeldIs DEF Busy
    <3>2. hands'[w] = [pc |-> "executing", row |-> hands[w].row]
      BY <1>5, <2>1, <3>1
    <3> QED BY <2>1, <3>1, <3>2 DEF Hands, Busy
  <2>2. CASE hands[w].pc # "claimed"
    <3>1. hands'[w] = hands[w]
      BY <1>5, <2>2
    <3> QED BY <3>1 DEF ClaimInv, Busy
  <2> QED BY <2>1, <2>2
<1>7. hands' \in [Worker -> Hands]
  <2>1. PICK f : f = hands'
    OBVIOUS
  <2>2. DOMAIN f = Worker /\ f = [w \in Worker |-> f[w]]
    BY <1>5, <2>1
  <2>3. \A w \in Worker : f[w] \in Hands
    BY <1>6, <2>1
  <2> QED BY <2>1, <2>2, <2>3
<1>8. idle' \in [Worker -> 0 .. TickInterval]
  <2> SUFFICES ASSUME NEW w \in Worker PROVE Claiming!Min({idle[w] + 1, TickInterval}) \in 0 .. TickInterval
    BY DEF Claiming!Tick
  <2>1. idle[w] \in 0 .. TickInterval /\ idle[w] + 1 \in Nat /\ TickInterval \in Nat
    BY ClaimAssumption DEF ClaimInv
  <2>2. Claiming!Min({idle[w] + 1, TickInterval}) = IF idle[w] + 1 <= TickInterval THEN idle[w] + 1 ELSE TickInterval
    BY <2>1, SmallerIs
  <2> QED BY <2>1, <2>2
<1>9. ASSUME NEW w \in Worker, Busy(w) PROVE HeldAreThere(w)'
  <2>1. PICK r : r = hands[w].row
    OBVIOUS
  <2>2. r \in QueueRow /\ HeldAreThere(w) /\ present[r] # None /\ hands[w].pc \in {"locked", "claimed", "executing"}
    BY <1>9, <2>1, HeldIs DEF HeldAreThere
  <2>3. present'[r] = Claiming!Aged(r) /\ present'[r] # None /\ hands'[w].row = r
    BY <1>1, <1>6, <1>9, <2>1, <2>2, RunsAge, ClaimAssumption
  <2>4. CASE hands[w].pc = "locked"
    <3>1. r \notin Claiming!Beating
      <4> SUFFICES ASSUME NEW u \in Worker, hands[u].pc \in {"claimed", "executing"}, hands[u].row = r PROVE FALSE
        BY DEF Claiming!Beating
      <4>1. Busy(u)
        BY DEF Busy
      <4>2. u = w
        BY <1>9, <2>1, <4>1 DEF ClaimInv, HandsAgree
      <4> QED BY <2>4, <4>2
    <3>2. hands'[w].pc = "locked" /\ (present[r].status = "queued" \/ Claiming!Lapsed(present[r])) /\ present[r].attempts < MaxClaims
      BY <1>6, <1>9, <2>1, <2>2, <2>4 DEF HeldAreThere
    <3>3. present[r].status = "queued" \/ (present[r].status = "running" /\ present[r].lease = 0)
      BY <3>2 DEF Claiming!Lapsed
    <3>4. /\ present'[r].status = present[r].status /\ present'[r].attempts = present[r].attempts
          /\ present[r].lease = 0 => present'[r].lease = 0
      BY <2>2, <2>3, <3>1, RunsAge
    <3> QED BY <2>3, <3>2, <3>3, <3>4 DEF HeldAreThere, Claiming!Lapsed
  <2>5. CASE hands[w].pc # "locked"
    <3>1. r \in Claiming!Beating
      BY <2>1, <2>2, <2>5 DEF Claiming!Beating
    <3>2. present'[r].status = "running" /\ present'[r].lease = Lease
      BY <2>1, <2>2, <2>3, <2>5, <3>1, RunsAge DEF HeldAreThere
    <3>3. hands'[w].pc # "locked"
      BY <1>6, <1>9, <2>5
    <3> QED BY <2>3, <3>2, <3>3 DEF HeldAreThere
  <2> QED BY <2>4, <2>5
<1>10. HandsAgree'
  <2> SUFFICES ASSUME NEW w \in Worker, Busy(w)'
               PROVE  HeldAreThere(w)' /\ \A u \in Worker : Busy(u)' /\ hands'[u].row = hands'[w].row => u = w
    BY DEF HandsAgree
  <2>1. Busy(w) /\ hands'[w].row = hands[w].row
    BY <1>6
  <2>2. HeldAreThere(w)'
    BY <1>9, <2>1
  <2>3. ASSUME NEW u \in Worker, Busy(u)', hands'[u].row = hands'[w].row PROVE u = w
    <3>1. Busy(u) /\ hands[u].row = hands[w].row
      BY <1>6, <2>1, <2>3
    <3> QED BY <2>1, <3>1 DEF ClaimInv, HandsAgree
  <2> QED BY <2>2, <2>3
<1> QED BY <1>1, <1>2, <1>3, <1>4, <1>7, <1>8, <1>10 DEF ClaimInv

LEMMA ClaimStep == ASSUME ClaimInv, [Claiming!Next]_(Claiming!claimVars) PROVE ClaimInv'
<1>1. CASE UNCHANGED Claiming!claimVars
  <2>1. UNCHANGED <<present, line, over, hands, idle, crashes>>
    BY <1>1 DEF Claiming!claimVars
  <2> QED BY <2>1, HandsStay DEF ClaimInv, Lists
<1>2. ASSUME NEW w \in Worker, Claiming!Work(w) \/ Claiming!Maintain(w) \/ Claiming!Crash(w) PROVE ClaimInv'
  BY <1>2, RunsAreAbandoned, RowsAreLocked, ClaimsAreCommitted, WorkersMaintain, WorkersFinish, WorkersCrash DEF Claiming!Work
<1> QED BY <1>1, <1>2, RunsJoinTheLine, QueueTimePasses DEF Claiming!Next

HIDE DEF present, line, over, hands, idle, crashes
===============================================================================
