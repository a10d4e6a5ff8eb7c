--------------------------- MODULE Access_proofs ----------------------------
(***************************************************************************)
(* The way in: what may change an account or a key, for every number of    *)
(* operators, keys, passwords and overlapping requests, and what the       *)
(* limiter lets through, for every number of clients and requests, any     *)
(* window and any budgets.                                                 *)
(***************************************************************************)
EXTENDS Accounts, RateLimiter, FiniteSetTheorems, TLAPS

Columns == {"role", "active", "password", "failed", "locked"}

(* A row has the columns of its table, from when it is added.              *)
Shaped(t, i) ==
  /\ i \in People => DOMAIN t[i] = Columns
  /\ i \in Keys => DOMAIN t[i] = {"owner", "active"}

Tables ==
  /\ db = [i \in Rows |-> db[i]]
  /\ \A i \in Rows : db[i] # NoRow => Shaped(db, i)

(* A session writes the columns its audit entry accounts for, whatever the *)
(* row it had loaded looks like by now.                                    *)
WritesUser(s) ==
  /\ {"role", "active"} \cap DOMAIN s.columns # {} => s.action = "user.updated"
  /\ "password" \in DOMAIN s.columns => s.action = "user.password_changed"

WritesKey(s) ==
  "active" \in DOMAIN s.columns =>
    s.columns["active"] = FALSE /\ s.action = "apikey.revoked"

Accounted(s) ==
  IF s.kind = "insert"
  THEN /\ s.row \in People => DOMAIN s.columns = Columns
       /\ s.row \in Keys => DOMAIN s.columns = {"owner", "active"}
  ELSE /\ s.row \in People => WritesUser(s)
       /\ s.row \in Keys => WritesKey(s)

(* The row a session has loaded, and may write, is there.                  *)
Loaded(t, s) ==
  /\ s.op \in {"viewer", "admin"} => Shaped(t, s.actor)
  /\ s.op = "commit" /\ s.kind # "insert" => Shaped(t, s.row)

Good(t, s) == s # NoRequest => Loaded(t, s) /\ (s.op = "commit" => Accounted(s))

Sessions ==
  /\ request = [r \in Requests |-> request[r]]
  /\ \A r \in Requests : Good(db, request[r])

Inv == Tables /\ Sessions
-----------------------------------------------------------------------------
(* A flush writes a column only if the handler gave it another value.      *)
LEMMA WrittenDiffers ==
  ASSUME NEW base, NEW row, NEW c \in DOMAIN Written(base, row)
  PROVE  c \in DOMAIN row /\ row[c] # base[c] /\ Written(base, row)[c] = row[c]
BY DEF Written

(* A request takes the session it is given, and the others stay, as long   *)
(* as no row loses its columns.                                            *)
LEMMA BecomeGood ==
  ASSUME Sessions, NEW r \in Requests, NEW s,
         request' = [request EXCEPT ![r] = s], Good(db', s),
         \A i : Shaped(db, i) => Shaped(db', i)
  PROVE  Sessions'
<1>1. request' = [q \in Requests |-> IF q = r THEN s ELSE request[q]]
  BY DEF Sessions
<1>2. ASSUME NEW q \in Requests PROVE Good(db', request'[q])
  <2>1. CASE q = r
    BY <1>1, <2>1
  <2>2. CASE q # r
    BY <1>1, <2>2 DEF Sessions, Good, Loaded
  <2> QED
    BY <2>1, <2>2
<1>3. request' = [q \in Requests |-> request'[q]]
  BY <1>1
<1> QED
  BY <1>2, <1>3 DEF Sessions, Good, Loaded, Shaped, Accounted, WritesUser, WritesKey

LEMMA RaisedGood ==
  ASSUME Sessions, UNCHANGED db, NEW r \in Requests, NEW i, NEW base, NEW row, NEW action,
         request' = [request EXCEPT ![r] = Raised(i, base, row, action)]
  PROVE  Sessions'
<1>1. Raised(i, base, row, action).op = "rollback"
  BY DEF Raised, Through
<1>2. Good(db', Raised(i, base, row, action))
  BY <1>1 DEF Good, Loaded
<1> QED
  BY <1>2, BecomeGood

LEMMA AddedGood ==
  ASSUME Sessions, UNCHANGED db, NEW r \in Requests, NEW i, NEW row, NEW action,
         request' = [request EXCEPT ![r] = Added(i, row, action)],
         i \in People => DOMAIN row = Columns,
         i \in Keys => DOMAIN row = {"owner", "active"}
  PROVE  Sessions'
<1>1. LET s == Added(i, row, action)
      IN  s.op = "commit" /\ s.kind = "insert" /\ s.row = i /\ s.columns = row
  BY DEF Added, Through
<1>2. Good(db', Added(i, row, action))
  BY <1>1 DEF Good, Loaded, Accounted
<1> QED
  BY <1>2, BecomeGood

(* A change is accounted for when each protected column that differs is.   *)
LEMMA ChangedGood ==
  ASSUME Sessions, UNCHANGED db, NEW r \in Requests, NEW i, NEW base, NEW row, NEW action,
         request' = [request EXCEPT ![r] = Changed(i, base, row, action)],
         Shaped(db, i),
         \A c \in DOMAIN row : row[c] # base[c] =>
           /\ i \in People /\ c \in {"role", "active"} => action = "user.updated"
           /\ i \in People /\ c = "password" => action = "user.password_changed"
           /\ i \in Keys /\ c = "active" => row[c] = FALSE /\ action = "apikey.revoked"
  PROVE  Sessions'
<1> DEFINE s == Changed(i, base, row, action)
<1>1. /\ s.op = "commit" /\ s.kind = "update" /\ s.row = i /\ s.action = action
      /\ s.columns = Written(base, row)
  BY DEF Changed, Through
<1>2. \A c \in DOMAIN s.columns :
        c \in DOMAIN row /\ row[c] # base[c] /\ s.columns[c] = row[c]
  BY <1>1, WrittenDiffers
<1> HIDE DEF s
<1>3. Accounted(s)
  <2>1. ASSUME i \in People PROVE WritesUser(s)
    BY <1>1, <1>2, <2>1 DEF WritesUser
  <2>2. ASSUME i \in Keys PROVE WritesKey(s)
    BY <1>1, <1>2, <2>2 DEF WritesKey
  <2> QED
    BY <1>1, <2>1, <2>2 DEF Accounted
<1>4. Good(db', s)
  BY <1>1, <1>3 DEF Good, Loaded
<1> QED
  BY <1>4, BecomeGood DEF s
-----------------------------------------------------------------------------
LEMMA DisjointRows == People \cap Keys = {}
BY AccountsAssumption DEF AccountsAssumption

LEMMA RowShaped ==
  ASSUME Inv, NEW i, db[i] # NoRow PROVE Shaped(db, i)
BY DEF Inv, Tables, Shaped, Rows

LEMMA PrincipalShaped ==
  ASSUME Inv, NEW r \in Requests, NEW op \in {"viewer", "admin"}, Runs(r, op)
  PROVE  Shaped(db, request[r].actor)
BY DEF Inv, Sessions, Good, Loaded, Runs

LEMMA LoginKeeps ==
  ASSUME Inv, NEW r \in Requests, NEW p \in People, NEW w,
         Login(r, p, w) \/ LoginFails(r, p, w)
  PROVE  Sessions'
<1>1. CASE LoginFails(r, p, w)
  BY <1>1, RaisedGood DEF LoginFails, Become, Inv
<1>2. CASE Login(r, p, w)
  <2> DEFINE row == [db[p] EXCEPT !.failed = 0, !.locked = FALSE]
  <2>1. request' = [request EXCEPT ![r] = Changed(p, db[p], row, "auth.login")]
    BY <1>2 DEF Login
  <2>2. \A c \in DOMAIN row : row[c] # db[p][c] => c \in {"failed", "locked"}
    OBVIOUS
  <2>3. p \notin Keys
    BY DisjointRows
  <2>4. Shaped(db, p) /\ UNCHANGED db
    BY <1>2, RowShaped DEF Login, MayLogin
  <2> HIDE DEF row
  <2> QED
    BY <2>1, <2>2, <2>3, <2>4, ChangedGood DEF Inv
<1> QED
  BY <1>1, <1>2

(* Authentication loads a principal, or marks a key as used.               *)
LEMMA AuthenticateKeeps ==
  ASSUME Inv, NEW r \in Requests,
         \/ \E t \in token, level \in {"viewer", "admin"} : Authenticate(r, t, level)
         \/ \E k \in Keys : AuthenticateKey(r, k)
  PROVE  Sessions'
<1>1. CASE \E t \in token, level \in {"viewer", "admin"} : Authenticate(r, t, level)
  <2>1. PICK t \in token, level \in {"viewer", "admin"} : Authenticate(r, t, level)
    BY <1>1
  <2>2. Shaped(db, t.sub) /\ UNCHANGED db
    BY <2>1, RowShaped DEF Authenticate, Become
  <2>3. Good(db', Pending(level, t.sub))
    BY <2>2 DEF Pending, Good, Loaded
  <2> QED
    BY <2>1, <2>2, <2>3, BecomeGood DEF Authenticate, Become, Inv
<1>2. CASE \E k \in Keys : AuthenticateKey(r, k)
  <2>1. PICK k \in Keys : AuthenticateKey(r, k)
    BY <1>2
  <2>2. Shaped(db, k)
    BY <2>1, RowShaped DEF AuthenticateKey
  <2> QED
    BY <2>1, <2>2, ChangedGood DEF AuthenticateKey, Become, Inv
<1> QED
  BY <1>1, <1>2

(* Each handler changes the protected columns its entry names, and no      *)
(* others, however old the object is that it changes.                      *)
LEMMA HandleKeeps ==
  ASSUME Inv, NEW r \in Requests, Handle(r)
  PROVE  Sessions'
<1> USE DEF Handled, Become
<1>1. CASE UpdateMe(r)
  BY <1>1, PrincipalShaped, ChangedGood DEF UpdateMe, Inv
<1>2. ASSUME NEW old, NEW new, ChangePassword(r, old, new)
      PROVE  Sessions'
  <2> DEFINE me == request[r].loaded
             row == [me EXCEPT !.password = new]
             i == request[r].actor
  <2>1. CASE old # me.password
    BY <1>2, <2>1, RaisedGood DEF ChangePassword, Inv
  <2>2. CASE old = me.password
    <3>1. request' = [request EXCEPT ![r] = Changed(i, me, row, "user.password_changed")]
      BY <1>2, <2>2 DEF ChangePassword
    <3>2. \A c \in DOMAIN row : row[c] # me[c] => c = "password"
      OBVIOUS
    <3>3. Shaped(db, i) /\ UNCHANGED db
      BY <1>2, PrincipalShaped DEF ChangePassword
    <3> HIDE DEF row, me, i
    <3> QED
      BY <3>1, <3>2, <3>3, ChangedGood DEF Inv
  <2> QED
    BY <2>1, <2>2
<1>3. ASSUME NEW p \in People, NEW role, CreateUser(r, p, role)
      PROVE  Sessions'
  <2>1. p \notin Keys
    BY DisjointRows
  <2>2. DOMAIN Account(role, Initial) = Columns
    BY DEF Account, Columns
  <2> QED
    BY <1>3, <2>1, <2>2, AddedGood DEF CreateUser, Inv
<1>4. ASSUME NEW p \in People, NEW changes \in Changes, UpdateUser(r, p, changes)
      PROVE  Sessions'
  <2> DEFINE base == Object(r, p)
             row == Patched(base, changes)
  <2>1. CASE p = request[r].actor /\ Excluding(changes)
    BY <1>4, <2>1, RaisedGood DEF UpdateUser, Inv
  <2>2. CASE ~(p = request[r].actor /\ Excluding(changes))
    <3>1. request' = [request EXCEPT ![r] = Changed(p, base, row, "user.updated")]
      BY <1>4, <2>2 DEF UpdateUser
    <3>2. DOMAIN changes \subseteq {"role", "active"}
      BY DEF Changes
    <3>3. \A c \in DOMAIN row : row[c] # base[c] => c \in {"role", "active"}
      BY <3>2 DEF Patched
    <3>4. p \notin Keys
      BY DisjointRows
    <3>5. Shaped(db, p) /\ UNCHANGED db
      BY <1>4, RowShaped DEF UpdateUser
    <3> HIDE DEF row, base
    <3> QED
      BY <3>1, <3>3, <3>4, <3>5, ChangedGood DEF Inv
  <2> QED
    BY <2>1, <2>2
<1>5. ASSUME NEW k \in Keys, CreateKey(r, k)
      PROVE  Sessions'
  <2>1. k \notin People
    BY DisjointRows
  <2>2. DOMAIN Key(request[r].actor) = {"owner", "active"}
    BY DEF Key
  <2> QED
    BY <1>5, <2>1, <2>2, AddedGood DEF CreateKey, Inv
<1>6. ASSUME NEW k \in Keys, RevokeKey(r, k)
      PROVE  Sessions'
  <2> DEFINE row == [db[k] EXCEPT !.active = FALSE]
  <2>1. request' = [request EXCEPT ![r] = Changed(k, db[k], row, "apikey.revoked")]
    BY <1>6 DEF RevokeKey
  <2>2. \A c \in DOMAIN row : c = "active" => row[c] = FALSE
    OBVIOUS
  <2>3. k \notin People
    BY DisjointRows
  <2>4. Shaped(db, k) /\ UNCHANGED db
    BY <1>6, RowShaped DEF RevokeKey
  <2> HIDE DEF row
  <2> QED
    BY <2>1, <2>2, <2>3, <2>4, ChangedGood DEF Inv
<1> QED
  BY <1>1, <1>2, <1>3, <1>4, <1>5, <1>6 DEF Handle
-----------------------------------------------------------------------------
(* What a commit does to one row.                                          *)
LEMMA CommitRow ==
  ASSUME Inv, NEW r \in Requests, Commit(r), NEW i \in Rows
  PROVE  LET s == request[r]
         IN  \/ db'[i] = db[i] /\ i # s.row
             \/ i = s.row /\ s.kind = "insert" /\ db[i] = NoRow /\ db'[i] = s.columns
             \/ /\ i = s.row /\ s.kind # "insert"
                /\ db'[i] = [c \in DOMAIN db[i] |-> IF c \in DOMAIN s.columns
                                                   THEN s.columns[c] ELSE db[i][c]]
BY DEF Commit, Flushed, Inv, Tables

LEMMA CommitKeeps ==
  ASSUME Inv, NEW r \in Requests, Commit(r)
  PROVE  Inv'
<1> DEFINE s == request[r]
<1>1. /\ s # NoRequest /\ s.op = "commit" /\ Accounted(s) /\ Loaded(db, s)
  BY DEF Commit, Runs, Inv, Sessions, Good
<1>2. db' = [i \in Rows |-> db'[i]]
  BY DEF Commit, Flushed, Inv, Tables
<1>3. ASSUME NEW i \in Rows, Shaped(db, i) \/ i = s.row
      PROVE  Shaped(db', i)
  <2>1. CASE i # s.row
    BY <1>3, <2>1, CommitRow DEF Shaped
  <2>2. CASE i = s.row /\ s.kind = "insert"
    BY <1>1, <2>2, CommitRow DEF Shaped, Accounted
  <2>3. CASE i = s.row /\ s.kind # "insert"
    <3>1. Shaped(db, i)
      BY <1>1, <2>3 DEF Loaded
    <3>2. DOMAIN db'[i] = DOMAIN db[i]
      BY <2>3, CommitRow
    <3> QED
      BY <3>1, <3>2 DEF Shaped
  <2> QED
    BY <2>1, <2>2, <2>3
<1>4. \A i : Shaped(db, i) => Shaped(db', i)
  BY <1>3 DEF Shaped, Rows
<1>5. \A i \in Rows : db'[i] # NoRow => Shaped(db', i)
  BY <1>3, CommitRow DEF Inv, Tables
<1>6. Sessions'
  <2>1. request' = [request EXCEPT ![r] = NoRequest] /\ Good(db', NoRequest)
    BY DEF Commit, Good
  <2> QED
    BY <1>4, <2>1, BecomeGood DEF Inv
<1> QED
  BY <1>2, <1>5, <1>6 DEF Inv, Tables, Shaped

LEMMA StartKeeps ==
  ASSUME Inv, Start
  PROVE  Inv'
<1>1. ASSUME NEW i \in Rows
      PROVE  \/ db'[i] = db[i]
             \/ db[i] = NoRow /\ i \in People /\ DOMAIN db'[i] = Columns
  BY AccountsAssumption DEF Start, Missing, Account, Columns, AccountsAssumption
<1>2. \A i \in Rows : db'[i] # NoRow => Shaped(db', i)
  BY <1>1, DisjointRows DEF Inv, Tables, Shaped
<1>3. db' = [i \in Rows |-> db'[i]]
  BY DEF Start
<1>4. Sessions'
  BY DEF Start, Sessions, Good
<1> QED
  BY <1>2, <1>3, <1>4 DEF Inv, Tables, Shaped

LEMMA RollbackKeeps ==
  ASSUME Inv, NEW r \in Requests, Rollback(r)
  PROVE  Sessions' /\ UNCHANGED db
<1>1. Good(db', NoRequest) /\ UNCHANGED db
  BY DEF Rollback, Become, Good
<1> QED
  BY <1>1, BecomeGood DEF Rollback, Become, Inv
-----------------------------------------------------------------------------
LEMMA RequestKeeps ==
  ASSUME Inv, NEW r \in Requests, Request(r)
  PROVE  Sessions' /\ UNCHANGED db
<1>1. CASE \E p \in People, w \in Passwords \cup {Wrong} : Login(r, p, w) \/ LoginFails(r, p, w)
  <2>1. UNCHANGED db
    BY <1>1 DEF Login, LoginFails, Become
  <2> QED
    BY <1>1, <2>1, LoginKeeps
<1>2. CASE \/ \E t \in token, level \in {"viewer", "admin"} : Authenticate(r, t, level)
           \/ \E k \in Keys : AuthenticateKey(r, k)
  <2>1. UNCHANGED db
    BY <1>2 DEF Authenticate, AuthenticateKey, Become
  <2> QED
    BY <1>2, <2>1, AuthenticateKeeps
<1>3. CASE Handle(r)
  <2>1. UNCHANGED db
    BY <1>3 DEF Handle, UpdateMe, ChangePassword, CreateUser, UpdateUser, CreateKey, RevokeKey,
                Handled, Become
  <2> QED
    BY <1>3, <2>1, HandleKeeps
<1> QED
  BY <1>1, <1>2, <1>3 DEF Request

LEMMA StepKeeps ==
  ASSUME Inv, [Next]_vars
  PROVE  Inv'
<1>1. ASSUME Sessions', UNCHANGED db PROVE Inv'
  BY <1>1 DEF Inv, Tables, Shaped
<1>2. ASSUME NEW r \in Requests, Request(r) \/ Rollback(r) PROVE Inv'
  BY <1>1, <1>2, RequestKeeps, RollbackKeeps
<1>3. ASSUME NEW r \in Requests, Commit(r) PROVE Inv'
  BY <1>3, CommitKeeps
<1>4. CASE Start
  BY <1>4, StartKeeps
<1>5. CASE UNCHANGED <<db, request>>
  BY <1>5 DEF Inv, Tables, Shaped, Sessions, Good, Loaded, Accounted, WritesUser, WritesKey
<1> QED
  BY <1>2, <1>3, <1>4, <1>5 DEF Next, Refresh, TokenExpires, vars

LEMMA InitInv == Init => Inv
BY DEF Init, Inv, Tables, Sessions, Good

LEMMA InvAlways == Spec => []Inv
BY InitInv, StepKeeps, PTL DEF Spec

(* What one step may do to an account or a key that was there.             *)
Decided ==
  /\ \A p \in People :
       db[p] # NoRow =>
         /\ <<db'[p].role, db'[p].active>> # <<db[p].role, db[p].active>>
              => Recorded("user.updated", p)
         /\ db'[p].password # db[p].password
              => Recorded("user.password_changed", p)
  /\ \A k \in Keys :
       db[k] # NoRow /\ db'[k].active # db[k].active =>
         ~db'[k].active /\ Recorded("apikey.revoked", k)

LEMMA CommitDecided ==
  ASSUME Inv, NEW r \in Requests, Commit(r)
  PROVE  Decided
<1> DEFINE s == request[r]
<1>1. \A action : s.action = action => Recorded(action, s.row)
  BY DEF Commit, Recorded, Inv, Sessions
<1>2. Accounted(s)
  BY DEF Commit, Runs, Inv, Sessions, Good
<1>3. ASSUME NEW i \in Rows, db[i] # NoRow, db'[i] # db[i]
      PROVE  /\ i = s.row /\ s.kind # "insert" /\ Shaped(db, i)
             /\ db'[i] = [c \in DOMAIN db[i] |-> IF c \in DOMAIN s.columns
                                                THEN s.columns[c] ELSE db[i][c]]
  BY <1>3, CommitRow, RowShaped
<1>4. ASSUME NEW p \in People, db[p] # NoRow, db'[p] # db[p]
      PROVE  /\ <<db'[p].role, db'[p].active>> # <<db[p].role, db[p].active>>
                  => Recorded("user.updated", p)
             /\ db'[p].password # db[p].password
                  => Recorded("user.password_changed", p)
  <2>1. p = s.row /\ WritesUser(s) /\ DOMAIN db[p] = Columns
    BY <1>2, <1>3, <1>4 DEF Accounted, Shaped, Rows
  <2>2. \A c \in Columns : db'[p][c] # db[p][c] => c \in DOMAIN s.columns
    <3>1. db'[p] = [c \in DOMAIN db[p] |-> IF c \in DOMAIN s.columns
                                          THEN s.columns[c] ELSE db[p][c]]
      BY <1>3, <1>4 DEF Rows
    <3> HIDE DEF s
    <3> QED
      BY <2>1, <3>1
  <2> QED
    BY <1>1, <2>1, <2>2 DEF WritesUser, Columns
<1>5. ASSUME NEW k \in Keys, db[k] # NoRow, db'[k].active # db[k].active
      PROVE  ~db'[k].active /\ Recorded("apikey.revoked", k)
  <2>1. k = s.row /\ WritesKey(s) /\ DOMAIN db[k] = {"owner", "active"}
    BY <1>2, <1>3, <1>5 DEF Accounted, Shaped, Rows
  <2>2. "active" \in DOMAIN s.columns /\ db'[k].active = s.columns["active"]
    BY <1>3, <1>5, <2>1 DEF Rows
  <2> QED
    BY <1>1, <2>1, <2>2 DEF WritesKey
<1> QED
  BY <1>4, <1>5 DEF Decided

LEMMA StepDecided ==
  ASSUME Inv, [Next]_vars
  PROVE  Decided
<1>1. ASSUME UNCHANGED db PROVE Decided
  BY <1>1 DEF Decided
<1>2. ASSUME NEW r \in Requests, Request(r) \/ Rollback(r) PROVE Decided
  BY <1>1, <1>2, RequestKeeps, RollbackKeeps
<1>3. ASSUME NEW r \in Requests, Commit(r) PROVE Decided
  BY <1>3, CommitDecided
<1>4. CASE Start
  <2>1. \A i \in Rows : db[i] # NoRow => db'[i] = db[i]
    BY <1>4 DEF Start, Missing
  <2> QED
    BY <2>1 DEF Decided, Rows
<1>5. CASE UNCHANGED <<db, request>>
  BY <1>1, <1>5
<1> QED
  BY <1>2, <1>3, <1>4, <1>5 DEF Next, Refresh, TokenExpires, vars

(* Standing, passwords and keys change by recorded decisions only, for any *)
(* number of overlapping requests: a session writes the columns its own    *)
(* handler changed (the unit of work behind db/session.py), so an old      *)
(* object cannot bring back what another session has changed.              *)
THEOREM StandingDecided == Spec => StandingIsDecided
<1>1. Inv /\ [Next]_vars => [Decided]_vars
  BY StepDecided
<1>2. Spec => [][Decided]_vars
  BY <1>1, InvAlways, PTL DEF Spec
<1> QED
  BY <1>2 DEF StandingIsDecided, Decided
-----------------------------------------------------------------------------
(* The limiter.                                                            *)

Entry == [kind : Kinds, age : 0 .. Window]

LimiterTypeOK ==
  /\ hits \in [Clients -> Seq(Ages)]
  /\ slot \in [Slots -> Nat \cup {Free}]
  /\ admitted \in [Clients -> Seq(Entry)]

(* The end of the log is what was let through in the last window, and all  *)
(* before it is older: a log may be behind with its pruning, but is not    *)
(* dropped while something in it counts.                                   *)
Agrees(log, let) ==
  /\ Len(let) <= Len(log)
  /\ \A i \in 1 .. Len(let) : log[Len(log) - Len(let) + i] = let[i].age
  /\ \A i \in 1 .. Len(log) - Len(let) : log[i] > Window
  /\ \A i, j \in 1 .. Len(let) : i <= j => let[j].age <= let[i].age

LimiterInv ==
  /\ LimiterTypeOK
  /\ \A c \in Clients : Agrees(hits[c], admitted[c])
  /\ NeverOverBudget

(* A finite set of numbers has a largest one.                              *)
LEMMA FiniteMax ==
  ASSUME NEW S \in SUBSET Nat, IsFiniteSet(S), S # {}
  PROVE  \E m \in S : \A x \in S : x <= m
<1> DEFINE HasMax(U) == \E m \in U : \A x \in U : x <= m
           Bad == {U \in FiniteSubsetsOf(S) : U # {} /\ ~HasMax(U)}
<1>1. SUFFICES ASSUME Bad # {} PROVE FALSE
  <2>1. S \in FiniteSubsetsOf(S)
    BY DEF FiniteSubsetsOf
  <2> QED
    BY <2>1
<1>2. PICK U \in Bad : \A V \in Bad : ~(<<V, U>> \in StrictSubsetOrdering(S))
  <2> HIDE DEF Bad
  <2>1. Bad \subseteq FiniteSubsetsOf(S)
    BY DEF Bad
  <2> QED
    BY <1>1, <2>1, WFMin, FS_StrictSubsetOrderingWellFounded
<1>3. U \subseteq S /\ IsFiniteSet(U) /\ U # {} /\ ~HasMax(U)
  BY <1>2 DEF FiniteSubsetsOf
<1>4. PICK x \in U : TRUE
  BY <1>3
<1> DEFINE V == U \ {x}
<1>5. V \in FiniteSubsetsOf(S) /\ <<V, U>> \in StrictSubsetOrdering(S)
  <2>1. IsFiniteSet(V)
    BY <1>3, FS_RemoveElement
  <2> QED
    BY <1>3, <1>4, <2>1 DEF FiniteSubsetsOf, StrictSubsetOrdering
<1>6. CASE V = {}
  BY <1>3, <1>4, <1>6
<1>7. CASE V # {}
  <2>1. PICK m \in V : \A y \in V : y <= m
    BY <1>2, <1>5, <1>7
  <2>2. x \in Nat /\ m \in Nat /\ \A y \in U : y = x \/ y <= m
    BY <1>3, <1>4, <2>1
  <2>3. CASE x <= m
    BY <1>3, <2>1, <2>2, <2>3
  <2>4. CASE ~(x <= m)
    <3>1. \A y \in U : y <= x
      <4> SUFFICES ASSUME NEW y \in U PROVE y <= x
        OBVIOUS
      <4>1. y \in Nat
        BY <1>3
      <4> QED
        BY <2>2, <2>4, <4>1
    <3> QED
      BY <1>3, <1>4, <3>1
  <2> QED
    BY <2>3, <2>4
<1> QED
  BY <1>6, <1>7

IsExpired(ages, n) ==
  /\ n \in 0 .. Len(ages)
  /\ \A i \in 1 .. n : ages[i] > Window
  /\ n < Len(ages) => ages[n + 1] <= Window

(* The loop that prunes stops, and where it does is determined.            *)
LEMMA ExpiredThere ==
  ASSUME NEW ages \in Seq(Nat)
  PROVE  IsExpired(ages, Expired(ages))
<1> DEFINE S == {n \in 0 .. Len(ages) : \A i \in 1 .. n : ages[i] > Window}
<1>1. Len(ages) \in Nat /\ Window \in Nat /\ \A i \in 1 .. Len(ages) : ages[i] \in Nat
  BY LimiterAssumption
<1>2. S \in SUBSET Nat /\ 0 \in S
  BY <1>1
<1>3. IsFiniteSet(S)
  <2>1. S \in SUBSET (0 .. Len(ages))
    OBVIOUS
  <2>2. IsFiniteSet(0 .. Len(ages))
    BY <1>1, FS_Interval
  <2> HIDE DEF S
  <2> QED
    BY <2>1, <2>2, FS_Subset
<1>4. PICK m \in S : \A x \in S : x <= m
  <2> HIDE DEF S
  <2> QED
    BY <1>2, <1>3, FiniteMax
<1>5. m < Len(ages) => ages[m + 1] <= Window
  <2> SUFFICES ASSUME m < Len(ages), ages[m + 1] > Window PROVE FALSE
    BY <1>1, <1>4
  <2>1. \A i \in 1 .. m + 1 : i \in 1 .. m \/ i = m + 1
    BY <1>1, <1>4
  <2>2. m + 1 \in S
    BY <1>1, <1>4, <2>1
  <2>3. m + 1 <= m /\ m \in Nat
    BY <1>2, <1>4, <2>2
  <2> QED
    BY <2>3
<1>6. IsExpired(ages, m)
  BY <1>4, <1>5 DEF IsExpired
<1> HIDE DEF S
<1> QED
  BY <1>6 DEF IsExpired, Expired

LEMMA ExpiredIs ==
  ASSUME NEW ages \in Seq(Nat), NEW n, IsExpired(ages, n)
  PROVE  Expired(ages) = n
<1> DEFINE m == Expired(ages)
<1>1. IsExpired(ages, m)
  BY ExpiredThere
<1> HIDE DEF m
<1>2. /\ n \in Nat /\ m \in Nat /\ Window \in Nat /\ Len(ages) \in Nat
      /\ \A i \in 1 .. Len(ages) : ages[i] \in Nat
  BY <1>1, LimiterAssumption DEF IsExpired
<1>3. ~(n < m)
  <2> SUFFICES ASSUME n < m PROVE FALSE
    OBVIOUS
  <2>1. n + 1 \in 1 .. m /\ n < Len(ages) /\ n + 1 \in 1 .. Len(ages)
    BY <1>1, <1>2 DEF IsExpired
  <2>2. ages[n + 1] > Window /\ ages[n + 1] <= Window
    BY <1>1, <2>1 DEF IsExpired
  <2> QED
    BY <1>2, <2>1, <2>2
<1>4. ~(m < n)
  <2> SUFFICES ASSUME m < n PROVE FALSE
    OBVIOUS
  <2>1. m + 1 \in 1 .. n /\ m < Len(ages) /\ m + 1 \in 1 .. Len(ages)
    BY <1>1, <1>2 DEF IsExpired
  <2>2. ages[m + 1] > Window /\ ages[m + 1] <= Window
    BY <1>1, <2>1 DEF IsExpired
  <2> QED
    BY <1>2, <2>1, <2>2
<1> QED
  BY <1>2, <1>3, <1>4 DEF m

LEMMA AgesAreNumbers == Ages \subseteq Nat /\ 0 \in Ages /\ Oldest \in Nat /\ Window < Oldest
BY LimiterAssumption DEF Ages, Oldest, IdleAfter

LEMMA LogIsNumbers ==
  ASSUME NEW log \in Seq(Ages)
  PROVE  log \in Seq(Nat)
<1>1. \A i \in 1 .. Len(log) : log[i] \in Ages
  OBVIOUS
<1>2. \A i \in 1 .. Len(log) : log[i] \in Nat
  BY <1>1, AgesAreNumbers
<1> QED
  BY <1>2

LEMMA EntriesAreRecent ==
  ASSUME NEW let \in Seq(Entry)
  PROVE  Len(let) \in Nat /\ \A i \in 1 .. Len(let) : let[i] \in Entry /\ let[i].age \in 0 .. Window
<1>1. \A i \in 1 .. Len(let) : let[i] \in Entry
  OBVIOUS
<1>2. \A e \in Entry : e.age \in 0 .. Window
  BY DEF Entry
<1> QED
  BY <1>1, <1>2

(* Pruned, the log is what was let through in the last window.             *)
LEMMA PrunedAgrees ==
  ASSUME NEW log \in Seq(Ages), NEW let \in Seq(Entry), Agrees(log, let)
  PROVE  /\ Pruned(log) \in Seq(Ages) /\ Len(Pruned(log)) = Len(let)
         /\ \A i \in 1 .. Len(let) : Pruned(log)[i] = let[i].age
<1> DEFINE d == Len(log) - Len(let)
<1>1. /\ Len(log) \in Nat /\ Len(let) \in Nat /\ d \in 0 .. Len(log)
      /\ \A i \in 1 .. Len(let) : let[i].age \in 0 .. Window
  <2>1. Len(log) \in Nat /\ Len(let) \in Nat /\ Len(let) <= Len(log)
    BY DEF Agrees
  <2> QED
    BY <2>1, EntriesAreRecent
<1>2. log \in Seq(Nat)
  BY LogIsNumbers
<1>3. d < Len(log) => log[d + 1] <= Window
  <2> SUFFICES ASSUME d < Len(log) PROVE log[d + 1] <= Window
    OBVIOUS
  <2>1. 1 \in 1 .. Len(let)
    BY <1>1
  <2> QED
    BY <1>1, <2>1, LimiterAssumption DEF Agrees
<1>4. IsExpired(log, d)
  BY <1>1, <1>3 DEF IsExpired, Agrees
<1>5. Expired(log) = d
  <2> HIDE DEF d
  <2> QED
    BY <1>2, <1>4, ExpiredIs
<1>6. Pruned(log) = SubSeq(log, d + 1, Len(log))
  BY <1>5 DEF Pruned
<1>7. /\ Pruned(log) \in Seq(Ages) /\ Len(Pruned(log)) = Len(log) - d
      /\ \A i \in 1 .. Len(log) - d : Pruned(log)[i] = log[d + i]
  BY <1>1, <1>6
<1> QED
  BY <1>1, <1>7 DEF Agrees

LEMMA AppendAgrees ==
  ASSUME NEW log \in Seq(Ages), NEW let \in Seq(Entry), Agrees(log, let), NEW kind \in Kinds
  PROVE  /\ Append(Pruned(log), 0) \in Seq(Ages)
         /\ Append(let, [kind |-> kind, age |-> 0]) \in Seq(Entry)
         /\ Agrees(Append(Pruned(log), 0), Append(let, [kind |-> kind, age |-> 0]))
<1> DEFINE e == [kind |-> kind, age |-> 0]
           p == Pruned(log)
           new == Append(p, 0)
           more == Append(let, e)
<1>1. e \in Entry /\ e.age = 0
  BY LimiterAssumption DEF Entry
<1>2. p \in Seq(Ages) /\ Len(p) = Len(let) /\ \A i \in 1 .. Len(let) : p[i] = let[i].age
  BY PrunedAgrees
<1> HIDE DEF e, p
<1>3. /\ new \in Seq(Ages) /\ Len(new) = Len(let) + 1 /\ new[Len(let) + 1] = 0
      /\ \A i \in 1 .. Len(let) : new[i] = let[i].age
  BY <1>2, AgesAreNumbers
<1>4. /\ more \in Seq(Entry) /\ Len(more) = Len(let) + 1 /\ more[Len(let) + 1] = e
      /\ \A i \in 1 .. Len(let) : more[i] = let[i]
  BY <1>1
<1>5. Len(let) \in Nat /\ \A i \in 1 .. Len(let) : let[i].age \in 0 .. Window
  BY EntriesAreRecent
<1> HIDE DEF new, more
<1>6. \A i \in 1 .. Len(more) : i \in 1 .. Len(let) \/ i = Len(let) + 1
  BY <1>4, <1>5
<1>7. \A i \in 1 .. Len(more) : new[Len(new) - Len(more) + i] = more[i].age
  <2> TAKE i \in 1 .. Len(more)
  <2>1. Len(new) - Len(more) + i = i
    BY <1>3, <1>4, <1>5
  <2>2. new[i] = more[i].age
    BY <1>1, <1>3, <1>4, <1>6
  <2> QED
    BY <2>1, <2>2
<1>8. \A i, j \in 1 .. Len(more) : i <= j => more[j].age <= more[i].age
  <2> TAKE i, j \in 1 .. Len(more)
  <2> SUFFICES ASSUME i <= j PROVE more[j].age <= more[i].age
    OBVIOUS
  <2>1. CASE j = Len(let) + 1
    BY <1>1, <1>4, <1>5, <1>6, <2>1, LimiterAssumption
  <2>2. CASE j \in 1 .. Len(let)
    <3>1. i \in 1 .. Len(let)
      BY <1>5, <1>6, <2>2
    <3> QED
      BY <1>4, <2>2, <3>1 DEF Agrees
  <2> QED
    BY <1>6, <2>1, <2>2
<1>9. Agrees(new, more)
  BY <1>3, <1>4, <1>5, <1>7, <1>8 DEF Agrees
<1> QED
  BY <1>3, <1>4, <1>9 DEF new, more, p, e

(* A tick makes everyone older: what leaves the last window is at the      *)
(* front, and the log keeps it as one more that is expired.                *)
LEMMA TickAgrees ==
  ASSUME NEW log \in Seq(Ages), NEW let \in Seq(Entry), Agrees(log, let)
  PROVE  LET new  == [i \in DOMAIN log |-> Older(log[i])]
             left == Remembered(let)
         IN  /\ new \in Seq(Ages) /\ left \in Seq(Entry) /\ Agrees(new, left)
             /\ \E n \in 0 .. Len(let) :
                  /\ Len(left) = Len(let) - n
                  /\ \A i \in 1 .. Len(left) : left[i].kind = let[n + i].kind
<1> DEFINE new  == [i \in DOMAIN log |-> Older(log[i])]
           left == Remembered(let)
           aged == [i \in DOMAIN let |-> let[i].age + 1]
           n == Expired(aged)
           d == Len(log) - Len(let)
<1>1. /\ Len(let) \in Nat /\ Window \in Nat /\ DOMAIN let = 1 .. Len(let)
      /\ \A i \in 1 .. Len(let) : let[i] \in Entry /\ let[i].age \in 0 .. Window
  BY EntriesAreRecent, LimiterAssumption
<1>2. Len(log) \in Nat /\ DOMAIN log = 1 .. Len(log) /\ \A i \in 1 .. Len(log) : log[i] \in Ages
  OBVIOUS
<1>3. d \in Nat /\ d + Len(let) = Len(log)
  BY <1>1, <1>2 DEF Agrees
<1>4. /\ new \in Seq(Ages) /\ Len(new) = Len(log)
      /\ \A i \in 1 .. Len(log) : new[i] = Older(log[i])
  <2>1. \A i \in 1 .. Len(log) : Older(log[i]) \in Ages
    BY <1>2, AgesAreNumbers DEF Older, Ages
  <2> QED
    BY <1>2, <2>1
<1>5. /\ aged \in Seq(Nat) /\ Len(aged) = Len(let)
      /\ \A i \in 1 .. Len(let) : aged[i] = let[i].age + 1
  BY <1>1
<1>6. IsExpired(aged, n)
  <2> HIDE DEF aged
  <2> QED
    BY <1>5, ExpiredThere
<1> HIDE DEF n
<1>7. n \in 0 .. Len(let)
  BY <1>5, <1>6 DEF IsExpired
<1>8. left = [i \in 1 .. Len(let) - n |-> [let[n + i] EXCEPT !.age = @ + 1]]
  BY DEF Remembered, n
<1>9. \A i \in 1 .. Len(let) - n : n + i \in 1 .. Len(let)
  BY <1>1, <1>7
<1>10. \A i \in 1 .. Len(let) - n : aged[n + i] <= Window
  <2> TAKE i \in 1 .. Len(let) - n
  <2>1. n < Len(let) /\ n + 1 \in 1 .. Len(let) /\ n + i \in 1 .. Len(let) /\ n + 1 <= n + i
    BY <1>1, <1>7
  <2>2. let[n + i].age <= let[n + 1].age
    BY <2>1 DEF Agrees
  <2>3. aged[n + 1] <= Window
    BY <1>5, <1>6, <2>1 DEF IsExpired
  <2>4. aged[n + 1] = let[n + 1].age + 1 /\ aged[n + i] = let[n + i].age + 1
    BY <1>5, <2>1
  <2>5. let[n + i].age \in Nat /\ let[n + 1].age \in Nat
    BY <1>1, <2>1
  <2> QED
    BY <1>1, <2>2, <2>3, <2>4, <2>5
<1>11. \A i \in 1 .. Len(let) - n :
         /\ left[i] \in Entry
         /\ left[i].age = let[n + i].age + 1 /\ left[i].kind = let[n + i].kind
  <2> TAKE i \in 1 .. Len(let) - n
  <2>1. left[i] = [let[n + i] EXCEPT !.age = @ + 1] /\ let[n + i] \in Entry
    BY <1>1, <1>8, <1>9
  <2>2. let[n + i].age + 1 \in 0 .. Window
    <3>1. n + i \in 1 .. Len(let) /\ aged[n + i] <= Window
      BY <1>9, <1>10
    <3>2. aged[n + i] = let[n + i].age + 1 /\ let[n + i].age \in 0 .. Window
      BY <1>1, <1>5, <3>1
    <3> QED
      BY <1>1, <3>1, <3>2
  <2> QED
    BY <2>1, <2>2 DEF Entry
<1> HIDE DEF left, new, aged, d
<1>12. left \in Seq(Entry) /\ Len(left) = Len(let) - n
  <2> DEFINE m == Len(let) - n
  <2>1. m \in Nat
    BY <1>1, <1>7
  <2>2. left \in [1 .. m -> Entry]
    BY <1>8, <1>11
  <2> HIDE DEF m
  <2>3. left \in Seq(Entry) /\ Len(left) = m
    BY <2>1, <2>2
  <2> QED
    BY <2>3 DEF m
<1>13. Agrees(new, left)
  <2>1. Len(left) <= Len(new) /\ Len(new) - Len(left) = d + n
    <3>1. Len(new) = Len(log) /\ Len(left) = Len(let) - n
      BY <1>4, <1>12
    <3>2. /\ d + Len(let) = Len(log) /\ d \in Nat /\ n \in 0 .. Len(let)
          /\ Len(let) \in Nat /\ Len(log) \in Nat
      BY <1>1, <1>2, <1>3, <1>7
    <3> QED
      BY <3>1, <3>2
  <2>2. \A i \in 1 .. Len(let) : log[d + i] = let[i].age /\ d + i \in 1 .. Len(log)
    BY <1>1, <1>2, <1>3 DEF Agrees, d
  <2>3. \A i \in 1 .. Len(let) : new[d + i] = let[i].age + 1
    <3> TAKE i \in 1 .. Len(let)
    <3>1. let[i].age # Oldest
      BY <1>1, AgesAreNumbers
    <3> QED
      BY <1>4, <2>2, <3>1 DEF Older
  <2>4. \A i \in 1 .. Len(left) : new[d + n + i] = left[i].age
    <3> TAKE i \in 1 .. Len(left)
    <3>1. new[d + (n + i)] = let[n + i].age + 1 /\ d + (n + i) = d + n + i
      BY <1>3, <1>7, <1>9, <1>12, <2>3
    <3> QED
      BY <1>11, <1>12, <3>1
  <2>5. \A i \in 1 .. d + n : new[i] > Window
    <3> TAKE i \in 1 .. d + n
    <3>1. CASE i \in 1 .. d
      <4>1. log[i] > Window /\ log[i] \in Nat /\ i \in 1 .. Len(log)
        <5>1. i \in 1 .. Len(log) - Len(let)
          BY <3>1 DEF d
        <5>2. i \in 1 .. Len(log)
          BY <1>1, <1>2, <5>1
        <5> QED
          BY <1>2, <5>1, <5>2, AgesAreNumbers DEF Agrees
      <4> QED
        BY <1>1, <1>4, <4>1, AgesAreNumbers DEF Older
    <3>2. CASE i \notin 1 .. d
      <4> DEFINE j == i - d
      <4>1. j \in 1 .. n /\ j \in 1 .. Len(let) /\ i = d + j
        BY <1>1, <1>3, <1>7, <3>2
      <4> HIDE DEF j
      <4>2. aged[j] > Window /\ aged[j] = let[j].age + 1
        BY <1>5, <1>6, <4>1 DEF IsExpired
      <4> QED
        BY <2>3, <4>1, <4>2
    <3> QED
      BY <3>1, <3>2
  <2>6. \A i, j \in 1 .. Len(left) : i <= j => left[j].age <= left[i].age
    <3> TAKE i, j \in 1 .. Len(left)
    <3> SUFFICES ASSUME i <= j PROVE left[j].age <= left[i].age
      OBVIOUS
    <3>1. n + i \in 1 .. Len(let) /\ n + j \in 1 .. Len(let) /\ n + i <= n + j
      BY <1>7, <1>9, <1>12
    <3>2. let[n + j].age <= let[n + i].age
      BY <3>1 DEF Agrees
    <3>3. left[j].age = let[n + j].age + 1 /\ left[i].age = let[n + i].age + 1
      BY <1>11, <1>12
    <3> QED
      BY <1>1, <3>1, <3>2, <3>3
  <2> QED
    BY <2>1, <2>4, <2>5, <2>6 DEF Agrees
<1>14. \E m \in 0 .. Len(let) :
         /\ Len(left) = Len(let) - m
         /\ \A i \in 1 .. Len(left) : left[i].kind = let[m + i].kind
  BY <1>7, <1>11, <1>12
<1> QED
  BY <1>4, <1>12, <1>13, <1>14 DEF new, left
-----------------------------------------------------------------------------
Of(let, kind) == {i \in DOMAIN let : let[i].kind = kind}

LEMMA OfIsFinite ==
  ASSUME NEW let \in Seq(Entry), NEW kind
  PROVE  /\ IsFiniteSet(Of(let, kind)) /\ Cardinality(Of(let, kind)) \in Nat
         /\ Cardinality(Of(let, kind)) <= Len(let)
<1>1. Of(let, kind) \in SUBSET (1 .. Len(let)) /\ Len(let) \in Nat
  BY DEF Of
<1>2. IsFiniteSet(1 .. Len(let)) /\ Cardinality(1 .. Len(let)) = Len(let)
  <2>1. /\ IsFiniteSet(1 .. Len(let))
        /\ Cardinality(1 .. Len(let)) = IF 1 > Len(let) THEN 0 ELSE Len(let) - 1 + 1
    <3> DEFINE a == 1
               b == Len(let)
    <3>1. a \in Int /\ b \in Int
      BY <1>1
    <3> HIDE DEF a, b
    <3>2. /\ IsFiniteSet(a .. b)
          /\ Cardinality(a .. b) = IF a > b THEN 0 ELSE b - a + 1
      BY <3>1, FS_Interval
    <3> QED
      BY <3>2 DEF a, b
  <2> QED
    BY <1>1, <2>1
<1>3. /\ IsFiniteSet(Of(let, kind))
      /\ Cardinality(Of(let, kind)) <= Cardinality(1 .. Len(let))
  BY <1>1, <1>2, FS_Subset
<1> QED
  BY <1>2, <1>3, FS_CardinalityType

(* What is left of a history has no more of any kind.                      *)
LEMMA OfShrinks ==
  ASSUME NEW let \in Seq(Entry), NEW left \in Seq(Entry), NEW n \in 0 .. Len(let),
         Len(left) = Len(let) - n,
         \A i \in 1 .. Len(left) : left[i].kind = let[n + i].kind,
         NEW kind
  PROVE  Cardinality(Of(left, kind)) <= Cardinality(Of(let, kind))
<1> DEFINE f == [i \in Of(left, kind) |-> n + i]
<1>1. /\ Len(let) \in Nat /\ Len(left) \in Nat /\ n \in Nat
      /\ DOMAIN let = 1 .. Len(let) /\ DOMAIN left = 1 .. Len(left)
  OBVIOUS
<1>2. f \in [Of(left, kind) -> Of(let, kind)]
  BY <1>1 DEF Of
<1>3. \A i, j \in Of(left, kind) : f[i] = f[j] => i = j
  BY <1>1 DEF Of
<1>4. f \in Injection(Of(left, kind), Of(let, kind))
  BY <1>2, <1>3 DEF Injection, IsInjective
<1> HIDE DEF f
<1> QED
  BY <1>4, OfIsFinite, FS_Injection

LEMMA OfGrows ==
  ASSUME NEW let \in Seq(Entry), NEW e \in Entry, NEW kind, e.kind # kind
  PROVE  Of(Append(let, e), kind) = Of(let, kind)
<1> DEFINE more == Append(let, e)
<1>1. /\ Len(more) = Len(let) + 1 /\ more[Len(let) + 1] = e /\ Len(let) \in Nat
      /\ \A i \in 1 .. Len(let) : more[i] = let[i]
      /\ DOMAIN let = 1 .. Len(let) /\ DOMAIN more = 1 .. Len(more)
  OBVIOUS
<1> HIDE DEF more
<1>2. \A i \in 1 .. Len(more) : i \in 1 .. Len(let) \/ i = Len(let) + 1
  BY <1>1
<1>3. 1 .. Len(let) \subseteq 1 .. Len(more)
  BY <1>1
<1>4. Of(more, kind) = Of(let, kind)
  BY <1>1, <1>2, <1>3 DEF Of
<1> QED
  BY <1>4 DEF more
-----------------------------------------------------------------------------
(* A request is let through while fewer than its budget were.              *)
LEMMA AllowedMeans ==
  ASSUME LimiterInv, NEW c \in Clients, NEW kind \in Kinds
  PROVE  Allowed(c, kind) <=> Len(admitted[c]) < Limit[kind]
<1>1. hits[c] \in Seq(Ages) /\ admitted[c] \in Seq(Entry) /\ Agrees(hits[c], admitted[c])
  BY DEF LimiterInv, LimiterTypeOK
<1>2. Len(Pruned(hits[c])) = Len(admitted[c])
  BY <1>1, PrunedAgrees
<1> QED
  BY <1>2 DEF Allowed

LEMMA AdmitWithin ==
  ASSUME LimiterInv, NEW s \in Slots, NEW c \in Clients, NEW kind \in Kinds, Admit(s, c, kind)
  PROVE  LimiterInv'
<1> DEFINE log  == hits[c]
           let  == admitted[c]
           e    == [kind |-> kind, age |-> 0]
           new  == Append(Pruned(log), 0)
           more == Append(let, e)
<1>1. log \in Seq(Ages) /\ let \in Seq(Entry) /\ Agrees(log, let)
  BY DEF LimiterInv, LimiterTypeOK
<1>2. new \in Seq(Ages) /\ more \in Seq(Entry) /\ Agrees(new, more)
  BY <1>1, AppendAgrees
<1>3. /\ hits' = [hits EXCEPT ![c] = new] /\ admitted' = [admitted EXCEPT ![c] = more]
      /\ slot' = [slot EXCEPT ![s] = 0]
  BY DEF Admit
<1>4. Len(more) = Len(let) + 1 /\ e \in Entry /\ e.kind = kind /\ Len(let) \in Nat
  BY <1>1, LimiterAssumption DEF Entry
<1>5. Len(let) < Limit[kind]
  BY AllowedMeans DEF Admit
<1> HIDE DEF new, more, log, let, e
<1>6. /\ hits'[c] = new /\ admitted'[c] = more
      /\ \A d \in Clients \ {c} : hits'[d] = hits[d] /\ admitted'[d] = admitted[d]
  BY <1>3 DEF LimiterInv, LimiterTypeOK
<1>7. LimiterTypeOK'
  BY <1>2, <1>3 DEF LimiterInv, LimiterTypeOK
<1>8. \A d \in Clients : Agrees(hits'[d], admitted'[d])
  BY <1>2, <1>6 DEF LimiterInv
<1>9. /\ Cardinality(Of(let, "ordinary")) <= Limit["ordinary"]
      /\ \A d \in Clients : Cardinality(Of(admitted[d], "ordinary")) <= Limit["ordinary"]
                            /\ Len(admitted[d]) <= Limit["ingest"]
  BY DEF LimiterInv, NeverOverBudget, LetThrough, Total, Of, let
<1>10. /\ Limit["ordinary"] \in Nat /\ Limit["ingest"] \in Nat
       /\ Limit["ordinary"] <= Limit["ingest"] /\ kind \in {"ordinary", "ingest"}
  BY LimiterAssumption DEF Kinds
<1>11. Len(more) <= Limit["ingest"]
  BY <1>4, <1>5, <1>10
<1>12. Cardinality(Of(more, "ordinary")) <= Limit["ordinary"]
  <2>1. CASE kind = "ordinary"
    <3>1. Cardinality(Of(more, "ordinary")) <= Len(more) /\ Cardinality(Of(more, "ordinary")) \in Nat
      BY <1>2, OfIsFinite
    <3> QED
      BY <1>4, <1>5, <1>10, <2>1, <3>1
  <2>2. CASE kind # "ordinary"
    <3>1. Of(more, "ordinary") = Of(let, "ordinary")
      BY <1>1, <1>4, <2>2, OfGrows DEF more
    <3> QED
      BY <1>9, <3>1
  <2> QED
    BY <2>1, <2>2
<1>13. \A d \in Clients : Cardinality(Of(admitted'[d], "ordinary")) <= Limit["ordinary"]
                          /\ Len(admitted'[d]) <= Limit["ingest"]
  BY <1>6, <1>9, <1>11, <1>12
<1>14. NeverOverBudget'
  BY <1>13 DEF NeverOverBudget, LetThrough, Total, Of
<1> QED
  BY <1>7, <1>8, <1>14 DEF LimiterInv

(* Whoever leaves the history alone keeps the budgets.                     *)
LEMMA SameBudget ==
  ASSUME LimiterInv, UNCHANGED admitted, LimiterTypeOK',
         \A c \in Clients : Agrees(hits'[c], admitted[c])
  PROVE  LimiterInv'
BY DEF LimiterInv, NeverOverBudget, LetThrough, Total

LEMMA RefuseWithin ==
  ASSUME LimiterInv, NEW c \in Clients, NEW kind \in Kinds, Refuse(c, kind)
  PROVE  LimiterInv'
<1> DEFINE p == Pruned(hits[c])
           let == admitted[c]
<1>1. hits[c] \in Seq(Ages) /\ let \in Seq(Entry) /\ Agrees(hits[c], let)
  BY DEF LimiterInv, LimiterTypeOK
<1>2. p \in Seq(Ages) /\ Len(p) = Len(let) /\ \A i \in 1 .. Len(let) : p[i] = let[i].age
  BY <1>1, PrunedAgrees
<1>3. hits' = [hits EXCEPT ![c] = p] /\ UNCHANGED <<slot, admitted>>
  BY DEF Refuse
<1>4. Len(let) \in Nat
  BY <1>1
<1> HIDE DEF p, let
<1>5. Agrees(p, let)
  BY <1>1, <1>2, <1>4 DEF Agrees
<1>6. LimiterTypeOK'
  BY <1>2, <1>3 DEF LimiterInv, LimiterTypeOK
<1>7. \A d \in Clients : Agrees(hits'[d], admitted[d])
  BY <1>3, <1>5 DEF LimiterInv, LimiterTypeOK, let
<1> QED
  BY <1>3, <1>6, <1>7, SameBudget

(* Who is idle has let nothing through in the last window, whatever clock  *)
(* the clean-up goes by.                                                   *)
LEMMA RespondWithin ==
  ASSUME LimiterInv, NEW s \in Slots, Respond(s)
  PROVE  LimiterInv'
<1>1. slot[s] \in Nat /\ UNCHANGED admitted
  BY DEF Respond, LimiterInv, LimiterTypeOK
<1>2. ASSUME NEW c \in Clients
      PROVE  hits'[c] \in Seq(Ages) /\ Agrees(hits'[c], admitted[c])
  <2> DEFINE log == hits[c]
             let == admitted[c]
  <2>1. log \in Seq(Ages) /\ let \in Seq(Entry) /\ Agrees(log, let)
    BY DEF LimiterInv, LimiterTypeOK
  <2>2. CASE hits'[c] = log
    BY <2>1, <2>2
  <2>3. CASE hits'[c] # log
    <3>1. hits'[c] = <<>> /\ log # <<>> /\ log[Len(log)] > IdleAfter + slot[s]
      BY <2>3 DEF Respond, Evicted, Idle
    <3>2. let = <<>>
      <4> SUFFICES ASSUME let # <<>> PROVE FALSE
        OBVIOUS
      <4>1. Len(let) \in 1 .. Len(let) /\ Len(log) \in Nat /\ Len(let) \in Nat
        BY <2>1
      <4>2. log[Len(log) - Len(let) + Len(let)] = let[Len(let)].age
        BY <2>1, <4>1 DEF Agrees
      <4>3. Len(log) - Len(let) + Len(let) = Len(log)
        BY <4>1
      <4>4. let[Len(let)].age \in 0 .. Window
        BY <2>1, <4>1, EntriesAreRecent
      <4>5. log[Len(log)] \in 0 .. Window
        BY <4>2, <4>3, <4>4
      <4> QED
        BY <1>1, <3>1, <4>5, LimiterAssumption DEF IdleAfter
    <3>3. Agrees(<<>>, <<>>)
      BY DEF Agrees
    <3> QED
      BY <3>1, <3>2, <3>3
  <2> QED
    BY <2>2, <2>3
<1>3. hits' \in [Clients -> Seq(Ages)]
  BY <1>2 DEF Respond, Evicted, LimiterInv, LimiterTypeOK
<1>4. LimiterTypeOK'
  BY <1>1, <1>3 DEF LimiterInv, LimiterTypeOK, Respond
<1> QED
  BY <1>1, <1>2, <1>4, SameBudget

LEMMA TickWithin ==
  ASSUME LimiterInv, Tick
  PROVE  LimiterInv'
<1>1. ASSUME NEW c \in Clients
      PROVE  /\ hits'[c] \in Seq(Ages) /\ admitted'[c] \in Seq(Entry)
             /\ Agrees(hits'[c], admitted'[c])
             /\ Cardinality(Of(admitted'[c], "ordinary")) <= Limit["ordinary"]
             /\ Len(admitted'[c]) <= Limit["ingest"]
  <2> DEFINE let == admitted[c]
             left == Remembered(let)
             new == [i \in DOMAIN hits[c] |-> Older(hits[c][i])]
  <2>1. hits[c] \in Seq(Ages) /\ let \in Seq(Entry) /\ Agrees(hits[c], let)
    BY DEF LimiterInv, LimiterTypeOK
  <2>2. /\ new \in Seq(Ages) /\ left \in Seq(Entry) /\ Agrees(new, left)
        /\ \E n \in 0 .. Len(let) :
             /\ Len(left) = Len(let) - n
             /\ \A i \in 1 .. Len(left) : left[i].kind = let[n + i].kind
    BY <2>1, TickAgrees
  <2>3. hits'[c] = new /\ admitted'[c] = left
    BY DEF Tick
  <2>4. Cardinality(Of(let, "ordinary")) <= Limit["ordinary"] /\ Len(let) <= Limit["ingest"]
    BY DEF LimiterInv, NeverOverBudget, LetThrough, Total, Of
  <2> HIDE DEF let, left, new
  <2>5. PICK n \in 0 .. Len(let) :
          /\ Len(left) = Len(let) - n
          /\ \A i \in 1 .. Len(left) : left[i].kind = let[n + i].kind
    BY <2>2
  <2>6. Len(let) \in Nat /\ Limit["ordinary"] \in Nat /\ Limit["ingest"] \in Nat
    BY <2>1, LimiterAssumption DEF Kinds
  <2>7. Len(left) <= Limit["ingest"]
    BY <2>4, <2>5, <2>6
  <2>8. Cardinality(Of(left, "ordinary")) <= Limit["ordinary"]
    <3>1. Cardinality(Of(left, "ordinary")) <= Cardinality(Of(let, "ordinary"))
      BY <2>1, <2>2, <2>5, OfShrinks
    <3>2. Cardinality(Of(left, "ordinary")) \in Nat /\ Cardinality(Of(let, "ordinary")) \in Nat
      BY <2>1, <2>2, OfIsFinite
    <3> QED
      BY <2>4, <2>6, <3>1, <3>2
  <2> QED
    BY <2>2, <2>3, <2>7, <2>8
<1>2. LimiterTypeOK'
  <2>1. hits' \in [Clients -> Seq(Ages)] /\ admitted' \in [Clients -> Seq(Entry)]
    BY <1>1 DEF Tick
  <2>2. slot' \in [Slots -> Nat \cup {Free}]
    <3>1. \A s \in Slots : slot[s] # Free => slot[s] \in Nat /\ slot[s] + 1 \in Nat
      BY DEF LimiterInv, LimiterTypeOK
    <3> QED
      BY <3>1 DEF Tick
  <2> QED
    BY <2>1, <2>2 DEF LimiterTypeOK
<1>3. NeverOverBudget'
  BY <1>1 DEF NeverOverBudget, LetThrough, Total, Of
<1> QED
  BY <1>1, <1>2, <1>3 DEF LimiterInv

LEMMA LimiterStep ==
  ASSUME LimiterInv, [LimiterNext]_limiterVars
  PROVE  LimiterInv'
<1>1. CASE UNCHANGED limiterVars
  BY <1>1, SameBudget DEF limiterVars, LimiterInv, LimiterTypeOK
<1> QED
  BY <1>1, AdmitWithin, RefuseWithin, RespondWithin, TickWithin DEF LimiterNext

LEMMA LimiterStart == LimiterInit => LimiterInv
<1> SUFFICES ASSUME LimiterInit PROVE LimiterInv
  OBVIOUS
<1>1. LimiterTypeOK
  BY DEF LimiterInit, LimiterTypeOK
<1>2. \A c \in Clients : Agrees(hits[c], admitted[c])
  BY DEF LimiterInit, Agrees
<1>3. ASSUME NEW c \in Clients
      PROVE  LetThrough(c, "ordinary") <= Limit["ordinary"] /\ Total(c) <= Limit["ingest"]
  <2>1. admitted[c] = <<>>
    BY DEF LimiterInit
  <2>2. {i \in DOMAIN admitted[c] : admitted[c][i].kind = "ordinary"} = {}
    BY <2>1
  <2>3. LetThrough(c, "ordinary") = 0 /\ Total(c) = 0
    BY <2>1, <2>2, FS_EmptySet DEF LetThrough, Total
  <2> QED
    BY <2>3, LimiterAssumption DEF Kinds
<1> QED
  BY <1>1, <1>2, <1>3 DEF LimiterInv, NeverOverBudget

(* No client gets more through in any window than its budgets, for any     *)
(* window, budgets, numbers of clients and requests that take any time.    *)
THEOREM BudgetsHold == LimiterSpec => []NeverOverBudget
<1>1. LimiterInv => NeverOverBudget
  BY DEF LimiterInv
<1> QED
  BY <1>1, LimiterStart, LimiterStep, PTL DEF LimiterSpec

(* And nobody is refused before the budget of the last window is spent.    *)
THEOREM BudgetsAreLeft == LimiterSpec => []NoneRefusedEarly
<1>1. LimiterInv => NoneRefusedEarly
  BY AllowedMeans DEF NoneRefusedEarly, Total
<1> QED
  BY <1>1, LimiterStart, LimiterStep, PTL DEF LimiterSpec
=============================================================================
