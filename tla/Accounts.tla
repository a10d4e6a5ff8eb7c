------------------------------ MODULE Accounts ------------------------------
(***************************************************************************)
(* The operators of the console, their tokens and the API keys of machine  *)
(* clients (api/v1/endpoints/auth.py, api/deps.py, core/security.py).      *)
(*                                                                         *)
(* Every request has a session of its own: it loads rows, changes the      *)
(* objects in memory, and when the handler returns the changed columns     *)
(* and the audit entry are committed together; when it raises everything   *)
(* is rolled back, the audit entry included.  Requests overlap between     *)
(* these steps.  No account and no key is ever deleted.                    *)
(*                                                                         *)
(* Passwords are model values; hashing is left out.  A stored lock would   *)
(* end by itself after a quarter of an hour; none is ever stored.          *)
(***************************************************************************)
EXTENDS Naturals

CONSTANTS
  People,      (* the addresses operators may have                          *)
  Keys,        (* API keys that may be issued                               *)
  Passwords,   (* what operators may choose                                 *)
  Wrong,       (* a password that is nobody's                               *)
  Seeded,      (* accounts created when the platform starts: their roles    *)
  Initial,     (* the password accounts start with                          *)
  Grants,      (* roles an administrator hands out                          *)
  Requests,    (* requests that may overlap                                 *)
  MaxFailed,   (* MAX_FAILED_LOGINS                                         *)
  NoRow,       (* the row is not there                                      *)
  NoRequest    (* nothing runs                                              *)

Roles == {"viewer", "analyst", "responder", "admin"}

ASSUME AccountsAssumption ==
  /\ DOMAIN Seeded \subseteq People
  /\ \A p \in DOMAIN Seeded : Seeded[p] \in Roles
  /\ Initial \in Passwords /\ Wrong \notin Passwords
  /\ Grants \subseteq Roles
  /\ People \cap Keys = {}
  /\ MaxFailed \in Nat \ {0}

VARIABLES
  db,          (* the committed rows of users and api_keys                  *)
  token,       (* the tokens in circulation that have not expired           *)
  request      (* the session of each request                               *)

vars == <<db, token, request>>

Rows == People \cup Keys

Rank(role) == CASE role = "viewer" -> 0 [] role = "analyst" -> 1
                [] role = "responder" -> 2 [] role = "admin" -> 3

Account(role, password) ==
  [role |-> role, active |-> TRUE, password |-> password,
   failed |-> 0, locked |-> FALSE]

Key(owner) == [owner |-> owner, active |-> TRUE]

(* The role and the address an access token also carries decide nothing.   *)
Token(typ, p) == [typ |-> typ, sub |-> p]
TokenPair(p) == {Token("access", p), Token("refresh", p)}

Init ==
  /\ db = [i \in Rows |-> NoRow]
  /\ token = {}
  /\ request = [r \in Requests |-> NoRequest]
-----------------------------------------------------------------------------
(* Mutation: an object that was changed is written with all its columns.   *)
Written_WholeRow(base, row) == row

(* The columns a flush writes of an object loaded as base: those whose     *)
(* value is another one now.                                               *)
Written(base, row) ==
  [c \in {d \in DOMAIN row : row[d] # base[d]} |-> row[c]]

(* A session whose principal is loaded, for an operation open to everybody *)
(* or to administrators, and whose handler is still to run.                *)
Pending(level, actor) == [op |-> level, actor |-> actor, loaded |-> db[actor]]

(* One whose handler is through: the columns of row i that changed, or the *)
(* row it adds, with the audit entry; to be committed if it returned.      *)
Through(end, kind, i, columns, action) ==
  [op |-> end, kind |-> kind, row |-> i, columns |-> columns, action |-> action]

Changed(i, base, row, action) ==
  Through("commit", "update", i, Written(base, row), action)

Added(i, row, action) == Through("commit", "insert", i, row, action)

Raised(i, base, row, action) ==
  Through("rollback", "update", i, Written(base, row), action)

Runs(r, op) == request[r] # NoRequest /\ request[r].op = op

Become(r, s) ==
  /\ request' = [request EXCEPT ![r] = s]
  /\ UNCHANGED <<db, token>>
-----------------------------------------------------------------------------
(* A wrong password is counted on the session's object, and the count may  *)
(* lock it.                                                                *)
FailedLogin(row) ==
  [row EXCEPT !.failed = @ + 1, !.locked = @ \/ row.failed + 1 >= MaxFailed]

MayLogin(r, p) ==
  request[r] = NoRequest /\ db[p] # NoRow /\ ~db[p].locked /\ db[p].active

(* POST /login.  A wrong password raises once the failure is counted.      *)
LoginFails(r, p, password) ==
  /\ MayLogin(r, p)
  /\ password # db[p].password
  /\ Become(r, Raised(p, db[p], FailedLogin(db[p]), "auth.login_failed"))

Login(r, p, password) ==
  LET row == [db[p] EXCEPT !.failed = 0, !.locked = FALSE]
  IN  /\ MayLogin(r, p)
      /\ password = db[p].password
      /\ request' = [request EXCEPT ![r] = Changed(p, db[p], row, "auth.login")]
      /\ token' = token \cup TokenPair(p)
      /\ UNCHANGED db

(* POST /refresh writes nothing; the account must still be active.         *)
Refresh(p) ==
  /\ Token("refresh", p) \in token
  /\ db[p] # NoRow /\ db[p].active
  /\ token' = token \cup TokenPair(p)
  /\ UNCHANGED <<db, request>>

(* The two tokens of a pair are issued together, and access ends first.    *)
TokenExpires(t) ==
  /\ t.typ = "refresh" => Token("access", t.sub) \notin token
  /\ token' = token \ {t}
  /\ UNCHANGED <<db, request>>

(* get_current_user and require_role: the token names the account, the     *)
(* account's row says what it may do.                                      *)
Authenticate(r, t, level) ==
  /\ request[r] = NoRequest
  /\ t.typ = "access"
  /\ db[t.sub] # NoRow /\ db[t.sub].active
  /\ Rank(db[t.sub].role) >= Rank(level)
  /\ Become(r, Pending(level, t.sub))

(* get_api_key_principal, for the ingest endpoints; use is counted.  A key *)
(* past its date is refused: here any key may go unused from some moment.  *)
AuthenticateKey(r, k) ==
  /\ request[r] = NoRequest
  /\ db[k] # NoRow /\ db[k].active
  /\ Become(r, Changed(k, db[k], db[k], "none"))

-----------------------------------------------------------------------------
(* The handlers, each in the session its principal was loaded in: an       *)
(* object the session has is not loaded again.                             *)
Object(r, i) == IF i = request[r].actor THEN request[r].loaded ELSE db[i]

Handled(r, op, s) == Runs(r, op) /\ Become(r, s)

(* PATCH /me changes the name and the preferences, not modelled here.      *)
UpdateMe(r) ==
  Handled(r, "viewer",
    Changed(request[r].actor, request[r].loaded, request[r].loaded, "user.self_updated"))

ChangePassword(r, current, new) ==
  LET me == request[r].loaded
      row == [me EXCEPT !.password = new]
  IN  Handled(r, "viewer",
        IF current # me.password THEN Raised(request[r].actor, me, me, "none")
        ELSE Changed(request[r].actor, me, row, "user.password_changed"))

CreateUser(r, p, role) ==
  db[p] = NoRow /\ Handled(r, "admin", Added(p, Account(role, Initial), "user.created"))

(* PATCH /users/{id}: the fields the payload sets, here the role and       *)
(* whether the account is active.                                          *)
Changes ==
  [{"role"} -> Grants] \cup [{"active"} -> BOOLEAN]
    \cup [role : Grants, active : BOOLEAN]

Patched(row, changes) == [c \in DOMAIN row |-> IF c \in DOMAIN changes THEN changes[c] ELSE row[c]]

(* What an administrator may not do to himself: become a viewer, or be     *)
(* deactivated.                                                            *)
Excluding(changes) ==
  \/ "role" \in DOMAIN changes /\ changes.role = "viewer"
  \/ "active" \in DOMAIN changes /\ ~changes.active

UpdateUser(r, p, changes) ==
  /\ db[p] # NoRow
  /\ Handled(r, "admin",
       IF p = request[r].actor /\ Excluding(changes)
       THEN Raised(p, db[p], db[p], "none")
       ELSE Changed(p, Object(r, p), Patched(Object(r, p), changes), "user.updated"))

(* The new key is drawn at random: no other request has it.                *)
CreateKey(r, k) ==
  /\ db[k] = NoRow
  /\ \A o \in Requests : ~(Runs(o, "commit") /\ request[o].row = k)
  /\ Handled(r, "viewer", Added(k, Key(request[r].actor), "apikey.created"))

RevokeKey(r, k) ==
  /\ Runs(r, "viewer")
  /\ db[k] # NoRow /\ db[k].owner = request[r].actor
  /\ Handled(r, "viewer",
       Changed(k, db[k], [db[k] EXCEPT !.active = FALSE], "apikey.revoked"))

Handle(r) ==
  \/ UpdateMe(r)
  \/ \E old \in Passwords \cup {Wrong}, new \in Passwords : ChangePassword(r, old, new)
  \/ \E p \in People, role \in Grants : CreateUser(r, p, role)
  \/ \E p \in People, changes \in Changes : UpdateUser(r, p, changes)
  \/ \E k \in Keys : CreateKey(r, k) \/ RevokeKey(r, k)
-----------------------------------------------------------------------------
(* The session's row in the table; an address is taken once.               *)
Flushed(s) ==
  [db EXCEPT ![s.row] =
     IF s.kind = "insert" THEN s.columns
     ELSE [c \in DOMAIN @ |-> IF c \in DOMAIN s.columns THEN s.columns[c] ELSE @[c]]]

Commit(r) ==
  /\ Runs(r, "commit")
  /\ request[r].kind = "insert" => db[request[r].row] = NoRow
  /\ db' = Flushed(request[r])
  /\ request' = [request EXCEPT ![r] = NoRequest]
  /\ UNCHANGED token

(* The handler raised, or the database failed at any moment.               *)
Rollback(r) == request[r] # NoRequest /\ Become(r, NoRequest)

(* _seed_users creates the accounts that are not there.                    *)
Missing == {p \in DOMAIN Seeded : db[p] = NoRow}

(* The platform starts, for the first time or after it went down with      *)
(* whatever was running.                                                   *)
Start ==
  /\ db' = [i \in Rows |-> IF i \in Missing THEN Account(Seeded[i], Initial) ELSE db[i]]
  /\ request' = [r \in Requests |-> NoRequest]
  /\ UNCHANGED token
-----------------------------------------------------------------------------
Request(r) ==
  \/ \E p \in People, w \in Passwords \cup {Wrong} : Login(r, p, w) \/ LoginFails(r, p, w)
  \/ \E t \in token, level \in {"viewer", "admin"} : Authenticate(r, t, level)
  \/ \E k \in Keys : AuthenticateKey(r, k)
  \/ Handle(r)

Next ==
  \/ \E r \in Requests : Request(r) \/ Commit(r) \/ Rollback(r)
  \/ \E p \in People : Refresh(p)
  \/ \E t \in token : TokenExpires(t)
  \/ Start

Spec == Init /\ [][Next]_vars

(* A handler that raised ends its session.                                 *)
Fairness == \A r \in Requests : WF_vars(Runs(r, "rollback") /\ Rollback(r))

FairSpec == Spec /\ Fairness
-----------------------------------------------------------------------------
IsAccount(row) ==
  /\ DOMAIN row = {"role", "active", "password", "failed", "locked"}
  /\ row.role \in Roles /\ row.active \in BOOLEAN /\ row.password \in Passwords
  /\ row.failed \in Nat /\ row.locked \in BOOLEAN

(* Type invariant of the two tables and the tokens.                        *)
TypeOK ==
  /\ \A p \in People : db[p] = NoRow \/ IsAccount(db[p])
  /\ \A k \in Keys :
       db[k] = NoRow \/ db[k] \in [owner : People, active : BOOLEAN]
  /\ token \subseteq [typ : {"access", "refresh"}, sub : People]

(* The step commits a session that records the action for the row.         *)
Recorded(action, i) ==
  \E r \in Requests :
    /\ Runs(r, "commit") /\ request'[r] = NoRequest
    /\ request[r].row = i /\ request[r].action = action

(* Nothing but an operator's own decision changes what an account may do,  *)
(* its password, or whether a key is good, and the audit log names that    *)
(* decision in the same commit: no sign-in, self-service change, key use   *)
(* or restart that overlaps the decision writes back what it had read      *)
(* before it, and a revoked key never works again.                         *)
StandingIsDecided ==
  [][/\ \A p \in People :
          db[p] # NoRow =>
            /\ <<db'[p].role, db'[p].active>> # <<db[p].role, db[p].active>>
                 => Recorded("user.updated", p)
            /\ db'[p].password # db[p].password
                 => Recorded("user.password_changed", p)
     /\ \A k \in Keys :
          db[k] # NoRow /\ db'[k].active # db[k].active =>
            ~db'[k].active /\ Recorded("apikey.revoked", k)]_vars

GivenWrongly(p) == \E r \in Requests, w \in Passwords \cup {Wrong} : LoginFails(r, p, w)
SignsIn(p) == \E r \in Requests, w \in Passwords : Login(r, p, w)

(* An account whose password keeps being given wrongly, and is never given *)
(* rightly any more, is locked.                                            *)
LockoutBites ==
  \A p \in People :
    []<><<GivenWrongly(p)>>_vars /\ <>[][~SignsIn(p)]_vars
      => <>(db[p] # NoRow /\ db[p].locked)
=============================================================================
