----------------------- MODULE AlertSessions_proofs -----------------------
(***************************************************************************)
(* What any number of overlapping transactions, each of which writes       *)
(* single columns from stale objects, can do to alerts: status and         *)
(* resolved_at stay consistent, verdicts fall only to what was read before *)
(* them, and the locks of batches keep stories apart.                      *)
(***************************************************************************)
EXTENDS AlertSessions, FiniteSetTheorems, TLAPS

(* A row, or an object, whose two columns agree.                           *)
Agrees(al) == al.status \in Terminal => al.resolved

(* What holds of a transaction while the committed table is d.             *)
GoodTransaction(t, d) ==
  /\ t \in Transaction
  /\ \A a \in AlertIds :
       /\ t.mem[a] = NoAlert <=> t.base[a] = NoAlert
       /\ t.mem[a] = NoAlert => t.written[a] = {} /\ a \notin t.new
       /\ t.mem[a] # NoAlert =>
            /\ Agrees(t.mem[a])
            /\ Agrees(t.base[a])
            /\ t.base[a].resolved => t.mem[a].resolved
            /\ "resolved" \in t.written[a] => t.base[a].resolved
       /\ a \in t.new => d[a] = NoAlert
       /\ t.mem[a] # NoAlert /\ a \notin t.new =>
            /\ d[a] # NoAlert
            /\ t.base[a].resolved => "resolved" \in t.written[a] \/ d[a].resolved

(* The rows it is about to change are loaded.                              *)
Loaded(t) ==
  /\ \A a \in t.edit : t.mem[a] # NoAlert
  /\ t.query # NoQuery /\ t.query.existing # NoAlert =>
       t.mem[t.query.existing] # NoAlert

Inv ==
  /\ db \in Table
  /\ Stamped(db)
  /\ session \in [Sessions -> Transaction \cup {NoSession}]
  /\ \A s \in Sessions : Running(s) => /\ GoodTransaction(session[s], db)
                                       /\ Loaded(session[s])
  /\ \A s, o \in Sessions :
       s # o /\ Running(s) /\ Running(o) => session[s].new \cap session[o].new = {}
-----------------------------------------------------------------------------
(* A scoring pass refreshes an alert without changing whose it is, never   *)
(* withdraws resolved_at, and stamps what it closes.                       *)
LEMMA RefreshKeeps ==
  ASSUME NEW al \in Alert, NEW r \in Result
  PROVE  /\ Refresh(al, r) \in Alert
         /\ Refresh(al, r).identity = al.identity
         /\ al.resolved => Refresh(al, r).resolved
         /\ Refresh(al, r).status \in Terminal =>
              Refresh(al, r).resolved \/ al.status \in Terminal
         /\ al.status = "CONFIRMED_INCIDENT" =>
              Refresh(al, r).status \in {"CONFIRMED_INCIDENT", "SUPPRESSED"}
BY DEF Refresh, Alert, Result, Status, Terminal

(* A raised alert is well formed, belongs to the identity scored, and is   *)
(* open or suppressed.                                                     *)
LEMMA NewAlertOpen ==
  ASSUME NEW i \in Identities, NEW r \in Result
  PROVE  /\ NewAlert(i, r) \in Alert
         /\ NewAlert(i, r).identity = i
         /\ NewAlert(i, r).status \notin Terminal
BY DEF NewAlert, Alert, Result, Status, Terminal

LEMMA OverlayAlert ==
  ASSUME NEW row \in Alert, NEW from, NEW cols \in SUBSET Columns,
         cols # {} => from \in Alert
  PROVE  /\ Overlay(row, from, cols) \in Alert
         /\ Overlay(row, from, cols).identity = row.identity
         /\ Overlay(row, from, cols).status =
              IF "status" \in cols THEN from.status ELSE row.status
         /\ Overlay(row, from, cols).resolved =
              IF "resolved" \in cols THEN from.resolved ELSE row.resolved
BY DEF Overlay, Alert, Columns

(* What a good transaction sees is a table whose columns agree.            *)
LEMMA ViewGood ==
  ASSUME db \in Table, Stamped(db), NEW t, GoodTransaction(t, db)
  PROVE  /\ View(t) \in Table
         /\ \A a \in AlertIds : View(t)[a] # NoAlert =>
              /\ Agrees(View(t)[a])
              /\ t.mem[a] = NoAlert =>
                   /\ a \notin t.new
                   /\ db[a] # NoAlert
                   /\ View(t)[a].resolved => db[a].resolved
<1>1. ASSUME NEW a \in AlertIds
      PROVE  /\ View(t)[a] \in Alert \cup {NoAlert}
             /\ View(t)[a] # NoAlert =>
                  /\ Agrees(View(t)[a])
                  /\ t.mem[a] = NoAlert =>
                       /\ a \notin t.new
                       /\ db[a] # NoAlert
                       /\ View(t)[a].resolved => db[a].resolved
  <2>0. /\ t.base[a] \in Alert \cup {NoAlert}
        /\ t.mem[a] \in Alert \cup {NoAlert}
        /\ t.written[a] \in SUBSET Columns
    BY DEF GoodTransaction, Transaction, Table
  <2>1. CASE a \in t.new
    BY <2>0, <2>1 DEF View, GoodTransaction
  <2>2. CASE a \notin t.new /\ db[a] = NoAlert
    BY <2>2 DEF View
  <2>3. CASE a \notin t.new /\ db[a] # NoAlert
    <3>1. View(t)[a] = Overlay(db[a], t.base[a], t.written[a])
      BY <2>3 DEF View
    <3>2. db[a] \in Alert /\ Agrees(db[a])
      BY <2>3 DEF Table, Stamped, Present, Agrees
    <3>3. t.written[a] # {} => t.mem[a] # NoAlert /\ t.base[a] \in Alert
      BY <2>0 DEF GoodTransaction
    <3>4. /\ View(t)[a] \in Alert
          /\ View(t)[a].status =
               IF "status" \in t.written[a] THEN t.base[a].status ELSE db[a].status
          /\ View(t)[a].resolved =
               IF "resolved" \in t.written[a] THEN t.base[a].resolved ELSE db[a].resolved
      BY <2>0, <3>1, <3>2, <3>3, OverlayAlert
    <3>5. CASE t.mem[a] = NoAlert
      BY <2>3, <3>2, <3>4, <3>5 DEF GoodTransaction, Agrees
    <3>6. CASE t.mem[a] # NoAlert
      BY <2>3, <3>2, <3>4, <3>6 DEF GoodTransaction, Agrees
    <3> QED
      BY <3>4, <3>5, <3>6
  <2> QED
    BY <2>1, <2>2, <2>3
<1>2. View(t) = [a \in AlertIds |-> View(t)[a]]
  BY DEF View
<1> QED
  BY <1>1, <1>2 DEF Table

(* Loading more rows keeps a transaction good.                             *)
LEMMA LoadGood ==
  ASSUME db \in Table, Stamped(db), NEW t, GoodTransaction(t, db),
         NEW A \in SUBSET AlertIds
  PROVE  /\ GoodTransaction(Load(t, A), db)
         /\ \A f \in {"job", "todo", "edit", "query", "written", "new",
                      "touched", "held"} : Load(t, A)[f] = t[f]
         /\ \A a \in AlertIds :
              t.mem[a] # NoAlert => Load(t, A).mem[a] = t.mem[a]
         /\ \A a \in A : View(t)[a] # NoAlert => Load(t, A).mem[a] # NoAlert
<1> DEFINE u == Load(t, A)
           missing == {a \in A : t.mem[a] = NoAlert}
<1>0. t \in Transaction
  BY DEF GoodTransaction
<1>1. u = [t EXCEPT !.mem = [a \in AlertIds |-> IF a \in missing THEN View(t)[a] ELSE t.mem[a]],
                    !.base = [a \in AlertIds |-> IF a \in missing THEN View(t)[a] ELSE t.base[a]]]
  BY DEF Load
<1> HIDE DEF u
<1>2. /\ u.mem = [a \in AlertIds |-> IF a \in missing THEN View(t)[a] ELSE t.mem[a]]
      /\ u.base = [a \in AlertIds |-> IF a \in missing THEN View(t)[a] ELSE t.base[a]]
      /\ u.job = t.job /\ u.todo = t.todo /\ u.edit = t.edit /\ u.query = t.query
      /\ u.written = t.written /\ u.new = t.new
      /\ u.touched = t.touched /\ u.held = t.held
  BY <1>0, <1>1 DEF Transaction
<1>3. View(t) \in Table /\ t.mem \in Table /\ t.base \in Table
  BY <1>0, ViewGood DEF Transaction
<1>4. u.mem \in Table /\ u.base \in Table
  BY <1>2, <1>3 DEF Table
<1>5. u \in Transaction
  BY <1>0, <1>1, <1>2, <1>4 DEF Transaction
<1>6. ASSUME NEW a \in AlertIds
      PROVE  /\ u.mem[a] = NoAlert <=> u.base[a] = NoAlert
             /\ u.mem[a] = NoAlert => u.written[a] = {} /\ a \notin u.new
             /\ u.mem[a] # NoAlert =>
                  /\ Agrees(u.mem[a])
                  /\ Agrees(u.base[a])
                  /\ u.base[a].resolved => u.mem[a].resolved
                  /\ "resolved" \in u.written[a] => u.base[a].resolved
             /\ a \in u.new => db[a] = NoAlert
             /\ u.mem[a] # NoAlert /\ a \notin u.new =>
                  /\ db[a] # NoAlert
                  /\ u.base[a].resolved => "resolved" \in u.written[a] \/ db[a].resolved
  <2>1. CASE a \in missing
    <3>1. u.mem[a] = View(t)[a] /\ u.base[a] = View(t)[a]
          /\ t.written[a] = {} /\ a \notin t.new /\ t.mem[a] = NoAlert
      BY <1>2, <2>1 DEF GoodTransaction
    <3> QED
      BY <1>2, <3>1, ViewGood
  <2>2. CASE a \notin missing
    BY <1>2, <2>2 DEF GoodTransaction
  <2> QED
    BY <2>1, <2>2
<1>7. GoodTransaction(u, db)
  BY <1>5, <1>6 DEF GoodTransaction
<1>8. \A f \in {"job", "todo", "edit", "query", "written", "new", "touched", "held"} :
        u[f] = t[f]
  BY <1>2
<1>9. \A a \in AlertIds : t.mem[a] # NoAlert => u.mem[a] = t.mem[a]
  BY <1>2
<1>10. \A a \in A : View(t)[a] # NoAlert => u.mem[a] # NoAlert
  BY <1>2
<1> QED
  BY <1>7, <1>8, <1>9, <1>10 DEF u

(* A flush makes what is written and what is loaded the same.              *)
LEMMA FlushedGood ==
  ASSUME NEW t, GoodTransaction(t, db)
  PROVE  /\ GoodTransaction(Flushed(t), db)
         /\ Flushed(t).mem = t.mem
         /\ Flushed(t).base = t.mem
         /\ Flushed(t).new = t.new
         /\ Flushed(t).edit = t.edit
         /\ Flushed(t).query = t.query
<1> DEFINE u == Flushed(t)
<1>0. t \in Transaction /\ t.mem \in Table /\ t.base \in Table
  BY DEF GoodTransaction, Transaction
<1>1. u = [t EXCEPT !.base = t.mem,
                    !.written = [a \in AlertIds |-> t.written[a] \cup Dirty(t, a)],
                    !.held = t.held \cup t.touched]
  BY <1>0 DEF Flushed, Transaction
<1> HIDE DEF u
<1>2. /\ u.mem = t.mem /\ u.base = t.mem /\ u.new = t.new
      /\ u.job = t.job /\ u.todo = t.todo /\ u.edit = t.edit /\ u.query = t.query
      /\ u.touched = t.touched /\ u.held = t.held \cup t.touched
      /\ u.written = [a \in AlertIds |-> t.written[a] \cup Dirty(t, a)]
  BY <1>0, <1>1 DEF Transaction
<1>3. u \in Transaction
  <2>1. \A a \in AlertIds : Dirty(t, a) \subseteq Columns
    BY DEF Dirty
  <2>2. u.written \in [AlertIds -> SUBSET Columns]
    BY <1>0, <1>2, <2>1 DEF Transaction
  <2>3. u.held \in SUBSET Identities
    BY <1>0, <1>2 DEF Transaction
  <2> QED
    BY <1>0, <1>1, <1>2, <2>2, <2>3 DEF Transaction
<1>4. ASSUME NEW a \in AlertIds
      PROVE  /\ u.mem[a] = NoAlert <=> u.base[a] = NoAlert
             /\ u.mem[a] = NoAlert => u.written[a] = {} /\ a \notin u.new
             /\ u.mem[a] # NoAlert =>
                  /\ Agrees(u.mem[a])
                  /\ Agrees(u.base[a])
                  /\ u.base[a].resolved => u.mem[a].resolved
                  /\ "resolved" \in u.written[a] => u.base[a].resolved
             /\ a \in u.new => db[a] = NoAlert
             /\ u.mem[a] # NoAlert /\ a \notin u.new =>
                  /\ db[a] # NoAlert
                  /\ u.base[a].resolved => "resolved" \in u.written[a] \/ db[a].resolved
  <2>1. u.written[a] = t.written[a] \cup Dirty(t, a)
    BY <1>2
  <2>2. CASE t.mem[a] = NoAlert
    BY <1>2, <2>1, <2>2 DEF GoodTransaction, Dirty
  <2>3. CASE t.mem[a] # NoAlert
    <3>1. t.mem[a].resolved \in BOOLEAN /\ t.base[a].resolved \in BOOLEAN
      BY <1>0, <2>3 DEF GoodTransaction, Table, Alert
    <3>2. "resolved" \in Dirty(t, a) <=> t.mem[a].resolved # t.base[a].resolved
      BY <2>3 DEF Dirty, Columns
    <3> QED
      BY <1>2, <2>1, <2>3, <3>1, <3>2 DEF GoodTransaction
  <2> QED
    BY <2>2, <2>3
<1>5. GoodTransaction(u, db)
  BY <1>3, <1>4 DEF GoodTransaction
<1> QED
  BY <1>2, <1>5 DEF u

(* Changing loaded objects keeps a transaction good when their columns     *)
(* agree afterwards and no resolved_at is withdrawn.                       *)
LEMMA ChangeGood ==
  ASSUME NEW t, GoodTransaction(t, db), NEW u \in Transaction,
         u.base = t.base, u.written = t.written, u.new = t.new,
         \A a \in AlertIds :
           \/ u.mem[a] = t.mem[a]
           \/ /\ t.mem[a] # NoAlert
              /\ u.mem[a] # NoAlert
              /\ Agrees(u.mem[a])
              /\ t.mem[a].resolved => u.mem[a].resolved
  PROVE  GoodTransaction(u, db)
BY DEF GoodTransaction
-----------------------------------------------------------------------------
(* A step of one session that writes nothing to the table.                 *)
LEMMA SessionStep ==
  ASSUME Inv, UNCHANGED db, NEW s \in Sessions, NEW t,
         session' = [session EXCEPT ![s] = t],
         t # NoSession =>
           /\ GoodTransaction(t, db)
           /\ Loaded(t)
           /\ \A o \in Sessions \ {s} : Running(o) => session[o].new \cap t.new = {}
  PROVE  Inv'
<1>1. /\ session \in [Sessions -> Transaction \cup {NoSession}]
      /\ db \in Table
      /\ Stamped(db)
  BY DEF Inv
<1>2. \A o \in Sessions : session'[o] = IF o = s THEN t ELSE session[o]
  BY <1>1
<1>3. session' \in [Sessions -> Transaction \cup {NoSession}]
  BY <1>1 DEF GoodTransaction
<1>4. ASSUME NEW o \in Sessions, session'[o] # NoSession
      PROVE  GoodTransaction(session'[o], db') /\ Loaded(session'[o])
  BY <1>2, <1>4 DEF Inv, Running
<1>5. ASSUME NEW o \in Sessions, NEW q \in Sessions, o # q,
             session'[o] # NoSession, session'[q] # NoSession
      PROVE  session'[o].new \cap session'[q].new = {}
  BY <1>2, <1>5 DEF Inv, Running
<1>6. db' \in Table /\ Stamped(db)'
  BY <1>1 DEF Stamped, Present
<1> QED
  BY <1>3, <1>4, <1>5, <1>6 DEF Inv, Running

(* A transaction that has just begun.                                      *)
LEMMA BegunGood ==
  ASSUME Inv, NEW job \in Jobs, NEW I \in SUBSET Identities,
         NEW A \in SUBSET AlertIds
  PROVE  /\ GoodTransaction(Begun(job, I, A), db)
         /\ Begun(job, I, A).new = {}
         /\ Begun(job, I, A).edit = A
         /\ Begun(job, I, A).query = NoQuery
         /\ Begun(job, I, A).written = [a \in AlertIds |-> {}]
<1> DEFINE t == Begun(job, I, A)
<1>1. t = [job |-> job, todo |-> I, edit |-> A, query |-> NoQuery,
           mem |-> Nothing, base |-> Nothing, written |-> [a \in AlertIds |-> {}],
           new |-> {}, touched |-> {}, held |-> {}]
  BY DEF Begun
<1> HIDE DEF t
<1>2. Nothing \in Table /\ \A a \in AlertIds : Nothing[a] = NoAlert
  BY DEF Nothing, Table
<1>3. job \in {"pass", "batch", "contain", "update"}
  BY SessionsAssumption
<1>4. t \in Transaction
  BY <1>1, <1>2, <1>3 DEF Transaction
<1>5. /\ t.mem = Nothing /\ t.base = Nothing /\ t.new = {} /\ t.edit = A
      /\ t.query = NoQuery /\ t.written = [a \in AlertIds |-> {}]
  BY <1>1
<1>6. GoodTransaction(t, db)
  BY <1>2, <1>4, <1>5 DEF GoodTransaction
<1> QED
  BY <1>5, <1>6 DEF t

(* Remembering which identities it changed leaves it good.                 *)
LEMMA TouchedGood ==
  ASSUME NEW t, GoodTransaction(t, db), NEW J \in SUBSET Identities
  PROVE  LET u == [t EXCEPT !.touched = J, !.query = NoQuery] IN
         /\ GoodTransaction(u, db)
         /\ u.mem = t.mem /\ u.new = t.new /\ u.edit = t.edit
         /\ u.query = NoQuery
<1> DEFINE u == [t EXCEPT !.touched = J, !.query = NoQuery]
<1>1. u \in Transaction
  BY DEF GoodTransaction, Transaction
<1>2. /\ u.mem = t.mem /\ u.base = t.base /\ u.written = t.written
      /\ u.new = t.new /\ u.edit = t.edit /\ u.query = NoQuery
  BY DEF GoodTransaction, Transaction
<1> HIDE DEF u
<1>3. GoodTransaction(u, db)
  BY <1>1, <1>2, ChangeGood
<1> QED
  BY <1>2, <1>3 DEF u

(* Containment confirms loaded objects.                                    *)
LEMMA ConfirmedGood ==
  ASSUME db \in Table, Stamped(db), NEW t, GoodTransaction(t, db),
         NEW i \in Identities
  PROVE  /\ GoodTransaction(Confirmed(t, i), db)
         /\ Confirmed(t, i).new = t.new
         /\ Confirmed(t, i).edit = t.edit
         /\ Confirmed(t, i).query = t.query
         /\ \A a \in AlertIds : t.mem[a] # NoAlert => Confirmed(t, i).mem[a] # NoAlert
<1> DEFINE open == {a \in AlertsOf(View(t), i) : View(t)[a].status \in OpenStatuses}
           u == Load(t, open)
           c == CloseOpenAlerts(View(t), u.mem, i)
           v == Confirmed(t, i)
<1>1. open \in SUBSET AlertIds /\ \A a \in open : View(t)[a] # NoAlert
  BY DEF AlertsOf, Present
<1>2. /\ GoodTransaction(u, db)
      /\ u.edit = t.edit /\ u.query = t.query /\ u.new = t.new
      /\ \A a \in AlertIds : t.mem[a] # NoAlert => u.mem[a] # NoAlert
      /\ \A a \in open : u.mem[a] # NoAlert
  BY <1>1, LoadGood
<1>3. v = [u EXCEPT !.mem = c, !.todo = {i}]
  BY <1>2 DEF Confirmed, GoodTransaction, Transaction
<1>4. \A a \in AlertIds :
        c[a] = IF a \in open
               THEN [u.mem[a] EXCEPT !.status = "CONFIRMED_INCIDENT", !.resolved = TRUE]
               ELSE u.mem[a]
  BY DEF CloseOpenAlerts
<1>5. c = [a \in AlertIds |-> c[a]]
  BY DEF CloseOpenAlerts
<1> HIDE DEF open, u, c, v
<1>6. u \in Transaction /\ u.mem \in Table
  BY <1>2 DEF GoodTransaction, Transaction
<1>7. ASSUME NEW a \in open
      PROVE  c[a] \in Alert /\ c[a].resolved
  <2>1. u.mem[a] \in Alert
    BY <1>1, <1>2, <1>6 DEF Table
  <2>2. c[a] = [u.mem[a] EXCEPT !.status = "CONFIRMED_INCIDENT", !.resolved = TRUE]
    BY <1>1, <1>4
  <2> QED
    BY <2>1, <2>2 DEF Alert, Status
<1>8. c \in Table
  <2>1. \A a \in AlertIds : c[a] \in Alert \cup {NoAlert}
    BY <1>4, <1>6, <1>7 DEF Table
  <2> QED
    BY <1>5, <2>1 DEF Table
<1>9. /\ v \in Transaction
      /\ v.mem = c /\ v.base = u.base /\ v.written = u.written
      /\ v.new = u.new /\ v.edit = u.edit /\ v.query = u.query
  BY <1>3, <1>6, <1>8 DEF Transaction
<1>10. \A a \in AlertIds :
         \/ v.mem[a] = u.mem[a]
         \/ /\ u.mem[a] # NoAlert
            /\ v.mem[a] # NoAlert
            /\ Agrees(v.mem[a])
            /\ u.mem[a].resolved => v.mem[a].resolved
  BY <1>2, <1>4, <1>7, <1>9, TableAssumption DEF Agrees
<1>11. GoodTransaction(v, db)
  BY <1>2, <1>9, <1>10, ChangeGood
<1> QED
  BY <1>2, <1>9, <1>10, <1>11 DEF v
-----------------------------------------------------------------------------
LEMMA InitInv == Init => Inv
<1> SUFFICES ASSUME Init PROVE Inv
  OBVIOUS
<1>1. db \in Table /\ Present(db) = {}
  BY DEF Init, Nothing, Table, Present
<1>2. \A s \in Sessions : ~Running(s)
  BY DEF Init, Running
<1> QED
  BY <1>1, <1>2 DEF Init, Inv, Stamped

Begins(s) ==
  \/ \E I \in (SUBSET Identities) \ {{}} : BeginPass(s, I) \/ BeginBatch(s, I)
  \/ \E A \in (SUBSET AlertIds) \ {{}} : BeginUpdate(s, A)
  \/ \E i \in Identities : BeginContain(s, i)

(* A transaction begins.                                                   *)
LEMMA BeginInv ==
  ASSUME Inv, NEW s \in Sessions, Begins(s)
  PROVE  Inv'
<1>0. db \in Table /\ Stamped(db)
  BY DEF Inv
<1>1. ASSUME NEW t, Start(s, t), GoodTransaction(t, db), Loaded(t), t.new = {}
      PROVE  Inv'
  BY <1>1, SessionStep DEF Start
<1>3. ASSUME NEW I \in SUBSET Identities, BeginPass(s, I) PROVE Inv'
  <2> DEFINE t == Begun("pass", I, {})
  <2>1. "pass" \in Jobs
    BY <1>3 DEF BeginPass, Start, Begun
  <2>2. GoodTransaction(t, db) /\ t.new = {} /\ t.edit = {} /\ t.query = NoQuery
    BY <2>1, BegunGood
  <2> QED
    BY <1>1, <1>3, <2>2 DEF BeginPass, Loaded
<1>4. ASSUME NEW I \in SUBSET Identities, BeginBatch(s, I) PROVE Inv'
  <2> DEFINE t == [Begun("batch", I, {}) EXCEPT !.touched = I]
  <2>1. "batch" \in Jobs
    BY <1>4 DEF BeginBatch, Start, Begun, Flushed
  <2>2. GoodTransaction(t, db) /\ t.new = {} /\ t.edit = {} /\ t.query = NoQuery
    <3> DEFINE b == Begun("batch", I, {})
    <3>1. GoodTransaction(b, db) /\ b.new = {} /\ b.edit = {} /\ b.query = NoQuery
      BY <2>1, BegunGood
    <3>2. t = [b EXCEPT !.touched = I]
      OBVIOUS
    <3> HIDE DEF b, t
    <3>3. /\ t \in Transaction
          /\ t.mem = b.mem /\ t.base = b.base /\ t.written = b.written
          /\ t.new = b.new /\ t.edit = b.edit /\ t.query = b.query
      BY <3>1, <3>2 DEF GoodTransaction, Transaction
    <3> QED
      BY <3>1, <3>3, ChangeGood
  <2>3. Start(s, Flushed(t))
    BY <1>4 DEF BeginBatch
  <2> HIDE DEF t
  <2> QED
    BY <1>1, <2>2, <2>3, FlushedGood DEF Loaded
<1>5. ASSUME NEW A \in SUBSET AlertIds, BeginUpdate(s, A) PROVE Inv'
  <2> DEFINE t == Begun("update", {}, A)
  <2>1. Start(s, Load(t, A)) /\ A \subseteq Present(db)
    BY <1>5 DEF BeginUpdate
  <2>2. "update" \in Jobs
    BY <2>1 DEF Start, Begun, Load
  <2>3. /\ GoodTransaction(t, db) /\ t.new = {} /\ t.edit = A /\ t.query = NoQuery
        /\ t.written = [a \in AlertIds |-> {}]
    BY <2>2, BegunGood
  <2> HIDE DEF t
  <2>4. \A a \in A : View(t)[a] # NoAlert
    <3> SUFFICES ASSUME NEW a \in A PROVE View(t)[a] # NoAlert
      OBVIOUS
    <3>1. db[a] \in Alert
      BY <1>0, <2>1 DEF Table, Present
    <3>2. View(t)[a] = Overlay(db[a], t.base[a], {})
      BY <2>1, <2>3 DEF View, Present
    <3>3. Overlay(db[a], t.base[a], {}) \in Alert
      BY <3>1, OverlayAlert
    <3> QED
      BY <3>2, <3>3, TableAssumption
  <2>5. /\ GoodTransaction(Load(t, A), db)
        /\ \A a \in A : Load(t, A).mem[a] # NoAlert
        /\ Load(t, A).edit = A /\ Load(t, A).query = NoQuery /\ Load(t, A).new = {}
    BY <1>0, <2>3, <2>4, LoadGood
  <2> QED
    BY <1>1, <2>1, <2>5 DEF Loaded
<1>6. ASSUME NEW i \in Identities, BeginContain(s, i) PROVE Inv'
  <2> DEFINE t == Begun("contain", {}, {})
  <2>1. Start(s, Confirmed(t, i))
    BY <1>6 DEF BeginContain
  <2>2. "contain" \in Jobs
    BY <2>1 DEF Start, Confirmed, Begun, Load
  <2>3. GoodTransaction(t, db) /\ t.new = {} /\ t.edit = {} /\ t.query = NoQuery
    BY <2>2, BegunGood
  <2> HIDE DEF t
  <2>4. /\ GoodTransaction(Confirmed(t, i), db)
        /\ Confirmed(t, i).new = {}
        /\ Confirmed(t, i).edit = {}
        /\ Confirmed(t, i).query = NoQuery
    BY <1>0, <2>3, ConfirmedGood
  <2> QED
    BY <1>1, <2>1, <2>4 DEF Loaded
<1> QED
  BY <1>3, <1>4, <1>5, <1>6 DEF Begins

(* reconcile_alert: the query and the three ways it goes on.               *)
LEMMA ReconcileInv ==
  ASSUME Inv, NEW s \in Sessions,
         \/ \E i \in Identities : FindExisting(s, i)
         \/ \E r \in Results : RefreshExisting(s, r) \/ NothingToRaise(s, r)
  PROVE  Inv'
<1> DEFINE t == session[s]
<1>0. db \in Table /\ Stamped(db) /\ session \in [Sessions -> Transaction \cup {NoSession}]
  BY DEF Inv
<1>1. ASSUME Running(s)
      PROVE  /\ GoodTransaction(t, db) /\ Loaded(t)
             /\ \A o \in Sessions \ {s} : Running(o) => session[o].new \cap t.new = {}
  BY <1>1 DEF Inv
<1>2. ASSUME NEW i \in Identities, FindExisting(s, i) PROVE Inv'
  <2> DEFINE found == {a \in AlertIds : IsExisting(View(t), i, a)}
             chosen == IF found = {} THEN NoAlert ELSE CHOOSE a \in found : TRUE
             u == Load(t, found)
             q == [identity |-> i, existing |-> chosen]
             v == [u EXCEPT !.todo = u.todo \ {i}, !.query = q]
  <2>1. found \in SUBSET AlertIds /\ \A a \in found : View(t)[a] # NoAlert
    BY DEF IsExisting, Unresolved, AlertsOf, Present
  <2>2. Running(s) /\ session' = [session EXCEPT ![s] = v] /\ UNCHANGED db
    BY <1>2 DEF FindExisting
  <2>3. chosen = NoAlert \/ chosen \in found
    OBVIOUS
  <2>4. q \in Query /\ q.existing = chosen
    BY <2>1, <2>3 DEF Query
  <2> HIDE DEF t, found, chosen, q
  <2>5. /\ GoodTransaction(u, db)
        /\ u.edit = t.edit /\ u.new = t.new
        /\ \A a \in AlertIds : t.mem[a] # NoAlert => u.mem[a] = t.mem[a]
        /\ \A a \in found : u.mem[a] # NoAlert
    BY <1>0, <1>1, <2>1, <2>2, LoadGood
  <2>6. t.edit \in SUBSET AlertIds
    BY <1>1, <2>2 DEF GoodTransaction, Transaction
  <2> HIDE DEF u
  <2>7. /\ v \in Transaction
        /\ v.mem = u.mem /\ v.base = u.base /\ v.written = u.written
        /\ v.new = u.new /\ v.edit = u.edit /\ v.query = q
    BY <2>4, <2>5 DEF GoodTransaction, Transaction
  <2> HIDE DEF v
  <2>8. GoodTransaction(v, db)
    BY <2>5, <2>7, ChangeGood
  <2>9. Loaded(v)
    BY <1>1, <2>2, <2>3, <2>4, <2>5, <2>6, <2>7 DEF Loaded
  <2> QED
    BY <1>1, <2>2, <2>5, <2>7, <2>8, <2>9, SessionStep
<1>3. ASSUME NEW r \in Results, RefreshExisting(s, r) PROVE Inv'
  <2> DEFINE x == t.query.existing
             al == Refresh(t.mem[x], r)
             m == [t.mem EXCEPT ![x] = al]
             J == t.touched \cup {t.query.identity}
             v == [t EXCEPT !.mem = m, !.touched = J, !.query = NoQuery]
  <2>1. Running(s) /\ t.query # NoQuery /\ x # NoAlert /\ UNCHANGED db
    BY <1>3 DEF RefreshExisting
  <2>2. t \in Transaction /\ t.mem[x] # NoAlert
    BY <1>1, <2>1 DEF GoodTransaction, Loaded
  <2>3. session' = [session EXCEPT ![s] = v]
    BY <1>0, <1>3, <2>2 DEF RefreshExisting, Transaction
  <2>4. x \in AlertIds /\ t.query.identity \in Identities
        /\ t.mem[x] \in Alert /\ t.mem \in Table /\ J \in SUBSET Identities
    BY <2>1, <2>2 DEF Transaction, Query, Table
  <2>5. /\ al \in Alert
        /\ t.mem[x].resolved => al.resolved
        /\ Agrees(al)
    <3>1. Agrees(t.mem[x])
      BY <1>1, <2>1, <2>2, <2>4 DEF GoodTransaction
    <3>2. r \in Result
      BY SessionsAssumption
    <3> QED
      BY <2>4, <3>1, <3>2, RefreshKeeps DEF Agrees
  <2> HIDE DEF t, x, al, J
  <2>6. m \in Table /\ \A a \in AlertIds : m[a] = IF a = x THEN al ELSE t.mem[a]
    BY <2>4, <2>5 DEF Table
  <2> HIDE DEF m
  <2>7. /\ v \in Transaction
        /\ v.mem = m /\ v.base = t.base /\ v.written = t.written
        /\ v.new = t.new /\ v.edit = t.edit /\ v.query = NoQuery
    BY <2>2, <2>4, <2>6 DEF Transaction
  <2> HIDE DEF v
  <2>8. GoodTransaction(v, db)
    BY <1>1, <2>1, <2>2, <2>5, <2>6, <2>7, ChangeGood, TableAssumption
  <2>9. Loaded(v)
    BY <1>1, <2>1, <2>2, <2>5, <2>6, <2>7, TableAssumption DEF Loaded, Transaction
  <2> QED
    BY <1>1, <2>1, <2>3, <2>7, <2>8, <2>9, SessionStep
<1>4. ASSUME NEW r \in Results, NothingToRaise(s, r) PROVE Inv'
  <2> DEFINE J == t.touched \cup {t.query.identity}
             v == [t EXCEPT !.touched = J, !.query = NoQuery]
  <2>1. Running(s) /\ t.query # NoQuery /\ UNCHANGED db
    BY <1>4 DEF NothingToRaise
  <2>2. t \in Transaction
    BY <1>1, <2>1 DEF GoodTransaction
  <2>3. session' = [session EXCEPT ![s] = v]
    BY <1>0, <1>4, <2>2 DEF NothingToRaise, Transaction
  <2>4. J \in SUBSET Identities
    BY <2>1, <2>2 DEF Transaction, Query
  <2> HIDE DEF t, J
  <2>5. /\ GoodTransaction(v, db)
        /\ v.mem = t.mem /\ v.new = t.new /\ v.edit = t.edit
        /\ v.query = NoQuery
    BY <1>1, <2>1, <2>4, TouchedGood
  <2> HIDE DEF v
  <2>6. Loaded(v)
    BY <1>1, <2>1, <2>5 DEF Loaded
  <2> QED
    BY <1>1, <2>1, <2>3, <2>5, <2>6, SessionStep
<1> QED
  BY <1>2, <1>3, <1>4

(* A new alert takes an id nobody has.                                     *)
LEMMA RaiseInv ==
  ASSUME Inv, NEW s \in Sessions, NEW r \in Results, RaiseAlert(s, r)
  PROVE  Inv'
<1> DEFINE i == session[s].query.identity
           t == [session[s] EXCEPT !.touched = @ \cup {i}, !.query = NoQuery]
           f == Flushed(t)
<1>1. PICK a \in AlertIds :
        /\ IsNextId(a)
        /\ session' = [session EXCEPT ![s] =
             [f EXCEPT !.mem[a] = NewAlert(i, r),
                       !.base[a] = NewAlert(i, r),
                       !.new = @ \cup {a}]]
  BY DEF RaiseAlert
<1>2. /\ Running(s) /\ session[s].query # NoQuery /\ UNCHANGED db
      /\ GoodTransaction(session[s], db) /\ Loaded(session[s])
      /\ \A o \in Sessions \ {s} :
           Running(o) => session[o].new \cap session[s].new = {}
  BY DEF RaiseAlert, Inv
<1>3. session[s] \in Transaction /\ i \in Identities
      /\ session[s].touched \cup {i} \in SUBSET Identities
  BY <1>2 DEF GoodTransaction, Transaction, Query
<1>4. /\ GoodTransaction(t, db) /\ t.query = NoQuery
      /\ t.mem = session[s].mem /\ t.new = session[s].new /\ t.edit = session[s].edit
  BY <1>2, <1>3, TouchedGood
<1> DEFINE al == NewAlert(i, r)
           v == [f EXCEPT !.mem[a] = al, !.base[a] = al, !.new = @ \cup {a}]
<1>5. session' = [session EXCEPT ![s] = v]
  BY <1>1
<1>6. al \in Alert /\ Agrees(al)
  BY <1>3, SessionsAssumption, NewAlertOpen DEF Agrees
<1> HIDE DEF t, al
<1>7. /\ GoodTransaction(f, db) /\ f.mem = t.mem /\ f.base = t.mem
      /\ f.new = t.new /\ f.edit = t.edit /\ f.query = NoQuery
  BY <1>4, FlushedGood
<1> HIDE DEF f, i
<1>8. f \in Transaction /\ f.mem \in Table /\ f.base \in Table
  BY <1>7 DEF GoodTransaction, Transaction
<1>9. db[a] = NoAlert /\ \A o \in Sessions : Running(o) => a \notin session[o].new
  <2>1. ~(a < a)
    BY TableAssumption
  <2> QED
    BY <1>1, <2>1 DEF IsNextId, Present
<1>10. f.mem[a] = NoAlert
  BY <1>2, <1>4, <1>7, <1>9 DEF GoodTransaction
<1>11. /\ v \in Transaction
       /\ \A b \in AlertIds : v.mem[b] = IF b = a THEN al ELSE f.mem[b]
       /\ \A b \in AlertIds : v.base[b] = IF b = a THEN al ELSE f.base[b]
       /\ v.new = f.new \cup {a}
       /\ v.written = f.written /\ v.edit = f.edit /\ v.query = f.query
  BY <1>6, <1>8 DEF Transaction, Table
<1> HIDE DEF v
<1>12. GoodTransaction(v, db)
  <2>1. ASSUME NEW b \in AlertIds
        PROVE  /\ v.mem[b] = NoAlert <=> v.base[b] = NoAlert
               /\ v.mem[b] = NoAlert => v.written[b] = {} /\ b \notin v.new
               /\ v.mem[b] # NoAlert =>
                    /\ Agrees(v.mem[b])
                    /\ Agrees(v.base[b])
                    /\ v.base[b].resolved => v.mem[b].resolved
                    /\ "resolved" \in v.written[b] => v.base[b].resolved
               /\ b \in v.new => db[b] = NoAlert
               /\ v.mem[b] # NoAlert /\ b \notin v.new =>
                    /\ db[b] # NoAlert
                    /\ v.base[b].resolved => "resolved" \in v.written[b] \/ db[b].resolved
    <3>1. CASE b = a
      <4>1. v.written[b] = {}
        BY <1>7, <1>10, <1>11, <3>1 DEF GoodTransaction
      <4> QED
        BY <1>6, <1>9, <1>11, <3>1, <4>1, TableAssumption
    <3>2. CASE b # a
      BY <1>7, <1>11, <3>2 DEF GoodTransaction
    <3> QED
      BY <3>1, <3>2
  <2> QED
    BY <1>11, <2>1 DEF GoodTransaction
<1>13. Loaded(v)
  <2>1. v.edit \subseteq AlertIds
    BY <1>11 DEF Transaction
  <2>2. v.query = NoQuery /\ v.edit = session[s].edit
    BY <1>4, <1>7, <1>11
  <2>3. ASSUME NEW b \in v.edit PROVE v.mem[b] # NoAlert
    <3>1. b \in AlertIds /\ session[s].mem[b] # NoAlert
      BY <1>2, <2>1, <2>2 DEF Loaded
    <3>2. f.mem[b] # NoAlert
      BY <1>4, <1>7, <3>1
    <3>3. al # NoAlert
      BY <1>6, TableAssumption
    <3> QED
      BY <1>11, <3>1, <3>2, <3>3
  <2> QED
    BY <2>2, <2>3 DEF Loaded
<1>14. \A o \in Sessions \ {s} : Running(o) => session[o].new \cap v.new = {}
  BY <1>2, <1>4, <1>7, <1>9, <1>11
<1> QED
  BY <1>2, <1>5, <1>12, <1>13, <1>14, SessionStep

(* An analyst's change to the objects of the request.                      *)
LEMMA EditInv ==
  ASSUME Inv, NEW s \in Sessions, NEW status \in Dispositions, Edit(s, status)
  PROVE  Inv'
<1> DEFINE t == session[s]
           m == [a \in AlertIds |-> IF a \in t.edit THEN Disposed(t.mem[a], status)
                                                    ELSE t.mem[a]]
           v == [t EXCEPT !.mem = m, !.edit = {}]
<1>1. Running(s) /\ UNCHANGED db /\ session' = [session EXCEPT ![s] = v]
  BY DEF Edit
<1>2. /\ GoodTransaction(t, db) /\ Loaded(t)
      /\ \A o \in Sessions \ {s} : Running(o) => session[o].new \cap t.new = {}
  BY <1>1 DEF Inv
<1> HIDE DEF t
<1>3. t \in Transaction /\ t.mem \in Table /\ t.edit \in SUBSET AlertIds
  BY <1>2 DEF GoodTransaction, Transaction
<1>4. ASSUME NEW a \in t.edit
      PROVE  /\ t.mem[a] # NoAlert
             /\ m[a] \in Alert
             /\ Agrees(m[a])
             /\ t.mem[a].resolved => m[a].resolved
  <2>1. t.mem[a] # NoAlert /\ t.mem[a] \in Alert
    BY <1>2, <1>3 DEF Loaded, Table
  <2>2. m[a] = Disposed(t.mem[a], status)
    BY <1>3
  <2>3. status \in Status
    BY SessionsAssumption
  <2> QED
    BY <2>1, <2>2, <2>3 DEF Disposed, Alert, Agrees
<1>5. \A a \in AlertIds : a \notin t.edit => m[a] = t.mem[a]
  OBVIOUS
<1>6. m \in Table
  <2>1. \A a \in AlertIds : m[a] \in Alert \cup {NoAlert}
    BY <1>3, <1>4, <1>5 DEF Table
  <2>2. m = [a \in AlertIds |-> m[a]]
    OBVIOUS
  <2> HIDE DEF m
  <2> QED
    BY <2>1, <2>2 DEF Table
<1> HIDE DEF m
<1>7. /\ v \in Transaction
      /\ v.mem = m /\ v.base = t.base /\ v.written = t.written
      /\ v.new = t.new /\ v.edit = {} /\ v.query = t.query
  BY <1>3, <1>6 DEF Transaction
<1> HIDE DEF v
<1>8. GoodTransaction(v, db)
  BY <1>2, <1>4, <1>5, <1>7, ChangeGood, TableAssumption
<1>9. Loaded(v)
  <2>1. t.query # NoQuery => t.query.existing \in AlertIds \cup {NoAlert}
    BY <1>3 DEF Transaction, Query
  <2> QED
    BY <1>2, <1>4, <1>5, <1>7, <2>1, TableAssumption DEF Loaded
<1> QED
  BY <1>1, <1>2, <1>7, <1>8, <1>9, SessionStep

(* The next enforcing step of a playbook.                                  *)
LEMMA ContainAgainInv ==
  ASSUME Inv, NEW s \in Sessions, NEW i \in Identities, ContainAgain(s, i)
  PROVE  Inv'
<1> DEFINE t == session[s]
           f == Flushed(t)
           v == Confirmed(f, i)
<1>1. Running(s) /\ UNCHANGED db /\ session' = [session EXCEPT ![s] = v]
      /\ t.query = NoQuery
  BY DEF ContainAgain
<1>2. /\ GoodTransaction(t, db) /\ Loaded(t)
      /\ \A o \in Sessions \ {s} : Running(o) => session[o].new \cap t.new = {}
  BY <1>1 DEF Inv
<1>3. db \in Table /\ Stamped(db) /\ t.edit \subseteq AlertIds
  BY <1>2 DEF Inv, GoodTransaction, Transaction
<1> HIDE DEF t
<1>4. /\ GoodTransaction(f, db) /\ f.mem = t.mem /\ f.new = t.new
      /\ f.edit = t.edit /\ f.query = NoQuery
  BY <1>1, <1>2, FlushedGood
<1> HIDE DEF f
<1>5. /\ GoodTransaction(v, db) /\ v.new = f.new /\ v.edit = f.edit
      /\ v.query = NoQuery
      /\ \A a \in AlertIds : f.mem[a] # NoAlert => v.mem[a] # NoAlert
  BY <1>3, <1>4, ConfirmedGood
<1> HIDE DEF v
<1>6. Loaded(v)
  BY <1>2, <1>3, <1>4, <1>5 DEF Loaded
<1> QED
  BY <1>1, <1>2, <1>4, <1>5, <1>6, SessionStep

(* A commit writes the columns the transaction changed over what others    *)
(* committed meanwhile: the columns still agree, no row and no resolved_at *)
(* is lost.                                                                *)
LEMMA CommitTable ==
  ASSUME Inv, NEW s \in Sessions, Commit(s)
  PROVE  /\ db' \in Table
         /\ Stamped(db')
         /\ \A a \in AlertIds : db[a] # NoAlert =>
              db'[a] # NoAlert /\ (db[a].resolved => db'[a].resolved)
         /\ \A a \in AlertIds : db'[a] # NoAlert =>
              db[a] # NoAlert \/ a \in session[s].new
<1> DEFINE t == Flushed(session[s])
<1>1. Running(s) /\ GoodTransaction(session[s], db) /\ db \in Table /\ Stamped(db)
  BY DEF Commit, Finished, Inv
<1>2. GoodTransaction(t, db) /\ t.base = t.mem /\ t.new = session[s].new
  BY <1>1, FlushedGood
<1>3. db' = [a \in AlertIds |->
               IF a \in t.new THEN t.mem[a]
               ELSE IF db[a] = NoAlert THEN NoAlert
               ELSE Overlay(db[a], t.mem[a], t.written[a])]
  BY DEF Commit
<1> HIDE DEF t
<1>4. ASSUME NEW a \in AlertIds
      PROVE  /\ db'[a] \in Alert \cup {NoAlert}
             /\ db'[a] # NoAlert => Agrees(db'[a])
             /\ db[a] # NoAlert =>
                  db'[a] # NoAlert /\ (db[a].resolved => db'[a].resolved)
             /\ db'[a] # NoAlert => db[a] # NoAlert \/ a \in t.new
  <2>0. t.mem \in Table /\ t.mem[a] \in Alert \cup {NoAlert} /\ t.written[a] \subseteq Columns
    BY <1>2 DEF GoodTransaction, Transaction, Table
  <2>1. CASE a \in t.new
    BY <1>2, <1>3, <2>0, <2>1 DEF GoodTransaction
  <2>2. CASE a \notin t.new /\ db[a] = NoAlert
    BY <1>3, <2>2
  <2>3. CASE a \notin t.new /\ db[a] # NoAlert
    <3>1. db'[a] = Overlay(db[a], t.mem[a], t.written[a])
      BY <1>3, <2>3
    <3>2. db[a] \in Alert /\ Agrees(db[a])
      BY <1>1, <2>3 DEF Table, Stamped, Present, Agrees
    <3>3. t.written[a] # {} => t.mem[a] # NoAlert /\ t.mem[a] \in Alert
      BY <1>2, <2>0 DEF GoodTransaction
    <3>4. /\ db'[a] \in Alert
          /\ db'[a].status =
               IF "status" \in t.written[a] THEN t.mem[a].status ELSE db[a].status
          /\ db'[a].resolved =
               IF "resolved" \in t.written[a] THEN t.mem[a].resolved ELSE db[a].resolved
      BY <2>0, <3>1, <3>2, <3>3, OverlayAlert
    <3>5. "resolved" \in t.written[a] => t.mem[a].resolved
      BY <1>2, <3>3 DEF GoodTransaction
    <3>6. db[a].resolved => db'[a].resolved
      BY <3>4, <3>5
    <3>7. Agrees(db'[a])
      <4>1. CASE "status" \in t.written[a]
        BY <1>2, <2>3, <3>3, <3>4, <3>5, <4>1 DEF GoodTransaction, Agrees
      <4>2. CASE "status" \notin t.written[a]
        BY <3>2, <3>4, <3>6, <4>2 DEF Agrees
      <4> QED
        BY <4>1, <4>2
    <3> QED
      BY <2>3, <3>4, <3>6, <3>7, TableAssumption
  <2> QED
    BY <2>1, <2>2, <2>3
<1>5. db' \in Table
  <2>1. db' = [a \in AlertIds |-> db'[a]]
    BY <1>3
  <2> QED
    BY <1>4, <2>1 DEF Table
<1>6. Stamped(db')
  BY <1>4 DEF Stamped, Present, Agrees
<1> QED
  BY <1>2, <1>4, <1>5, <1>6

LEMMA CommitInv ==
  ASSUME Inv, NEW s \in Sessions, Commit(s)
  PROVE  Inv'
<1>1. /\ session' = [session EXCEPT ![s] = NoSession]
      /\ session \in [Sessions -> Transaction \cup {NoSession}]
      /\ Running(s)
  BY DEF Commit, Finished, Inv
<1>2. \A o \in Sessions : session'[o] = IF o = s THEN NoSession ELSE session[o]
  BY <1>1
<1>3. session' \in [Sessions -> Transaction \cup {NoSession}]
  BY <1>1
<1>4. ASSUME NEW o \in Sessions, session'[o] # NoSession
      PROVE  GoodTransaction(session'[o], db') /\ Loaded(session'[o])
  <2> DEFINE t == session[o]
  <2>1. /\ session'[o] = t /\ GoodTransaction(t, db) /\ Loaded(t)
        /\ t.new \cap session[s].new = {}
    BY <1>1, <1>2, <1>4 DEF Inv, Running
  <2> HIDE DEF t
  <2>2. ASSUME NEW a \in AlertIds
        PROVE  /\ a \in t.new => db'[a] = NoAlert
               /\ t.mem[a] # NoAlert /\ a \notin t.new =>
                    /\ db'[a] # NoAlert
                    /\ t.base[a].resolved => "resolved" \in t.written[a] \/ db'[a].resolved
    BY <2>1, CommitTable DEF GoodTransaction
  <2>3. GoodTransaction(t, db')
    BY <2>1, <2>2 DEF GoodTransaction
  <2> QED
    BY <2>1, <2>3
<1>5. ASSUME NEW o \in Sessions, NEW q \in Sessions, o # q,
             session'[o] # NoSession, session'[q] # NoSession
      PROVE  session'[o].new \cap session'[q].new = {}
  BY <1>2, <1>5 DEF Inv, Running
<1>6. db' \in Table /\ Stamped(db')
  BY CommitTable
<1>7. Stamped(db)'
  BY <1>6 DEF Stamped, Present
<1> QED
  BY <1>3, <1>4, <1>5, <1>6, <1>7 DEF Inv, Running

LEMMA RollbackInv ==
  ASSUME Inv, NEW s \in Sessions, Rollback(s)
  PROVE  Inv'
BY SessionStep DEF Rollback

LEMMA NextInv == Inv /\ [Next]_vars => Inv'
<1> SUFFICES ASSUME Inv, [Next]_vars PROVE Inv'
  OBVIOUS
<1>1. CASE UNCHANGED vars
  BY <1>1 DEF vars, Inv, Running, Stamped, Present
<1>2. ASSUME NEW s \in Sessions,
             \/ Begins(s)
             \/ \E i \in Identities : ContainAgain(s, i) \/ FindExisting(s, i)
             \/ \E r \in Results :
                  RefreshExisting(s, r) \/ NothingToRaise(s, r) \/ RaiseAlert(s, r)
             \/ \E status \in Dispositions : Edit(s, status)
             \/ Commit(s)
             \/ Rollback(s)
      PROVE  Inv'
  BY <1>2, BeginInv, ContainAgainInv, ReconcileInv, RaiseInv, EditInv,
     CommitInv, RollbackInv
<1> QED
  BY <1>1, <1>2 DEF Next, Begins

(* Every variable keeps its type, for any number of sessions.              *)
THEOREM TypesHold == Spec => []TypeOK
<1>1. Inv => TypeOK
  BY DEF Inv, TypeOK
<1> QED
  BY <1>1, InitInv, NextInv, PTL DEF Spec

(* However many transactions overlap, no committed terminal alert lacks    *)
(* resolved_at although each writes single columns of objects it loaded    *)
(* long before.                                                            *)
THEOREM StampsHold == Spec => []ResolvedStamp
<1>1. Inv => ResolvedStamp
  BY DEF Inv, ResolvedStamp
<1> QED
  BY <1>1, InitInv, NextInv, PTL DEF Spec

(* No transaction ever withdraws a resolved_at that another committed.     *)
THEOREM StampsStay == Spec => StampNeverWithdrawn
<1> DEFINE Stays == \A a \in Present(db) : db[a].resolved => db'[a].resolved
<1>1. ASSUME Inv, [Next]_vars PROVE Stays
  <2>1. CASE UNCHANGED db
    BY <2>1 DEF Present
  <2>2. ASSUME NEW s \in Sessions, Commit(s) PROVE Stays
    BY <1>1, <2>2, CommitTable DEF Present
  <2>3. ASSUME ~UNCHANGED db PROVE \E s \in Sessions : Commit(s)
    BY <1>1, <2>3 DEF Next, vars, BeginPass, BeginBatch, BeginUpdate, BeginContain,
       Start, ContainAgain, FindExisting, RefreshExisting, NothingToRaise,
       RaiseAlert, Edit, Rollback
  <2> QED
    BY <2>1, <2>2, <2>3
<1> QED
  BY <1>1, InitInv, NextInv, PTL DEF Spec, StampNeverWithdrawn
-----------------------------------------------------------------------------
(* What the two properties about stale reads and second stories need       *)
(* beyond Inv.                                                             *)

(* Scoring and containment change the status only of objects whose base    *)
(* was not terminal, and a terminal base is one the transaction wrote.     *)
FromLive(t) ==
  t.job # "update" =>
    /\ t.edit = {}
    /\ \A a \in AlertIds : t.mem[a] # NoAlert =>
         /\ t.base[a].status \in Terminal => "status" \in t.written[a] \/ a \in t.new
         /\ t.mem[a].status # t.base[a].status => t.base[a].status \notin Terminal
    /\ t.query # NoQuery /\ t.query.existing # NoAlert =>
         t.base[t.query.existing].status \notin Terminal

(* Every alert of i in d that the transaction did not insert is resolved,  *)
(* or will be when it commits.                                             *)
Settled(t, d, i) ==
  \A a \in AlertIds \ t.new :
    d[a] # NoAlert /\ d[a].identity = i => d[a].resolved \/ "resolved" \in t.written[a]

(* What a transaction knows of the identities it raised an alert for: it   *)
(* holds their rows and, when it is a batch, it held them when it looked.  *)
HoldsStories(t, d) ==
  /\ IsFiniteSet(t.new)
  /\ \A a \in AlertIds :
       t.mem[a] # NoAlert => t.base[a].identity = t.mem[a].identity
  /\ \A a \in t.new : t.mem[a].identity \in t.held
  /\ t.job = "batch" =>
       /\ t.todo \subseteq t.held
       /\ \A a, b \in t.new : t.mem[a].identity = t.mem[b].identity => a = b
       /\ \A a \in t.new : /\ t.mem[a].identity \notin t.todo
                           /\ Settled(t, d, t.mem[a].identity)
       /\ t.query # NoQuery =>
            /\ t.query.identity \in t.held
            /\ t.query.identity \notin t.todo
            /\ \A a \in t.new : t.mem[a].identity # t.query.identity
            /\ t.query.existing = NoAlert => Settled(t, d, t.query.identity)

Ready(t, d) == FromLive(t) /\ HoldsStories(t, d)

ReadyInv ==
  /\ Inv
  /\ IsFiniteSet(Present(db))
  /\ \A s \in Sessions : Running(s) => Ready(session[s], db)
  /\ \A s, o \in Sessions :
       s # o /\ Running(s) /\ Running(o) => session[s].held \cap session[o].held = {}
-----------------------------------------------------------------------------
(* A finite set of ids has a largest one: the "created_at desc" row.       *)
LEMMA FiniteMax ==
  ASSUME NEW S \in SUBSET Nat, IsFiniteSet(S), S # {}
  PROVE  \E m \in S : \A x \in S : x <= m
<1> DEFINE HasMax(U) == \E m \in U : \A x \in U : x <= m
           Bad == {U \in FiniteSubsetsOf(S) : U # {} /\ ~HasMax(U)}
<1>1. SUFFICES ASSUME Bad # {} PROVE FALSE
  <2>1. S \in FiniteSubsetsOf(S)
    BY DEF FiniteSubsetsOf
  <2> QED
    BY <2>1
<1>2. PICK U \in Bad : \A V \in Bad : ~(<<V, U>> \in StrictSubsetOrdering(S))
  <2> HIDE DEF Bad
  <2>1. Bad \subseteq FiniteSubsetsOf(S)
    BY DEF Bad
  <2> QED
    BY <1>1, <2>1, WFMin, FS_StrictSubsetOrderingWellFounded
<1>3. U \subseteq S /\ IsFiniteSet(U) /\ U # {} /\ ~HasMax(U)
  BY <1>2 DEF FiniteSubsetsOf
<1>4. PICK x \in U : TRUE
  BY <1>3
<1> DEFINE V == U \ {x}
<1>5. V \in FiniteSubsetsOf(S) /\ <<V, U>> \in StrictSubsetOrdering(S)
  <2>1. IsFiniteSet(V)
    BY <1>3, FS_RemoveElement
  <2> QED
    BY <1>3, <1>4, <2>1 DEF FiniteSubsetsOf, StrictSubsetOrdering
<1>6. CASE V = {}
  BY <1>3, <1>4, <1>6
<1>7. CASE V # {}
  <2>1. PICK m \in V : \A y \in V : y <= m
    BY <1>2, <1>5, <1>7
  <2>2. x \in Nat /\ m \in Nat /\ \A y \in U : y = x \/ y <= m
    BY <1>3, <1>4, <2>1
  <2>3. CASE x <= m
    BY <1>3, <2>1, <2>2, <2>3
  <2>4. CASE ~(x <= m)
    <3>1. \A y \in U : y <= x
      <4> SUFFICES ASSUME NEW y \in U PROVE y <= x
        OBVIOUS
      <4>1. y \in Nat
        BY <1>3
      <4> QED
        BY <2>2, <2>4, <4>1
    <3> QED
      BY <1>3, <1>4, <3>1
  <2> QED
    BY <2>3, <2>4
<1> QED
  BY <1>6, <1>7

(* Where the query finds no row, every alert the transaction sees of that  *)
(* identity is terminal.                                                   *)
LEMMA NothingFound ==
  ASSUME NEW v \in Table, IsFiniteSet(Present(v)), NEW i,
         \A a \in AlertIds : ~IsExisting(v, i, a)
  PROVE  Unresolved(v, i) = {}
<1> SUFFICES ASSUME Unresolved(v, i) # {} PROVE FALSE
  OBVIOUS
<1>1. Unresolved(v, i) \subseteq Present(v) /\ Unresolved(v, i) \in SUBSET Nat
  BY TableAssumption DEF Unresolved, AlertsOf, Present
<1>2. IsFiniteSet(Unresolved(v, i))
  BY <1>1, FS_Subset
<1>3. PICK m \in Unresolved(v, i) : \A x \in Unresolved(v, i) : x <= m
  BY <1>1, <1>2, FiniteMax
<1>4. m \in AlertIds
  BY <1>1 DEF Present
<1> QED
  BY <1>3, <1>4 DEF IsExisting

(* What the transaction sees of a row: its own base where it inserted or   *)
(* wrote it, the committed columns elsewhere.                              *)
LEMMA ViewRow ==
  ASSUME db \in Table, NEW t, GoodTransaction(t, db), HoldsStories(t, db),
         NEW a \in AlertIds, View(t)[a] # NoAlert
  PROVE  /\ a \in t.new => View(t)[a] = t.base[a]
         /\ a \notin t.new =>
              /\ db[a] # NoAlert
              /\ View(t)[a].identity = db[a].identity
              /\ View(t)[a].status = IF "status" \in t.written[a]
                                     THEN t.base[a].status ELSE db[a].status
              /\ View(t)[a].resolved = IF "resolved" \in t.written[a]
                                       THEN t.base[a].resolved ELSE db[a].resolved
<1>1. CASE a \in t.new
  BY <1>1 DEF View
<1>2. CASE a \notin t.new
  <2>1. db[a] # NoAlert /\ db[a] \in Alert
    BY <1>2 DEF View, Table
  <2>2. View(t)[a] = Overlay(db[a], t.base[a], t.written[a])
    BY <1>2, <2>1 DEF View
  <2>3. t.written[a] \in SUBSET Columns /\ (t.written[a] # {} => t.base[a] \in Alert)
    BY DEF GoodTransaction, Transaction, Table
  <2> QED
    BY <1>2, <2>1, <2>2, <2>3, OverlayAlert
<1> QED
  BY <1>1, <1>2

(* A row that it sees untouched by a verdict is one whose object, if it    *)
(* was loaded before, was loaded or written without a verdict too.         *)
LEMMA SeenLive ==
  ASSUME db \in Table, NEW t, GoodTransaction(t, db), Ready(t, db),
         t.job # "update", NEW a \in AlertIds,
         View(t)[a] # NoAlert, View(t)[a].status \notin Terminal
  PROVE  t.mem[a] # NoAlert => t.base[a].status \notin Terminal
BY ViewRow DEF Ready, FromLive

(* Loading rows without a verdict.                                         *)
LEMMA LoadReady ==
  ASSUME db \in Table, Stamped(db), NEW t, GoodTransaction(t, db), Ready(t, db),
         NEW A \in SUBSET AlertIds,
         t.job # "update" => \A a \in A : /\ View(t)[a] # NoAlert
                                         /\ View(t)[a].status \notin Terminal
  PROVE  /\ Ready(Load(t, A), db)
         /\ t.job # "update" =>
              \A a \in A : Load(t, A).base[a].status \notin Terminal
<1> DEFINE u == Load(t, A)
           missing == {a \in A : t.mem[a] = NoAlert}
<1>0. t \in Transaction
  BY DEF GoodTransaction
<1>1. u = [t EXCEPT !.mem = [a \in AlertIds |-> IF a \in missing THEN View(t)[a] ELSE t.mem[a]],
                    !.base = [a \in AlertIds |-> IF a \in missing THEN View(t)[a] ELSE t.base[a]]]
  BY DEF Load
<1> HIDE DEF u
<1>2. /\ u.mem = [a \in AlertIds |-> IF a \in missing THEN View(t)[a] ELSE t.mem[a]]
      /\ u.base = [a \in AlertIds |-> IF a \in missing THEN View(t)[a] ELSE t.base[a]]
      /\ u.job = t.job /\ u.todo = t.todo /\ u.edit = t.edit /\ u.query = t.query
      /\ u.written = t.written /\ u.new = t.new
      /\ u.touched = t.touched /\ u.held = t.held
  BY <1>0, <1>1 DEF Transaction
<1>3. ASSUME NEW a \in AlertIds
      PROVE  \/ u.mem[a] = t.mem[a] /\ u.base[a] = t.base[a]
             \/ /\ a \in A /\ t.mem[a] = NoAlert
                /\ u.mem[a] = View(t)[a] /\ u.base[a] = View(t)[a]
  BY <1>2
<1>4. t.new \subseteq AlertIds /\ \A a \in t.new : u.mem[a] = t.mem[a]
  <2>1. t.new \subseteq AlertIds
    BY <1>0 DEF Transaction
  <2>2. \A a \in t.new : t.mem[a] # NoAlert
    BY <2>1 DEF GoodTransaction
  <2> QED
    BY <1>3, <2>1, <2>2
<1>5. HoldsStories(u, db)
  <2>1. \A a \in AlertIds : u.mem[a] # NoAlert => u.base[a].identity = u.mem[a].identity
    BY <1>3 DEF Ready, HoldsStories
  <2>2. \A i : Settled(u, db, i) <=> Settled(t, db, i)
    BY <1>2 DEF Settled
  <2> QED
    BY <1>2, <1>4, <2>1, <2>2 DEF Ready, HoldsStories
<1>6. ASSUME t.job # "update", NEW a \in A
      PROVE  u.base[a].status \notin Terminal
  <2>1. View(t)[a] # NoAlert /\ View(t)[a].status \notin Terminal
    BY <1>6
  <2>2. t.mem[a] # NoAlert => t.base[a].status \notin Terminal
    BY <1>6, <2>1, SeenLive
  <2> QED
    BY <1>2, <1>3, <1>6, <2>1, <2>2
<1>7. FromLive(u)
  <2> SUFFICES ASSUME u.job # "update"
               PROVE  /\ u.edit = {}
                      /\ \A a \in AlertIds : u.mem[a] # NoAlert =>
                           /\ u.base[a].status \in Terminal =>
                                "status" \in u.written[a] \/ a \in u.new
                           /\ u.mem[a].status # u.base[a].status =>
                                u.base[a].status \notin Terminal
                      /\ u.query # NoQuery /\ u.query.existing # NoAlert =>
                           u.base[u.query.existing].status \notin Terminal
    BY DEF FromLive
  <2>1. t.job # "update" /\ u.edit = {}
    BY <1>2 DEF Ready, FromLive
  <2>2. ASSUME NEW a \in AlertIds, u.mem[a] # NoAlert
        PROVE  /\ u.base[a].status \in Terminal =>
                    "status" \in u.written[a] \/ a \in u.new
               /\ u.mem[a].status # u.base[a].status =>
                    u.base[a].status \notin Terminal
    BY <1>2, <1>3, <1>6, <2>1, <2>2 DEF Ready, FromLive
  <2>3. ASSUME u.query # NoQuery, u.query.existing # NoAlert
        PROVE  u.base[u.query.existing].status \notin Terminal
    <3>1. t.query.existing \in AlertIds
      BY <1>0, <1>2, <2>3 DEF Transaction, Query
    <3> QED
      BY <1>2, <1>3, <1>6, <2>1, <2>3, <3>1 DEF Ready, FromLive
  <2> QED
    BY <2>1, <2>2, <2>3
<1> QED
  BY <1>5, <1>6, <1>7 DEF Ready, u

(* A flush between two reconciliations.                                    *)
LEMMA FlushedReady ==
  ASSUME NEW t, GoodTransaction(t, db), Ready(t, db), t.query = NoQuery
  PROVE  /\ Ready(Flushed(t), db)
         /\ Flushed(t).job = t.job
         /\ Flushed(t).todo = t.todo
         /\ Flushed(t).held = t.held \cup t.touched
         /\ \A i : Settled(t, db, i) => Settled(Flushed(t), db, i)
<1> DEFINE u == Flushed(t)
<1>0. t \in Transaction /\ t.mem \in Table /\ t.base \in Table
  BY DEF GoodTransaction, Transaction
<1>1. u = [t EXCEPT !.base = t.mem,
                    !.written = [a \in AlertIds |-> t.written[a] \cup Dirty(t, a)],
                    !.held = t.held \cup t.touched]
  BY <1>0 DEF Flushed, Transaction
<1> HIDE DEF u
<1>2. /\ u.mem = t.mem /\ u.base = t.mem /\ u.new = t.new
      /\ u.job = t.job /\ u.todo = t.todo /\ u.edit = t.edit /\ u.query = t.query
      /\ u.held = t.held \cup t.touched
      /\ u.written = [a \in AlertIds |-> t.written[a] \cup Dirty(t, a)]
  BY <1>0, <1>1 DEF Transaction
<1>3. ASSUME t.job # "update", NEW a \in AlertIds, t.mem[a] # NoAlert,
             t.mem[a].status \in Terminal
      PROVE  "status" \in u.written[a] \/ a \in t.new
  <2>1. CASE t.mem[a].status = t.base[a].status
    BY <1>2, <1>3, <2>1 DEF Ready, FromLive
  <2>2. CASE t.mem[a].status # t.base[a].status
    BY <1>2, <1>3, <2>2 DEF Dirty, Columns
  <2> QED
    BY <2>1, <2>2
<1>4. FromLive(u)
  BY <1>2, <1>3 DEF Ready, FromLive
<1>5. \A i : Settled(t, db, i) => Settled(u, db, i)
  BY <1>2 DEF Settled
<1>6. HoldsStories(u, db)
  <2>1. t.new \subseteq AlertIds
    BY <1>0 DEF Transaction
  <2> QED
    BY <1>2, <1>5, <2>1 DEF Ready, HoldsStories
<1> QED
  BY <1>2, <1>4, <1>5, <1>6 DEF Ready, u

(* Changing objects, without a query under way, moves no alert to another  *)
(* identity; unless it is an analyst's, the change starts from a base      *)
(* without a verdict.                                                      *)
LEMMA ChangeReady ==
  ASSUME NEW t, GoodTransaction(t, db), Ready(t, db),
         NEW v \in Transaction,
         v.base = t.base, v.written = t.written, v.new = t.new, v.job = t.job,
         v.held = t.held, v.job # "update" => v.edit = {} /\ v.query = NoQuery,
         v.job = "batch" => v.todo \subseteq t.todo,
         \A a \in AlertIds :
           \/ v.mem[a] = t.mem[a]
           \/ /\ t.mem[a] # NoAlert
              /\ v.mem[a].identity = t.mem[a].identity
              /\ v.job # "update" => t.base[a].status \notin Terminal
  PROVE  Ready(v, db)
<1>1. FromLive(v)
  BY DEF Ready, FromLive
<1>2. t.new \subseteq AlertIds /\ \A a \in t.new : v.mem[a].identity = t.mem[a].identity
  BY DEF GoodTransaction, Transaction
<1>3. \A i : Settled(t, db, i) <=> Settled(v, db, i)
  BY DEF Settled
<1>4. \A a \in AlertIds : v.mem[a] # NoAlert => v.base[a].identity = v.mem[a].identity
  BY DEF Ready, HoldsStories
<1>5. HoldsStories(v, db)
  BY <1>2, <1>3, <1>4 DEF Ready, HoldsStories
<1> QED
  BY <1>1, <1>5 DEF Ready

(* Containment loads open alerts and confirms the objects.                 *)
LEMMA ConfirmedReady ==
  ASSUME db \in Table, Stamped(db), NEW t, GoodTransaction(t, db), Ready(t, db),
         t.job = "contain", t.query = NoQuery, NEW i \in Identities
  PROVE  /\ Ready(Confirmed(t, i), db)
         /\ Confirmed(t, i).held = t.held
<1> DEFINE open == {a \in AlertsOf(View(t), i) : View(t)[a].status \in OpenStatuses}
           u == Load(t, open)
           c == CloseOpenAlerts(View(t), u.mem, i)
           v == Confirmed(t, i)
<1>1. open \in SUBSET AlertIds
      /\ \A a \in open : View(t)[a] # NoAlert /\ View(t)[a].status \notin Terminal
  BY DEF AlertsOf, Present, OpenStatuses, Terminal
<1>2. /\ GoodTransaction(u, db)
      /\ u.job = t.job /\ u.edit = t.edit /\ u.query = t.query /\ u.held = t.held
      /\ \A a \in open : u.mem[a] # NoAlert
  BY <1>1, LoadGood
<1>3. Ready(u, db) /\ \A a \in open : u.base[a].status \notin Terminal
  BY <1>1, LoadReady
<1>4. GoodTransaction(v, db)
  BY ConfirmedGood
<1>5. v = [u EXCEPT !.mem = c, !.todo = {i}]
  BY <1>2 DEF Confirmed, GoodTransaction, Transaction
<1>6. \A a \in AlertIds :
        c[a] = IF a \in open
               THEN [u.mem[a] EXCEPT !.status = "CONFIRMED_INCIDENT", !.resolved = TRUE]
               ELSE u.mem[a]
  BY DEF CloseOpenAlerts
<1> HIDE DEF open, u, c, v
<1>7. u \in Transaction /\ u.mem \in Table /\ v \in Transaction
  BY <1>2, <1>4 DEF GoodTransaction, Transaction
<1>8. /\ v.mem = c /\ v.base = u.base /\ v.written = u.written
      /\ v.new = u.new /\ v.edit = u.edit /\ v.query = u.query
      /\ v.job = u.job /\ v.held = u.held
  BY <1>5, <1>7 DEF Transaction
<1>9. ASSUME NEW a \in open
      PROVE  c[a].identity = u.mem[a].identity
  <2>1. u.mem[a] \in Alert
    BY <1>1, <1>2, <1>7 DEF Table
  <2>2. c[a] = [u.mem[a] EXCEPT !.status = "CONFIRMED_INCIDENT", !.resolved = TRUE]
    BY <1>1, <1>6
  <2> QED
    BY <2>1, <2>2 DEF Alert
<1>10. \A a \in AlertIds :
         \/ v.mem[a] = u.mem[a]
         \/ /\ u.mem[a] # NoAlert
            /\ v.mem[a].identity = u.mem[a].identity
            /\ v.job # "update" => u.base[a].status \notin Terminal
  BY <1>2, <1>3, <1>6, <1>8, <1>9
<1>11. v.edit = {} /\ v.query = NoQuery /\ v.job # "batch"
  BY <1>2, <1>8 DEF Ready, FromLive
<1>12. Ready(v, db)
  BY <1>2, <1>3, <1>7, <1>8, <1>10, <1>11, ChangeReady
<1> QED
  BY <1>2, <1>8, <1>12 DEF v
-----------------------------------------------------------------------------
Apart(s, t) ==
  \A o \in Sessions \ {s} : Running(o) => session[o].held \cap t.held = {}

(* A step of one session that writes nothing to the table.                 *)
LEMMA ReadyStep ==
  ASSUME ReadyInv, Inv', UNCHANGED db, NEW s \in Sessions, NEW t,
         session' = [session EXCEPT ![s] = t],
         t # NoSession => Ready(t, db) /\ Apart(s, t)
  PROVE  ReadyInv'
<1>1. \A o \in Sessions : session'[o] = IF o = s THEN t ELSE session[o]
  BY DEF ReadyInv, Inv
<1>2. ASSUME NEW o \in Sessions, session'[o] # NoSession
      PROVE  Ready(session'[o], db')
  BY <1>1, <1>2 DEF ReadyInv, Running
<1>3. ASSUME NEW o \in Sessions, NEW q \in Sessions, o # q,
             session'[o] # NoSession, session'[q] # NoSession
      PROVE  session'[o].held \cap session'[q].held = {}
  BY <1>1, <1>3 DEF ReadyInv, Running, Apart
<1>4. IsFiniteSet(Present(db)')
  BY DEF ReadyInv, Present
<1> QED
  BY <1>2, <1>3, <1>4 DEF ReadyInv, Running

(* A transaction that has just begun.                                      *)
LEMMA BegunReady ==
  ASSUME NEW job, NEW I, NEW A, job # "update" => A = {}, job # "batch"
  PROVE  Ready(Begun(job, I, A), db) /\ Begun(job, I, A).held = {}
<1> DEFINE t == Begun(job, I, A)
<1>1. /\ t.job = job /\ t.edit = A /\ t.query = NoQuery /\ t.new = {} /\ t.held = {}
      /\ \A a \in AlertIds : t.mem[a] = NoAlert
  BY DEF Begun, Nothing
<1> HIDE DEF t
<1>2. FromLive(t)
  BY <1>1 DEF FromLive
<1>3. HoldsStories(t, db)
  BY <1>1, FS_EmptySet DEF HoldsStories
<1> QED
  BY <1>1, <1>2, <1>3 DEF Ready, t

LEMMA BeginReady ==
  ASSUME ReadyInv, NEW s \in Sessions, Begins(s)
  PROVE  ReadyInv'
<1>0. Inv /\ Inv' /\ db \in Table /\ Stamped(db)
  BY BeginInv DEF ReadyInv, Inv
<1>1. ASSUME NEW t, Start(s, t), Ready(t, db), Apart(s, t) PROVE ReadyInv'
  BY <1>0, <1>1, ReadyStep DEF Start
<1>2. ASSUME NEW I \in SUBSET Identities, BeginPass(s, I) PROVE ReadyInv'
  BY <1>1, <1>2, BegunReady DEF BeginPass, Apart
<1>3. ASSUME NEW I \in SUBSET Identities, BeginBatch(s, I) PROVE ReadyInv'
  <2> DEFINE b == Begun("batch", I, {})
             t == [b EXCEPT !.touched = I]
             u == Flushed(t)
  <2>1. Start(s, u) /\ CanFlush(s, t)
    BY <1>3 DEF BeginBatch
  <2>2. /\ t.job = "batch" /\ t.todo = I /\ t.edit = {} /\ t.query = NoQuery
        /\ t.new = {} /\ t.held = {} /\ t.touched = I
        /\ \A a \in AlertIds : t.mem[a] = NoAlert
    BY DEF Begun, Nothing
  <2>3. /\ u.job = t.job /\ u.todo = t.todo /\ u.edit = t.edit /\ u.query = t.query
        /\ u.new = t.new /\ u.held = t.held \cup t.touched /\ u.mem = t.mem
    BY DEF Flushed, Begun
  <2> HIDE DEF t, u
  <2>4. FromLive(u) /\ HoldsStories(u, db)
    BY <2>2, <2>3, FS_EmptySet DEF FromLive, HoldsStories
  <2>5. Apart(s, u)
    BY <2>1, <2>2, <2>3 DEF CanFlush, Apart
  <2> QED
    BY <1>1, <2>1, <2>4, <2>5 DEF Ready
<1>4. ASSUME NEW A \in SUBSET AlertIds, BeginUpdate(s, A) PROVE ReadyInv'
  <2> DEFINE t == Begun("update", {}, A)
  <2>1. Start(s, Load(t, A))
    BY <1>4 DEF BeginUpdate
  <2>2. "update" \in Jobs /\ t.job = "update"
    BY <2>1 DEF Start, Begun, Load
  <2>3. GoodTransaction(t, db) /\ Ready(t, db) /\ t.held = {}
    BY <1>0, <2>2, BegunGood, BegunReady
  <2> HIDE DEF t
  <2>4. Ready(Load(t, A), db) /\ Load(t, A).held = {}
    BY <1>0, <2>2, <2>3, LoadReady, LoadGood
  <2> QED
    BY <1>1, <2>1, <2>4 DEF Apart
<1>5. ASSUME NEW i \in Identities, BeginContain(s, i) PROVE ReadyInv'
  <2> DEFINE t == Begun("contain", {}, {})
  <2>1. Start(s, Confirmed(t, i))
    BY <1>5 DEF BeginContain
  <2>2. "contain" \in Jobs /\ t.job = "contain"
    BY <2>1 DEF Start, Confirmed, Begun, Load
  <2>3. GoodTransaction(t, db) /\ Ready(t, db) /\ t.held = {} /\ t.query = NoQuery
    BY <1>0, <2>2, BegunGood, BegunReady
  <2> HIDE DEF t
  <2>4. Ready(Confirmed(t, i), db) /\ Confirmed(t, i).held = {}
    BY <1>0, <2>2, <2>3, ConfirmedReady
  <2> QED
    BY <1>1, <2>1, <2>4 DEF Apart
<1> QED
  BY <1>2, <1>3, <1>4, <1>5 DEF Begins

LEMMA ContainAgainReady ==
  ASSUME ReadyInv, NEW s \in Sessions, NEW i \in Identities, ContainAgain(s, i)
  PROVE  ReadyInv'
<1> DEFINE t == session[s]
           f == Flushed(t)
           v == Confirmed(f, i)
<1>1. /\ Running(s) /\ UNCHANGED db /\ session' = [session EXCEPT ![s] = v]
      /\ t.query = NoQuery /\ t.job = "contain" /\ CanFlush(s, t)
  BY DEF ContainAgain
<1>2. /\ GoodTransaction(t, db) /\ Ready(t, db) /\ Apart(s, t)
      /\ db \in Table /\ Stamped(db) /\ Inv'
  BY <1>1, ContainAgainInv DEF ReadyInv, Inv, Apart
<1> HIDE DEF t
<1>3. /\ GoodTransaction(f, db) /\ Ready(f, db) /\ f.query = NoQuery
      /\ f.job = "contain" /\ f.held = t.held \cup t.touched
  BY <1>1, <1>2, FlushedGood, FlushedReady
<1> HIDE DEF f
<1>4. Ready(v, db) /\ v.held = f.held
  BY <1>2, <1>3, ConfirmedReady
<1> HIDE DEF v
<1>5. Apart(s, v)
  BY <1>1, <1>2, <1>3, <1>4 DEF Apart, CanFlush
<1> QED
  BY <1>1, <1>2, <1>4, <1>5, ReadyStep

(* The rows a transaction sees are committed or its own.                   *)
LEMMA ViewPresent ==
  ASSUME db \in Table, NEW t, GoodTransaction(t, db)
  PROVE  /\ Present(View(t)) \subseteq Present(db) \cup t.new
         /\ \A a \in AlertIds \ t.new : db[a] # NoAlert => View(t)[a] # NoAlert
<1>1. ASSUME NEW a \in AlertIds \ t.new, db[a] # NoAlert
      PROVE  View(t)[a] # NoAlert
  <2>1. db[a] \in Alert /\ View(t)[a] = Overlay(db[a], t.base[a], t.written[a])
    BY <1>1 DEF Table, View
  <2>2. t.written[a] \in SUBSET Columns /\ (t.written[a] # {} => t.base[a] \in Alert)
    BY DEF GoodTransaction, Transaction, Table
  <2> QED
    BY <2>1, <2>2, OverlayAlert, TableAssumption
<1> QED
  BY <1>1 DEF Present, View

(* A batch that finds nothing of an identity, whose row it holds, knows    *)
(* that all its alerts are resolved.                                       *)
LEMMA FindReady ==
  ASSUME ReadyInv, NEW s \in Sessions, NEW i \in Identities, FindExisting(s, i)
  PROVE  ReadyInv'
<1> DEFINE t == session[s]
           found == {a \in AlertIds : IsExisting(View(t), i, a)}
           chosen == IF found = {} THEN NoAlert ELSE CHOOSE a \in found : TRUE
           u == Load(t, found)
           q == [identity |-> i, existing |-> chosen]
           v == [u EXCEPT !.todo = u.todo \ {i}, !.query = q]
<1>1. /\ Running(s) /\ session' = [session EXCEPT ![s] = v] /\ UNCHANGED db
      /\ i \in t.todo
  BY DEF FindExisting
<1>2. /\ GoodTransaction(t, db) /\ Ready(t, db) /\ Apart(s, t)
      /\ db \in Table /\ Stamped(db) /\ IsFiniteSet(Present(db)) /\ Inv'
  BY <1>1, ReconcileInv DEF ReadyInv, Inv, Apart
<1>3. found \in SUBSET AlertIds
      /\ \A a \in found : View(t)[a] # NoAlert /\ View(t)[a].status \notin Terminal
  BY DEF IsExisting, Unresolved, AlertsOf, Present
<1>4. (chosen = NoAlert /\ found = {}) \/ (chosen # NoAlert /\ chosen \in found)
  BY <1>3, SessionsAssumption
<1>5. q.identity = i /\ q.existing = chosen
  OBVIOUS
<1>6. ASSUME found = {} PROVE Settled(t, db, i)
  <2>1. IsFiniteSet(t.new)
    BY <1>2 DEF Ready, HoldsStories
  <2>2. IsFiniteSet(Present(db) \cup t.new)
    BY <1>2, <2>1, FS_Union
  <2>3. IsFiniteSet(Present(View(t)))
    BY <1>2, <2>2, ViewPresent, FS_Subset
  <2>4. View(t) \in Table /\ \A a \in AlertIds : View(t)[a] # NoAlert => Agrees(View(t)[a])
    BY <1>2, ViewGood
  <2>5. Unresolved(View(t), i) = {}
    BY <1>6, <2>3, <2>4, NothingFound
  <2> HIDE DEF t, found, chosen, u, q, v
  <2>6. ASSUME NEW b \in AlertIds \ t.new, db[b] # NoAlert, db[b].identity = i
        PROVE  db[b].resolved \/ "resolved" \in t.written[b]
    <3>1. View(t)[b] # NoAlert
      BY <1>2, <2>6, ViewPresent
    <3>2. /\ View(t)[b].identity = i
          /\ View(t)[b].resolved = IF "resolved" \in t.written[b]
                                   THEN t.base[b].resolved ELSE db[b].resolved
      BY <1>2, <2>6, <3>1, ViewRow DEF Ready
    <3>3. View(t)[b].status \in Terminal
      BY <2>5, <2>6, <3>1, <3>2 DEF Unresolved, AlertsOf, Present
    <3> QED
      BY <2>4, <2>6, <3>1, <3>2, <3>3 DEF Agrees
  <2> QED
    BY <2>6 DEF Settled
<1> HIDE DEF t, found, chosen, q
<1>7. /\ GoodTransaction(u, db) /\ Ready(u, db)
      /\ u.job = t.job /\ u.todo = t.todo /\ u.edit = t.edit /\ u.held = t.held
      /\ u.written = t.written /\ u.new = t.new
      /\ \A a \in AlertIds : t.mem[a] # NoAlert => u.mem[a] = t.mem[a]
      /\ t.job # "update" => \A a \in found : u.base[a].status \notin Terminal
  BY <1>2, <1>3, LoadGood, LoadReady
<1> HIDE DEF u
<1>8. /\ v.job = u.job /\ v.todo = u.todo \ {i} /\ v.edit = u.edit /\ v.query = q
      /\ v.mem = u.mem /\ v.base = u.base /\ v.written = u.written
      /\ v.new = u.new /\ v.held = u.held
  BY <1>7 DEF GoodTransaction, Transaction
<1> HIDE DEF v
<1>9. FromLive(v)
  BY <1>4, <1>5, <1>7, <1>8 DEF Ready, FromLive
<1>10. HoldsStories(v, db)
  <2>1. \A j : /\ Settled(u, db, j) <=> Settled(v, db, j)
               /\ Settled(t, db, j) <=> Settled(v, db, j)
    BY <1>7, <1>8 DEF Settled
  <2>2. q.existing = NoAlert => Settled(v, db, i)
    BY <1>4, <1>5, <1>6, <2>1
  <2>3. t.job = "batch" =>
          /\ i \in u.held
          /\ \A a \in u.new : u.mem[a].identity # i
    BY <1>1, <1>7 DEF Ready, HoldsStories
  <2> QED
    BY <1>5, <1>7, <1>8, <2>1, <2>2, <2>3 DEF Ready, HoldsStories
<1>11. Apart(s, v)
  BY <1>2, <1>7, <1>8 DEF Apart
<1> QED
  BY <1>1, <1>2, <1>9, <1>10, <1>11, ReadyStep DEF Ready

(* What was found is refreshed, or nothing is raised.                      *)
LEMMA AnswerReady ==
  ASSUME ReadyInv, NEW s \in Sessions, NEW r \in Results,
         RefreshExisting(s, r) \/ NothingToRaise(s, r)
  PROVE  ReadyInv'
<1> DEFINE t == session[s]
           x == t.query.existing
           J == t.touched \cup {t.query.identity}
<1>1. Running(s) /\ UNCHANGED db /\ t.query # NoQuery
  BY DEF RefreshExisting, NothingToRaise
<1>2. /\ GoodTransaction(t, db) /\ Ready(t, db) /\ Apart(s, t) /\ Loaded(t) /\ Inv'
      /\ session \in [Sessions -> Transaction \cup {NoSession}]
  BY <1>1, ReconcileInv DEF ReadyInv, Inv, Apart
<1>3. t \in Transaction /\ t.mem \in Table /\ J \in SUBSET Identities
  BY <1>1, <1>2 DEF GoodTransaction, Transaction, Query
<1>4. ASSUME NEW m \in Table,
             session' = [session EXCEPT ![s] =
               [t EXCEPT !.mem = m, !.touched = J, !.query = NoQuery]],
             \A a \in AlertIds :
               \/ m[a] = t.mem[a]
               \/ /\ t.mem[a] # NoAlert
                  /\ m[a].identity = t.mem[a].identity
                  /\ t.job # "update" => t.base[a].status \notin Terminal
      PROVE  ReadyInv'
  <2> DEFINE v == [t EXCEPT !.mem = m, !.touched = J, !.query = NoQuery]
  <2> HIDE DEF t, J
  <2>1. /\ v \in Transaction
        /\ v.job = t.job /\ v.todo = t.todo /\ v.edit = t.edit /\ v.query = NoQuery
        /\ v.mem = m /\ v.base = t.base /\ v.written = t.written
        /\ v.new = t.new /\ v.held = t.held
    BY <1>3 DEF Transaction
  <2>2. session' = [session EXCEPT ![s] = v]
    BY <1>4
  <2> HIDE DEF v
  <2>3. v.job # "update" => v.edit = {}
    BY <1>2, <2>1 DEF Ready, FromLive
  <2>4. Ready(v, db)
    BY <1>2, <1>4, <2>1, <2>3, ChangeReady
  <2>5. Apart(s, v)
    BY <1>2, <2>1 DEF Apart
  <2> QED
    BY <1>1, <1>2, <2>2, <2>4, <2>5, ReadyStep
<1>5. CASE RefreshExisting(s, r)
  <2> DEFINE al == Refresh(t.mem[x], r)
             m == [t.mem EXCEPT ![x] = al]
  <2>1. x # NoAlert
    BY <1>5 DEF RefreshExisting
  <2>2. x \in AlertIds /\ t.mem[x] # NoAlert /\ t.mem[x] \in Alert
    BY <1>1, <1>2, <1>3, <2>1 DEF Loaded, Transaction, Query, Table
  <2>3. session' = [session EXCEPT ![s] =
          [t EXCEPT !.mem = m, !.touched = J, !.query = NoQuery]]
    BY <1>2, <1>3, <1>5 DEF RefreshExisting, Transaction
  <2>4. al \in Alert /\ al.identity = t.mem[x].identity
    BY <2>2, RefreshKeeps, SessionsAssumption
  <2>5. t.job # "update" => t.base[x].status \notin Terminal
    BY <1>1, <1>2, <2>1 DEF Ready, FromLive
  <2> HIDE DEF t, x, al, J
  <2>6. m \in Table /\ \A a \in AlertIds : m[a] = IF a = x THEN al ELSE t.mem[a]
    BY <1>3, <2>2, <2>4 DEF Table
  <2> HIDE DEF m
  <2> QED
    BY <1>4, <2>2, <2>3, <2>4, <2>5, <2>6
<1>6. CASE NothingToRaise(s, r)
  <2>1. session' = [session EXCEPT ![s] =
          [t EXCEPT !.mem = t.mem, !.touched = J, !.query = NoQuery]]
    BY <1>2, <1>3, <1>6 DEF NothingToRaise, Transaction
  <2> QED
    BY <1>3, <1>4, <2>1
<1> QED
  BY <1>5, <1>6

(* A raised alert belongs to an identity whose row is locked in the same   *)
(* flush.                                                                  *)
LEMMA RaiseReady ==
  ASSUME ReadyInv, NEW s \in Sessions, NEW r \in Results, RaiseAlert(s, r)
  PROVE  ReadyInv'
<1> DEFINE p == session[s]
           i == p.query.identity
           J == p.touched \cup {i}
           t == [p EXCEPT !.touched = J, !.query = NoQuery]
           f == Flushed(t)
           al == NewAlert(i, r)
<1>1. /\ Running(s) /\ p.query # NoQuery /\ p.query.existing = NoAlert /\ UNCHANGED db
      /\ session \in [Sessions -> Transaction \cup {NoSession}]
      /\ GoodTransaction(p, db) /\ Ready(p, db) /\ Apart(s, p) /\ Inv'
  BY RaiseInv DEF RaiseAlert, ReadyInv, Inv, Apart
<1>2. p \in Transaction /\ i \in Identities /\ J \in SUBSET Identities
  BY <1>1 DEF GoodTransaction, Transaction, Query
<1>3. PICK a \in AlertIds :
        /\ IsNextId(a)
        /\ CanFlush(s, t)
        /\ session' = [session EXCEPT ![s] =
             [f EXCEPT !.mem[a] = al, !.base[a] = al, !.new = @ \cup {a}]]
  BY <1>2 DEF RaiseAlert, Transaction
<1> DEFINE v == [f EXCEPT !.mem[a] = al, !.base[a] = al, !.new = f.new \cup {a}]
<1>4. session' = [session EXCEPT ![s] = v]
  BY <1>3
<1>5. al \in Alert /\ al.identity = i /\ al.status \notin Terminal
  BY <1>2, SessionsAssumption, NewAlertOpen
<1>6. a \notin p.new /\ p.mem[a] = NoAlert
  <2>1. ~(a < a)
    BY TableAssumption
  <2>2. db[a] = NoAlert /\ a \notin p.new
    BY <1>1, <1>3, <2>1 DEF IsNextId, Present
  <2> QED
    BY <1>1, <2>2 DEF GoodTransaction
<1>7. /\ GoodTransaction(t, db)
      /\ t.mem = p.mem /\ t.base = p.base /\ t.new = p.new /\ t.edit = p.edit
      /\ t.query = NoQuery /\ t.job = p.job /\ t.todo = p.todo
      /\ t.written = p.written /\ t.held = p.held /\ t.touched = J
  <2> HIDE DEF p, i, J
  <2> QED
    BY <1>1, <1>2, TouchedGood DEF Transaction
<1>8. CanFlush(s, t)
  BY <1>3
<1> HIDE DEF p, i, J, t, al
<1>9. Ready(t, db)
  <2>1. t.job # "update" => t.edit = {}
    BY <1>1, <1>7 DEF Ready, FromLive
  <2> QED
    BY <1>1, <1>7, <2>1, ChangeReady DEF GoodTransaction
<1>10. /\ GoodTransaction(f, db) /\ Ready(f, db)
       /\ f.mem = t.mem /\ f.base = t.mem /\ f.new = t.new /\ f.edit = t.edit
       /\ f.query = NoQuery /\ f.job = t.job /\ f.todo = t.todo
       /\ f.held = t.held \cup t.touched
       /\ \A j : Settled(t, db, j) => Settled(f, db, j)
  BY <1>7, <1>9, FlushedGood, FlushedReady
<1> HIDE DEF f
<1>11. /\ \A b \in AlertIds : v.mem[b] = IF b = a THEN al ELSE f.mem[b]
       /\ \A b \in AlertIds : v.base[b] = IF b = a THEN al ELSE f.base[b]
       /\ v.new = f.new \cup {a} /\ v.written = f.written /\ v.edit = f.edit
       /\ v.query = f.query /\ v.job = f.job /\ v.todo = f.todo /\ v.held = f.held
  BY <1>10 DEF GoodTransaction, Transaction, Table
<1> HIDE DEF v
<1>12. FromLive(v)
  <2>1. ASSUME NEW b \in AlertIds, v.job # "update", v.mem[b] # NoAlert
        PROVE  /\ v.base[b].status \in Terminal => "status" \in v.written[b] \/ b \in v.new
               /\ v.mem[b].status # v.base[b].status => v.base[b].status \notin Terminal
    BY <1>5, <1>10, <1>11, <2>1 DEF Ready, FromLive
  <2> QED
    BY <1>10, <1>11, <2>1 DEF Ready, FromLive
<1>13. /\ f.new \subseteq AlertIds /\ a \notin f.new
       /\ \A b \in f.new : v.mem[b] = f.mem[b]
  BY <1>6, <1>7, <1>10, <1>11 DEF GoodTransaction, Transaction
<1>14. HoldsStories(v, db)
  <2>1. IsFiniteSet(v.new)
    <3>1. IsFiniteSet(f.new)
      BY <1>10 DEF Ready, HoldsStories
    <3> QED
      BY <1>11, <3>1, FS_AddElement
  <2>2. \A b \in AlertIds : v.mem[b] # NoAlert => v.base[b].identity = v.mem[b].identity
    BY <1>10, <1>11 DEF Ready, HoldsStories
  <2>3. v.mem[a].identity = i /\ i \in v.held
    BY <1>5, <1>7, <1>10, <1>11 DEF J
  <2>4. \A j : Settled(f, db, j) => Settled(v, db, j)
    BY <1>11 DEF Settled
  <2>5. ASSUME v.job = "batch"
        PROVE  /\ i \notin v.todo
               /\ \A b \in f.new : f.mem[b].identity # i
               /\ Settled(v, db, i)
    <3>1. p.job = "batch" /\ p.todo = v.todo /\ p.new = f.new /\ p.mem = f.mem
      BY <1>7, <1>10, <1>11, <2>5
    <3>2. Settled(p, db, i)
      BY <1>1, <3>1 DEF Ready, HoldsStories, i
    <3>3. Settled(t, db, i)
      BY <1>7, <3>2 DEF Settled
    <3> QED
      BY <1>1, <1>10, <2>4, <3>1, <3>3 DEF Ready, HoldsStories, i
  <2>6. \A b \in v.new : v.mem[b].identity \in v.held
    BY <1>10, <1>11, <1>13, <2>3 DEF Ready, HoldsStories
  <2>7. ASSUME v.job = "batch"
        PROVE  /\ v.todo \subseteq v.held
               /\ \A b, c \in v.new : v.mem[b].identity = v.mem[c].identity => b = c
               /\ \A b \in v.new : /\ v.mem[b].identity \notin v.todo
                                   /\ Settled(v, db, v.mem[b].identity)
    <3>1. /\ f.todo \subseteq f.held
          /\ \A b, c \in f.new : f.mem[b].identity = f.mem[c].identity => b = c
          /\ \A b \in f.new : /\ f.mem[b].identity \notin f.todo
                              /\ Settled(f, db, f.mem[b].identity)
      BY <1>10, <1>11, <2>7 DEF Ready, HoldsStories
    <3>2. \A b \in v.new : b = a \/ b \in f.new
      BY <1>11
    <3> QED
      BY <1>11, <1>13, <2>3, <2>4, <2>5, <2>7, <3>1, <3>2
  <2>8. v.query = NoQuery
    BY <1>10, <1>11
  <2> QED
    BY <2>1, <2>2, <2>6, <2>7, <2>8 DEF HoldsStories
<1>15. Apart(s, v)
  BY <1>1, <1>7, <1>8, <1>10, <1>11 DEF Apart, CanFlush
<1> QED
  BY <1>1, <1>4, <1>12, <1>14, <1>15, ReadyStep DEF Ready

(* Only an analyst's request edits.                                        *)
LEMMA EditReady ==
  ASSUME ReadyInv, NEW s \in Sessions, NEW status \in Dispositions, Edit(s, status)
  PROVE  ReadyInv'
<1> DEFINE t == session[s]
           m == [a \in AlertIds |-> IF a \in t.edit THEN Disposed(t.mem[a], status)
                                                    ELSE t.mem[a]]
           v == [t EXCEPT !.mem = m, !.edit = {}]
<1>1. Running(s) /\ UNCHANGED db /\ session' = [session EXCEPT ![s] = v] /\ t.edit # {}
  BY DEF Edit
<1>2. /\ GoodTransaction(t, db) /\ Ready(t, db) /\ Apart(s, t) /\ Loaded(t) /\ Inv'
  BY <1>1, EditInv DEF ReadyInv, Inv, Apart
<1>3. t \in Transaction /\ t.mem \in Table /\ t.edit \in SUBSET AlertIds
  BY <1>2 DEF GoodTransaction, Transaction
<1>4. ASSUME NEW a \in AlertIds
      PROVE  /\ m[a] \in Alert \cup {NoAlert}
             /\ \/ m[a] = t.mem[a]
                \/ t.mem[a] # NoAlert /\ m[a].identity = t.mem[a].identity
  <2>1. CASE a \in t.edit
    <3>1. t.mem[a] # NoAlert /\ t.mem[a] \in Alert /\ status \in Status
      BY <1>2, <1>3, <2>1, SessionsAssumption DEF Loaded, Table
    <3>2. m[a] = Disposed(t.mem[a], status)
      BY <2>1
    <3> QED
      BY <3>1, <3>2 DEF Disposed, Alert
  <2>2. CASE a \notin t.edit
    BY <1>3, <2>2 DEF Table
  <2> QED
    BY <2>1, <2>2
<1>5. m \in Table
  BY <1>4 DEF Table
<1>6. t.job = "update"
  BY <1>1, <1>2 DEF Ready, FromLive
<1> HIDE DEF t, m
<1>7. /\ v \in Transaction
      /\ v.mem = m /\ v.base = t.base /\ v.written = t.written
      /\ v.new = t.new /\ v.job = t.job /\ v.held = t.held
  BY <1>3, <1>5 DEF Transaction
<1> HIDE DEF v
<1>8. Ready(v, db)
  BY <1>2, <1>4, <1>6, <1>7, ChangeReady
<1>9. Apart(s, v)
  BY <1>2, <1>7 DEF Apart
<1> QED
  BY <1>1, <1>2, <1>8, <1>9, ReadyStep

(* The committed rows, one by one.                                         *)
LEMMA CommitRows ==
  ASSUME ReadyInv, NEW s \in Sessions, Commit(s), NEW a \in AlertIds
  PROVE  LET t == session[s] IN
         /\ a \in t.new => db[a] = NoAlert /\ db'[a] = t.mem[a]
         /\ a \notin t.new /\ db[a] = NoAlert => db'[a] = NoAlert
         /\ a \notin t.new /\ db[a] # NoAlert =>
              /\ db'[a].identity = db[a].identity
              /\ db'[a].status # db[a].status =>
                   /\ t.mem[a] # NoAlert
                   /\ db'[a].status = t.mem[a].status
              /\ "resolved" \in t.written[a] => db'[a].resolved
<1> DEFINE t == session[s]
           f == Flushed(t)
<1>1. Running(s) /\ GoodTransaction(t, db) /\ db \in Table
  BY DEF Commit, Finished, ReadyInv, Inv
<1>2. GoodTransaction(f, db) /\ f.mem = t.mem /\ f.base = t.mem /\ f.new = t.new
  BY <1>1, FlushedGood
<1>3. f.written[a] = t.written[a] \cup Dirty(t, a)
  BY <1>1 DEF Flushed, GoodTransaction, Transaction
<1>4. db'[a] = IF a \in f.new THEN f.mem[a]
               ELSE IF db[a] = NoAlert THEN NoAlert
               ELSE Overlay(db[a], f.mem[a], f.written[a])
  BY DEF Commit
<1> HIDE DEF t, f
<1>5. CASE a \in t.new
  BY <1>1, <1>2, <1>4, <1>5 DEF GoodTransaction, t
<1>6. CASE a \notin t.new /\ db[a] # NoAlert
  <2>1. db'[a] = Overlay(db[a], t.mem[a], f.written[a])
    BY <1>2, <1>4, <1>6
  <2>2. db[a] \in Alert /\ f.written[a] \in SUBSET Columns
    BY <1>1, <1>2, <1>6 DEF GoodTransaction, Transaction, Table
  <2>3. f.written[a] # {} => t.mem[a] # NoAlert /\ t.mem[a] \in Alert
    BY <1>2 DEF GoodTransaction, Transaction, Table
  <2>4. /\ db'[a].identity = db[a].identity
        /\ db'[a].status =
             IF "status" \in f.written[a] THEN t.mem[a].status ELSE db[a].status
        /\ db'[a].resolved =
             IF "resolved" \in f.written[a] THEN t.mem[a].resolved ELSE db[a].resolved
    BY <2>1, <2>2, <2>3, OverlayAlert
  <2>5. "resolved" \in t.written[a] => db'[a].resolved
    BY <1>2, <1>3, <2>3, <2>4 DEF GoodTransaction
  <2> QED
    BY <1>6, <2>3, <2>4, <2>5 DEF t
<1>7. CASE a \notin t.new /\ db[a] = NoAlert
  BY <1>2, <1>4, <1>7 DEF t
<1> QED
  BY <1>5, <1>6, <1>7 DEF t

(* What one transaction commits leaves what another knows true: it brings  *)
(* no alert of an identity whose row the other holds.                      *)
LEMMA CommitReady ==
  ASSUME ReadyInv, NEW s \in Sessions, Commit(s)
  PROVE  ReadyInv'
<1>1. /\ session' = [session EXCEPT ![s] = NoSession] /\ Running(s)
      /\ session \in [Sessions -> Transaction \cup {NoSession}]
      /\ Inv /\ Inv' /\ Ready(session[s], db) /\ GoodTransaction(session[s], db)
  BY CommitInv DEF Commit, Finished, ReadyInv, Inv
<1>2. \A o \in Sessions : session'[o] = IF o = s THEN NoSession ELSE session[o]
  BY <1>1
<1>3. ASSUME NEW o \in Sessions, session'[o] # NoSession
      PROVE  Ready(session'[o], db')
  <2> DEFINE t == session[o]
  <2>1. o # s /\ Running(o) /\ session'[o] = t
    BY <1>2, <1>3 DEF Running
  <2>2. Ready(t, db) /\ GoodTransaction(t, db) /\ t.held \cap session[s].held = {}
    BY <1>1, <2>1 DEF ReadyInv, Inv
  <2> HIDE DEF t
  <2>3. ASSUME NEW i \in t.held, Settled(t, db, i) PROVE Settled(t, db', i)
    <3> SUFFICES ASSUME NEW a \in AlertIds \ t.new, db'[a] # NoAlert,
                        db'[a].identity = i
                 PROVE  db'[a].resolved \/ "resolved" \in t.written[a]
      BY DEF Settled
    <3>1. CASE a \in session[s].new
      <4>1. db'[a].identity \in session[s].held
        BY <1>1, <3>1, CommitRows DEF Ready, HoldsStories
      <4> QED
        BY <2>2, <4>1
    <3>2. CASE a \notin session[s].new
      <4>1. db[a] # NoAlert /\ db'[a].identity = db[a].identity
        BY <3>2, CommitRows
      <4>2. db[a].resolved => db'[a].resolved
        BY <1>1, <4>1, CommitTable
      <4> QED
        BY <2>3, <4>1, <4>2 DEF Settled
    <3> QED
      BY <3>1, <3>2
  <2>4. HoldsStories(t, db')
    BY <2>2, <2>3 DEF Ready, HoldsStories
  <2> QED
    BY <2>1, <2>2, <2>4 DEF Ready
<1>4. ASSUME NEW o \in Sessions, NEW q \in Sessions, o # q,
             session'[o] # NoSession, session'[q] # NoSession
      PROVE  session'[o].held \cap session'[q].held = {}
  BY <1>2, <1>4 DEF ReadyInv, Running
<1>5. IsFiniteSet(Present(db)')
  <2>1. IsFiniteSet(Present(db) \cup session[s].new)
    BY <1>1, FS_Union DEF ReadyInv, Ready, HoldsStories
  <2>2. Present(db)' \subseteq Present(db) \cup session[s].new
    BY <1>1, CommitTable DEF Present
  <2> QED
    BY <2>1, <2>2, FS_Subset
<1> QED
  BY <1>1, <1>3, <1>4, <1>5 DEF ReadyInv, Running

LEMMA NextReady == ReadyInv /\ [Next]_vars => ReadyInv'
<1> SUFFICES ASSUME ReadyInv, [Next]_vars PROVE ReadyInv'
  OBVIOUS
<1>0. Inv'
  BY NextInv DEF ReadyInv
<1>1. CASE UNCHANGED vars
  BY <1>0, <1>1 DEF vars, ReadyInv, Running, Present
<1>2. ASSUME NEW s \in Sessions, Rollback(s) PROVE ReadyInv'
  BY <1>0, <1>2, ReadyStep DEF Rollback
<1>3. ASSUME NEW s \in Sessions,
             \/ Begins(s)
             \/ \E i \in Identities : ContainAgain(s, i) \/ FindExisting(s, i)
             \/ \E r \in Results :
                  RefreshExisting(s, r) \/ NothingToRaise(s, r) \/ RaiseAlert(s, r)
             \/ \E status \in Dispositions : Edit(s, status)
             \/ Commit(s)
             \/ Rollback(s)
      PROVE  ReadyInv'
  BY <1>2, <1>3, BeginReady, ContainAgainReady, FindReady, AnswerReady, RaiseReady,
     EditReady, CommitReady
<1> QED
  BY <1>1, <1>3 DEF Next, Begins

LEMMA InitReady == Init => ReadyInv
<1> SUFFICES ASSUME Init PROVE ReadyInv
  OBVIOUS
<1>1. Present(db) = {}
  BY DEF Init, Nothing, Present
<1>2. \A s \in Sessions : ~Running(s)
  BY DEF Init, Running
<1> QED
  BY <1>1, <1>2, InitInv, FS_EmptySet DEF ReadyInv
-----------------------------------------------------------------------------
(* The table changes only when a transaction commits, and no other session *)
(* moves in that step.                                                     *)
LEMMA OnlyCommitsWrite ==
  ASSUME ReadyInv, [Next]_vars, NEW s \in Sessions, session'[s] # session[s],
         db' # db
  PROVE  Commit(s)
<1>1. PICK o \in Sessions : Commit(o)
  BY DEF Next, vars, BeginPass, BeginBatch, BeginUpdate, BeginContain,
     Start, ContainAgain, FindExisting, RefreshExisting, NothingToRaise,
     RaiseAlert, Edit, Rollback
<1>2. o = s
  BY <1>1 DEF Commit, ReadyInv, Inv
<1> QED
  BY <1>1, <1>2

(* A committed verdict falls to scoring or containment only when that      *)
(* transaction had read the alert before the verdict, however many         *)
(* transactions overlap and wherever their coroutines interleave.          *)
THEOREM OnlyStaleReadsOverturn == Spec => VerdictsFallOnlyToStaleReads
<1> DEFINE OnlyStale ==
      \A a \in Present(db), s \in Sessions :
        /\ db[a].status \in Terminal
        /\ db'[a].status # db[a].status
        /\ session'[s] # session[s]
        => \/ session[s].job = "update"
           \/ session[s].base[a].status # db[a].status
<1>1. ASSUME ReadyInv, [Next]_vars PROVE OnlyStale
  <2> SUFFICES ASSUME NEW a \in Present(db), NEW s \in Sessions,
                      db[a].status \in Terminal,
                      db'[a].status # db[a].status,
                      session'[s] # session[s],
                      session[s].job # "update"
               PROVE  session[s].base[a].status # db[a].status
    OBVIOUS
  <2>1. a \in AlertIds /\ db[a] # NoAlert
    BY DEF Present
  <2>2. Commit(s)
    BY <1>1, OnlyCommitsWrite
  <2>3. Ready(session[s], db)
    BY <1>1, <2>2 DEF Commit, Finished, ReadyInv
  <2>4. session[s].mem[a] # NoAlert /\ db'[a].status = session[s].mem[a].status
    BY <1>1, <2>1, <2>2, CommitRows
  <2> QED
    BY <2>1, <2>3, <2>4 DEF Ready, FromLive
<1> QED
  BY <1>1, InitReady, NextReady, PTL DEF Spec, VerdictsFallOnlyToStaleReads

(* A batch, which locks the rows of its identities before it looks for     *)
(* their alerts, opens no second story beside one never resolved, whatever *)
(* passes, containment, analysts and other batches commit meanwhile.       *)
THEOREM BatchesKeepOneStory == Spec => BatchesOpenNoSecondStory
<1> DEFINE KeepsOne ==
      \A s \in Sessions :
        /\ Running(s) /\ session[s].job = "batch" /\ session'[s] = NoSession
        /\ SingleStory(db)
        => SingleStory(db')
<1>1. ASSUME ReadyInv, [Next]_vars PROVE KeepsOne
  <2> SUFFICES ASSUME NEW s \in Sessions, Running(s), session[s].job = "batch",
                      session'[s] = NoSession, SingleStory(db)
               PROVE  SingleStory(db')
    OBVIOUS
  <2> DEFINE t == session[s]
  <2>1. Commit(s) \/ db' = db
    BY <1>1, OnlyCommitsWrite DEF Running
  <2>2. CASE db' = db
    BY <2>2
  <2>3. CASE Commit(s)
    <3>1. /\ HoldsStories(t, db) /\ t.job = "batch"
          /\ t.new \subseteq AlertIds
      BY <1>1 DEF ReadyInv, Ready, Inv, GoodTransaction, Transaction
    <3>2. Inv
      BY <1>1 DEF ReadyInv
    <3> HIDE DEF t
    <3> SUFFICES ASSUME NEW i \in Identities, NEW a \in AlertIds, NEW b \in AlertIds,
                        db'[a] # NoAlert, db'[a].identity = i, ~db'[a].resolved,
                        db'[b] # NoAlert, db'[b].identity = i, ~db'[b].resolved
                 PROVE  a = b
      BY DEF SingleStory, AlertsOf, Present
    <3>3. ASSUME NEW c \in t.new, NEW d \in AlertIds \ t.new,
                 db'[c].identity = i, db'[d] # NoAlert, db'[d].identity = i
          PROVE  db'[d].resolved
      <4>1. t.mem[c].identity = i
        BY <1>1, <2>3, <3>1, <3>3, CommitRows DEF t
      <4>2. Settled(t, db, i)
        BY <3>1, <4>1 DEF HoldsStories
      <4>3. db[d] # NoAlert /\ db[d].identity = i
        BY <1>1, <2>3, <3>3, CommitRows DEF t
      <4>4. db[d].resolved \/ "resolved" \in t.written[d]
        BY <4>2, <4>3 DEF Settled
      <4>5. db[d].resolved => db'[d].resolved
        BY <2>3, <3>2, <4>3, CommitTable
      <4>6. "resolved" \in t.written[d] => db'[d].resolved
        BY <1>1, <2>3, <4>3, CommitRows DEF t
      <4> QED
        BY <4>4, <4>5, <4>6
    <3>4. CASE a \in t.new /\ b \in t.new
      <4>1. t.mem[a].identity = i /\ t.mem[b].identity = i
        BY <1>1, <2>3, <3>4, CommitRows DEF t
      <4> QED
        BY <3>1, <3>4, <4>1 DEF HoldsStories
    <3>5. CASE a \in t.new /\ b \notin t.new
      BY <3>3, <3>5
    <3>6. CASE a \notin t.new /\ b \in t.new
      BY <3>3, <3>6
    <3>7. CASE a \notin t.new /\ b \notin t.new
      <4>1. /\ db[a] # NoAlert /\ db[a].identity = i
            /\ db[b] # NoAlert /\ db[b].identity = i
        BY <1>1, <2>3, <3>7, CommitRows DEF t
      <4>2. ~db[a].resolved /\ ~db[b].resolved
        BY <2>3, <3>2, <4>1, CommitTable
      <4> QED
        BY <4>1, <4>2 DEF SingleStory, AlertsOf, Present
    <3> QED
      BY <3>4, <3>5, <3>6, <3>7
  <2> QED
    BY <2>1, <2>2, <2>3
<1> QED
  BY <1>1, InitReady, NextReady, PTL DEF Spec, BatchesOpenNoSecondStory
=============================================================================
