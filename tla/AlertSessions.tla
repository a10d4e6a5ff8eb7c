--------------------------- MODULE AlertSessions ---------------------------
(***************************************************************************)
(* Overlapping transactions on the alerts table.  Requests, ingestion      *)
(* batches and the scheduler's pass each run in a session of their own     *)
(* (get_db, session_scope) whose coroutines interleave at every await.     *)
(*                                                                         *)
(* A session queries what is committed plus what it flushed itself (READ   *)
(* COMMITTED), keeps the objects it loaded without refreshing them, and    *)
(* writes the columns it changed when it flushes; a flushed row is locked  *)
(* until the session ends.  Scoring also writes the identity's row.        *)
(*                                                                         *)
(* What the engine returns is left open here: any result of Results.       *)
(***************************************************************************)
EXTENDS AlertTable, FiniteSets

CONSTANTS
  Sessions,     (* transactions that may overlap                            *)
  Jobs,         (* which kinds of transaction run                           *)
  Results,      (* results a scoring pass may come to                       *)
  Dispositions, (* statuses an analyst's request sets                       *)
  NoSession,    (* nothing runs                                             *)
  NoQuery       (* no reconcile_alert is under way                          *)

VARIABLES
  db,           (* the committed alerts                                     *)
  session       (* the transaction each session runs                        *)

vars == <<db, session>>

Columns == {"status", "tamper", "resolved"}

Query == [identity : Identities, existing : AlertIds \cup {NoAlert}]

Transaction ==
  [job : {"pass", "batch", "contain", "update"},
   todo : SUBSET Identities,          (* still to score                     *)
   edit : SUBSET AlertIds,            (* loaded for an analyst's change     *)
   query : Query \cup {NoQuery},      (* found, not yet acted upon          *)
   mem : Table,                       (* the objects loaded, as they are    *)
   base : Table,                      (* the same as loaded or flushed      *)
   written : [AlertIds -> SUBSET Columns],   (* columns flushed             *)
   new : SUBSET AlertIds,             (* rows inserted                      *)
   touched : SUBSET Identities,       (* identity objects changed           *)
   held : SUBSET Identities]          (* identity rows flushed              *)

ASSUME SessionsAssumption ==
  /\ Jobs \subseteq {"pass", "batch", "contain", "update"}
  /\ Results \subseteq Result
  /\ Dispositions \subseteq Status
  /\ NoSession \notin Transaction
  /\ NoQuery \notin Query
  /\ NoAlert \notin AlertIds

Nothing == [a \in AlertIds |-> NoAlert]

Init ==
  /\ db = Nothing
  /\ session = [s \in Sessions |-> NoSession]
-----------------------------------------------------------------------------
Running(s) == session[s] # NoSession

(* The row with the given columns taken from another version of it.        *)
Overlay(row, from, cols) ==
  [identity |-> row.identity,
   status |-> IF "status" \in cols THEN from.status ELSE row.status,
   tamper |-> IF "tamper" \in cols THEN from.tamper ELSE row.tamper,
   resolved |-> IF "resolved" \in cols THEN from.resolved ELSE row.resolved]

(* What a query of the transaction t filters on.                           *)
View(t) ==
  [a \in AlertIds |->
     IF a \in t.new THEN t.base[a]
     ELSE IF db[a] = NoAlert THEN NoAlert
     ELSE Overlay(db[a], t.base[a], t.written[a])]

(* The transaction with the rows of A loaded: an object it already has is  *)
(* not refreshed.                                                          *)
Load(t, A) ==
  LET missing == {a \in A : t.mem[a] = NoAlert}
      fresh(old) == [a \in AlertIds |-> IF a \in missing THEN View(t)[a] ELSE old[a]]
  IN  [t EXCEPT !.mem = fresh(@), !.base = fresh(@)]

(* Mutation: a changed object is written with all its columns.             *)
Dirty_AllColumns(t, a) ==
  IF t.mem[a] = NoAlert \/ t.mem[a] = t.base[a] THEN {} ELSE Columns

Dirty(t, a) ==
  IF t.mem[a] = NoAlert THEN {}
  ELSE {c \in Columns : t.mem[a][c] # t.base[a][c]}

(* No other transaction holds a row this flush would write.                *)
CanFlush(s, t) ==
  \A o \in Sessions \ {s} :
    Running(o) =>
      /\ session[o].held \cap t.touched = {}
      /\ \A a \in AlertIds : Dirty(t, a) # {} => session[o].written[a] = {}

Flushed(t) ==
  [t EXCEPT !.base = t.mem,
            !.written = [a \in AlertIds |-> @[a] \cup Dirty(t, a)],
            !.held = @ \cup t.touched]

(* The id of an alert created now: newer than every row there is.          *)
IsNextId(a) ==
  LET taken == Present(db) \cup
               UNION {session[s].new : s \in {o \in Sessions : Running(o)}}
  IN  /\ \A b \in taken : b < a
      /\ \A b \in AlertIds : b < a => \E c \in taken : b <= c
-----------------------------------------------------------------------------
Begun(job, I, A) ==
  [job |-> job, todo |-> I, edit |-> A, query |-> NoQuery,
   mem |-> Nothing, base |-> Nothing, written |-> [a \in AlertIds |-> {}],
   new |-> {}, touched |-> {}, held |-> {}]

Start(s, t) ==
  /\ session[s] = NoSession
  /\ t.job \in Jobs
  /\ session' = [session EXCEPT ![s] = t]
  /\ UNCHANGED db

(* The scheduler's pass, /rescore, /rescore-all, a change of approvals.    *)
BeginPass(s, I) == Start(s, Begun("pass", I, {}))

(* Mutation: the batch scores before it flushes.                           *)
BeginBatch_Unflushed(s, I) == Start(s, Begun("batch", I, {}))

(* Ingestion flushes the event counts of its identities before it scores.  *)
BeginBatch(s, I) ==
  LET t == [Begun("batch", I, {}) EXCEPT !.touched = I]
  IN  CanFlush(s, t) /\ Start(s, Flushed(t))

(* An analyst's request loads the alerts it will change.                   *)
BeginUpdate(s, A) ==
  /\ A \subseteq Present(db)
  /\ Start(s, Load(Begun("update", {}, A), A))

(* Containment loads the open alerts and confirms the objects.             *)
Confirmed(t, i) ==
  LET open == {a \in AlertsOf(View(t), i) : View(t)[a].status \in OpenStatuses}
      loaded == Load(t, open)
  IN  [loaded EXCEPT !.mem = CloseOpenAlerts(View(t), @, i), !.todo = {i}]

BeginContain(s, i) == Start(s, Confirmed(Begun("contain", {}, {}), i))

(* The next enforcing action of a playbook, after the flush of this one.   *)
ContainAgain(s, i) ==
  /\ Running(s)
  /\ session[s].job = "contain"
  /\ session[s].todo = {} /\ session[s].query = NoQuery
  /\ session[s].touched = {i}
  /\ CanFlush(s, session[s])
  /\ session' = [session EXCEPT ![s] = Confirmed(Flushed(session[s]), i)]
  /\ UNCHANGED db
-----------------------------------------------------------------------------
(* reconcile_alert: the query, then what it decides after more awaits.     *)
FindExisting(s, i) ==
  /\ Running(s)
  /\ session[s].query = NoQuery
  /\ i \in session[s].todo
  /\ LET t == session[s]
         found == {a \in AlertIds : IsExisting(View(t), i, a)}
         chosen == IF found = {} THEN NoAlert ELSE CHOOSE a \in found : TRUE
         asked == [Load(t, found) EXCEPT !.todo = @ \ {i},
                     !.query = [identity |-> i, existing |-> chosen]]
     IN  session' = [session EXCEPT ![s] = asked]
  /\ UNCHANGED db

(* The query found an alert: it is refreshed or closed, not yet flushed.   *)
RefreshExisting(s, r) ==
  /\ Running(s)
  /\ session[s].query # NoQuery
  /\ session[s].query.existing # NoAlert
  /\ LET t == session[s]
         a == t.query.existing
         refreshed == [t.mem EXCEPT ![a] = Refresh(t.mem[a], r)]
         done == [t EXCEPT !.mem = refreshed,
                           !.touched = @ \cup {t.query.identity},
                           !.query = NoQuery]
     IN  session' = [session EXCEPT ![s] = done]
  /\ UNCHANGED db

(* It found none, and there is nothing to alert about.                     *)
NothingToRaise(s, r) ==
  /\ Running(s)
  /\ session[s].query # NoQuery
  /\ session[s].query.existing = NoAlert
  /\ ~ShouldAlert(r)
  /\ LET t == session[s]
         done == [t EXCEPT !.touched = @ \cup {t.query.identity},
                           !.query = NoQuery]
     IN  session' = [session EXCEPT ![s] = done]
  /\ UNCHANGED db

(* It found none: a new alert is added and everything so far is flushed.   *)
RaiseAlert(s, r) ==
  /\ Running(s)
  /\ session[s].query # NoQuery
  /\ session[s].query.existing = NoAlert
  /\ ShouldAlert(r)
  /\ \E a \in AlertIds :
       LET i == session[s].query.identity
           t == [session[s] EXCEPT !.touched = @ \cup {i}, !.query = NoQuery]
           added == [Flushed(t) EXCEPT !.mem[a] = NewAlert(i, r),
                                       !.base[a] = NewAlert(i, r),
                                       !.new = @ \cup {a}]
       IN  /\ IsNextId(a)
           /\ CanFlush(s, t)
           /\ session' = [session EXCEPT ![s] = added]
  /\ UNCHANGED db

(* A patch, an assignment, a false positive, or the status a new case      *)
(* gives all the alerts it links.                                          *)
Disposed(al, status) ==
  [al EXCEPT !.status = status, !.resolved = @ \/ status \in Terminal]

(* The analyst's change, made on the objects loaded when the request began.*)
Edit(s, status) ==
  /\ Running(s)
  /\ session[s].edit # {}
  /\ status = "INVESTIGATING" \/ \E a \in AlertIds : session[s].edit = {a}
  /\ LET t == session[s]
         edited == [a \in AlertIds |-> IF a \in t.edit THEN Disposed(t.mem[a], status)
                                       ELSE t.mem[a]]
         done == [t EXCEPT !.mem = edited, !.edit = {}]
     IN  session' = [session EXCEPT ![s] = done]
  /\ UNCHANGED db
-----------------------------------------------------------------------------
Finished(s) ==
  /\ Running(s)
  /\ session[s].todo = {}
  /\ session[s].query = NoQuery
  /\ session[s].edit = {}

Commit(s) ==
  /\ Finished(s)
  /\ CanFlush(s, session[s])
  /\ LET t == Flushed(session[s])
     IN  db' = [a \in AlertIds |->
                  IF a \in t.new THEN t.mem[a]
                  ELSE IF db[a] = NoAlert THEN NoAlert
                  ELSE Overlay(db[a], t.mem[a], t.written[a])]
  /\ session' = [session EXCEPT ![s] = NoSession]

(* An exception in the handler, a deadlock found by the database, a        *)
(* cancelled task.                                                         *)
Rollback(s) ==
  /\ Running(s)
  /\ session' = [session EXCEPT ![s] = NoSession]
  /\ UNCHANGED db

Next ==
  \E s \in Sessions :
    \/ \E I \in (SUBSET Identities) \ {{}} : BeginPass(s, I) \/ BeginBatch(s, I)
    \/ \E A \in (SUBSET AlertIds) \ {{}} : BeginUpdate(s, A)
    \/ \E i \in Identities :
         BeginContain(s, i) \/ ContainAgain(s, i) \/ FindExisting(s, i)
    \/ \E r \in Results :
         RefreshExisting(s, r) \/ NothingToRaise(s, r) \/ RaiseAlert(s, r)
    \/ \E status \in Dispositions : Edit(s, status)
    \/ Commit(s)
    \/ Rollback(s)

Spec == Init /\ [][Next]_vars
-----------------------------------------------------------------------------
(* Every variable has its type.                                            *)
TypeOK ==
  /\ db \in Table
  /\ session \in [Sessions -> Transaction \cup {NoSession}]

(* Although status and resolved_at are separate columns that different     *)
(* transactions may write, no committed terminal alert lacks resolved_at.  *)
ResolvedStamp == Stamped(db)

(* resolved_at is never withdrawn, whatever stale object is written back.  *)
StampNeverWithdrawn ==
  [][\A a \in Present(db) : db[a].resolved => db'[a].resolved]_vars

(* A verdict that is committed falls to scoring or containment only when   *)
(* that transaction had read the alert before the verdict.                 *)
VerdictsFallOnlyToStaleReads ==
  [][\A a \in Present(db), s \in Sessions :
       /\ db[a].status \in Terminal
       /\ db'[a].status # db[a].status
       /\ session'[s] # session[s]
       => \/ session[s].job = "update"
          \/ session[s].base[a].status # db[a].status]_vars

(* services/detection.py:249: one open alert per identity, which includes  *)
(* that nobody opens a second story beside one never resolved.             *)
OneStory == SingleStory(db)

(* A batch locks the rows of its identities before it looks, so it never   *)
(* opens a second story, whatever passes, containment and analysts do.     *)
BatchesOpenNoSecondStory ==
  [][\A s \in Sessions :
       /\ Running(s) /\ session[s].job = "batch" /\ session'[s] = NoSession
       /\ SingleStory(db)
       => SingleStory(db')]_vars
=============================================================================
