------------------------------ MODULE Seeding ------------------------------
(***************************************************************************)
(* How an estate comes into the database and is replaced while the         *)
(* platform is in use: every worker process seeds at its start             *)
(* (main.py, db/seed.py), an administrator may have everything deleted and *)
(* seeded again (endpoints/simulator.py), and meanwhile batches are        *)
(* ingested and cases are opened (services/ingest.py, response.py), each   *)
(* in a transaction of its own on PostgreSQL.                              *)
(*                                                                         *)
(* A transaction reads what is committed when it asks.  A row it has       *)
(* deleted is locked: whoever writes it, or refers to it, waits for the    *)
(* end.  An estate stands for the identities of one seeding, whose ids are *)
(* new every time and whose usernames are always the same.                 *)
(***************************************************************************)
EXTENDS Naturals, FiniteSets

CONSTANTS
  Workers,     (* processes of the server, each of which starts by itself   *)
  Requests,    (* transactions in progress besides                          *)
  Estates,     (* names for estates, used again once nothing has them       *)
  MaxCases,    (* bound on the cases stored at a time                       *)
  None         (* no transaction, no estate                                 *)

ASSUME SeedingAssumption ==
  /\ Workers # {} /\ Workers \cap Requests = {}
  /\ Estates # {} /\ None \notin Estates
  /\ MaxCases \in Nat

VARIABLES
  db,          (* what is committed                                         *)
  worker,      (* of each process: "stopped", "seeding" or "up"             *)
  session      (* the transaction of each process and request               *)

vars == <<db, worker, session>>

(* The unique column is the number; era is the estate when it was counted. *)
Case(ref, of, era) == [ref |-> ref, of |-> of, era |-> era]

(* operators stands for all that is looked up by its key before it is      *)
(* added: accounts, assets, rules, playbooks, indicators, integrations.    *)
(* approvals, baselines and the seeded watchlist have no unique column.    *)
Empty ==
  [operators |-> FALSE, identities |-> {}, approvals |-> {}, events |-> {},
   cases |-> {}]

Init ==
  /\ db = Empty
  /\ worker = [w \in Workers |-> "stopped"]
  /\ session = [s \in Workers \cup Requests |-> None]
-----------------------------------------------------------------------------
Runs(s, op) == session[s] # None /\ session[s].op = op

(* Names that neither a row nor a transaction has.                         *)
Unused ==
  {e \in Estates :
     /\ e \notin db.identities \cup db.approvals \cup db.events
     /\ \A c \in db.cases : e # c.of /\ e # c.era
     /\ \A s \in DOMAIN session : session[s] # None => e \notin session[s].names}

Fresh == CHOOSE e \in Unused : TRUE

(* The identities that a transaction not yet committed has deleted.        *)
IdentitiesTaken ==
  UNION {session[r].identities : r \in {q \in Requests : Runs(q, "cleared")}}

(* A process that is up serves it.                                         *)
Begin(r, s) ==
  /\ session[r] = None
  /\ worker[s.by] = "up"
  /\ session' = [session EXCEPT ![r] = s]
  /\ UNCHANGED <<db, worker>>

End(s) == session' = [session EXCEPT ![s] = None]
-----------------------------------------------------------------------------
(* Mutation: accounts are added without looking whether they are there.    *)
Missing_Unasked == TRUE

(* Whether seed_all finds no accounts and the like under their keys.       *)
Missing == ~db.operators

(* lifespan: a process that starts reads what there is to seed.            *)
Boot(w) ==
  /\ worker[w] = "stopped"
  /\ db.identities = {} => Unused # {}
  /\ LET new == IF db.identities = {} THEN {Fresh} ELSE {}
     IN  session' = [session EXCEPT ![w] =
           [op |-> "seed", operators |-> Missing, estate |-> new, names |-> new,
            by |-> w]]
  /\ worker' = [worker EXCEPT ![w] = "seeding"]
  /\ UNCHANGED db

(* Mutation: neither accounts nor usernames are kept apart.                *)
Clashes_Never(s) == FALSE

(* An account or a username that is added is there already.                *)
Clashes(s) ==
  \/ s.operators /\ db.operators
  \/ s.estate # {} /\ db.identities # {}

(* seed_all commits everything it adds at once, history and scores         *)
(* included, and the process serves.                                       *)
Seeded(w) ==
  /\ Runs(w, "seed")
  /\ ~Clashes(session[w])
  /\ LET new == session[w].estate
     IN  db' = [db EXCEPT !.operators = TRUE, !.identities = @ \cup new,
                          !.approvals = @ \cup new, !.events = @ \cup new]
  /\ worker' = [worker EXCEPT ![w] = "up"]
  /\ End(w)

(* Everything stops, and what was not committed is lost.                   *)
Stop ==
  /\ worker' = [w \in Workers |-> "stopped"]
  /\ session' = [s \in DOMAIN session |-> None]
  /\ UNCHANGED db

(* Its flush fails on the key that another one has committed: a process    *)
(* that cannot start makes the server give up, and the container restarts. *)
SeedingFails(w) == Runs(w, "seed") /\ Clashes(session[w]) /\ Stop

(* The host or the container goes down.                                    *)
Crash == (\E w \in Workers : worker[w] # "stopped") /\ Stop

(* One process dies, with what it serves, and is started anew.             *)
Die(w) ==
  /\ worker[w] # "stopped"
  /\ worker' = [worker EXCEPT ![w] = "stopped"]
  /\ session' = [s \in DOMAIN session |->
                   IF s = w \/ (session[s] # None /\ session[s].by = w)
                   THEN None ELSE session[s]]
  /\ UNCHANGED db
-----------------------------------------------------------------------------
(* A batch, a scenario or a pass finds its identities, and then writes     *)
(* them with its events, snapshots and alerts.                             *)
BeginBatch(r) ==
  \E w \in Workers, e \in db.identities :
    Begin(r, [op |-> "batch", of |-> e, names |-> {e}, by |-> w])

(* The row an UPDATE needs is there; it waits for one that is being taken. *)
Found(e) == e \in db.identities /\ e \notin IdentitiesTaken

Batch(r) ==
  /\ Runs(r, "batch") /\ Found(session[r].of)
  /\ db' = [db EXCEPT !.events = @ \cup {session[r].of}]
  /\ End(r)
  /\ UNCHANGED worker

(* create_case counts the cases before it adds one, of an identity or of   *)
(* nobody.                                                                 *)
BeginCase(r) ==
  /\ Cardinality(db.cases) < MaxCases
  /\ \E w \in Workers, of \in db.identities \cup {None}, era \in db.identities :
       Begin(r, [op |-> "case", names |-> {of, era} \ {None}, by |-> w,
                 case |-> Case(Cardinality(db.cases) + 1, of, era)])

(* Mutation: the number need not be free.                                  *)
Free_Any(ref) == TRUE

(* No case has the number; a case that is being taken has it until then.   *)
Free(ref) == \A c \in db.cases : c.ref # ref

OpenCase(r) ==
  /\ Runs(r, "case")
  /\ LET c == session[r].case
     IN  /\ Free(c.ref)
         /\ c.of # None => c.of \in db.identities /\ c.of \notin IdentitiesTaken
         /\ db' = [db EXCEPT !.cases = @ \cup {c}]
  /\ End(r)
  /\ UNCHANGED worker
-----------------------------------------------------------------------------
(* reset_estate deletes table by table what is committed, the identities   *)
(* last, and waits for another reset at the first table.                   *)
Clear(r) ==
  /\ \A q \in Requests : ~Runs(q, "clearing") /\ ~Runs(q, "cleared")
  /\ db.operators
  /\ \E w \in Workers :
       Begin(r, [op |-> "clearing", events |-> db.events, approvals |-> db.approvals,
                 cases |-> db.cases, names |-> {}, by |-> w])

ClearIdentities(r) ==
  /\ Runs(r, "clearing")
  /\ Unused # {}
  /\ LET s == session[r]
     IN  session' = [session EXCEPT ![r] =
           [op |-> "cleared", by |-> s.by, events |-> s.events \cup db.identities,
            approvals |-> s.approvals \cup db.identities, cases |-> s.cases,
            identities |-> db.identities, estate |-> Fresh, names |-> {Fresh}]]
  /\ UNCHANGED <<db, worker>>

(* The new estate is committed with the deletes.  What refers to a deleted *)
(* identity went with it, but a case only loses the reference.             *)
Reset(r) ==
  /\ Runs(r, "cleared")
  /\ LET s == session[r]
         Kept(c) == IF c.of \in s.identities THEN [c EXCEPT !.of = None] ELSE c
     IN  /\ db.identities \subseteq s.identities
         /\ db' = [db EXCEPT !.identities = {s.estate},
                             !.approvals = (@ \ s.approvals) \cup {s.estate},
                             !.events = (@ \ s.events) \cup {s.estate},
                             !.cases = {Kept(c) : c \in @ \ s.cases}]
  /\ End(r)
  /\ UNCHANGED worker

(* It failed, for instance on a row that is gone, or was given up.         *)
Rollback(r) ==
  /\ session[r] # None
  /\ End(r)
  /\ UNCHANGED <<db, worker>>
-----------------------------------------------------------------------------
Request(r) ==
  \/ BeginBatch(r) \/ Batch(r)
  \/ BeginCase(r) \/ OpenCase(r)
  \/ Clear(r) \/ ClearIdentities(r) \/ Reset(r)
  \/ Rollback(r)

Next ==
  \/ \E w \in Workers : Boot(w) \/ Seeded(w) \/ SeedingFails(w) \/ Die(w)
  \/ Crash
  \/ \E r \in Requests : Request(r)

(* The container keeps its processes running, and seeding comes to an end. *)
Fairness ==
  \A w \in Workers : WF_vars(Boot(w)) /\ WF_vars(Seeded(w) \/ SeedingFails(w))

Spec == Init /\ [][Next]_vars /\ Fairness
-----------------------------------------------------------------------------
(* There is one estate or none, whole and alone: however starts, restarts  *)
(* and resets overlap, no username's approvals, baselines or history are   *)
(* there twice or missing, and no event, snapshot, alert or case refers to *)
(* an identity that is gone.                                               *)
OneEstate ==
  /\ Cardinality(db.identities) <= 1
  /\ db.operators <=> db.identities # {}
  /\ db.approvals = db.identities /\ db.events = db.identities
  /\ \A c \in db.cases : c.of \in db.identities \cup {None}

(* Cases are numbered without a gap and never alike, so that the number    *)
(* after the count is free: as long as every case was counted under the    *)
(* estate that is stored.  A case that was being opened while the estate   *)
(* was reset keeps its old number, and once the count has reached it no    *)
(* case can be opened any more.                                            *)
NumberedInOrder ==
  (\A c \in db.cases : c.era \in db.identities)
    => {c.ref : c \in db.cases} = 1 .. Cardinality(db.cases)

(* A process or the whole server goes down, not because seeding failed.    *)
Accident ==
  /\ Crash \/ \E w \in Workers : Die(w)
  /\ \A w \in Workers : ~SeedingFails(w)

(* Once nothing crashes any more every process ends up serving, although   *)
(* those that start together on an empty database get in each other's way  *)
(* and a failed start takes all of them down.                              *)
ComesUp ==
  <>[][~Accident]_vars => <>[](\A w \in Workers : worker[w] = "up")
-----------------------------------------------------------------------------
(* What a description says and the code does not do.                       *)

(* endpoints/simulator.py:80: "Deletes all simulated and injected          *)
(* telemetry, alerts, cases and response history".                         *)
ResetDeletesAll == [][(\E r \in Requests : Reset(r)) => db'.cases = {}]_vars
=============================================================================
