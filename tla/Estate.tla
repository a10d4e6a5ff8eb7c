------------------------------- MODULE Estate -------------------------------
(***************************************************************************)
(* What the stored scores of an estate were computed from, and how they    *)
(* come to agree with it again.  A score rests on three things that change *)
(* apart from each other: the active watchlists of an identity (rows, that *)
(* the hourly maintenance retires), the tuning of the engine and the       *)
(* cohorts (memory of each process).  Every process of the deployment runs *)
(* a scheduler, whose passes (workers/scheduler.py) score the estate with  *)
(* the memory of that process, and serves requests (endpoints analytics    *)
(* and identities) with it.  They score in transactions of their own; a    *)
(* transaction reads what is committed and what it has itself flushed,     *)
(* keeps its changes in its session, and locks a row when it flushes it.   *)
(***************************************************************************)
EXTENDS Integers, FiniteSets, TLC

CONSTANTS
  Processes,       (* the worker processes of the API                       *)
  Identities,      (* monitored identities                                  *)
  Lists,           (* watchlists that analysts may create                   *)
  Members,         (* Members[l]: the identities on l                       *)
  Expiring,        (* the lists with an expiry date                         *)
  FirstLists,      (* the lists that are there at the start                 *)
  Alerting,        (* identities whose score may raise an alert             *)
  DefaultTuning,   (* EngineConfig as the settings give it                  *)
  Changes,         (* partial updates of the tuning that are requested      *)
  Cadence,         (* successful passes between two maintenances of one     *)
                   (* process                                               *)
  MaxRequests      (* bound on requests                                     *)

Ordered(t) == t.early < t.escalating /\ t.escalating < t.critical

ASSUME EstateAssumption ==
  /\ Processes # {} /\ "request" \notin Processes
  /\ Members \in [Lists -> SUBSET Identities] /\ Expiring \subseteq Lists
  /\ FirstLists \subseteq Lists
  /\ Ordered(DefaultTuning)
  /\ Cadence \in Nat \ {0} /\ MaxRequests \in Nat

VARIABLES
  active,      (* identities that are monitored: is_active                  *)
  marked,      (* identities shown as watched: on_watchlist                 *)
  lists,       (* lists[l]: "absent", "active", "overdue" or "retired"      *)
  stored,      (* stored[i]: what the score in the row of i was made from   *)
  broken,      (* whether an enabled rule makes every scoring fail          *)
  tuning,      (* tuning[p]: config of the detection service                *)
  engine,      (* engine[p]: config of the sequence engine, that scores     *)
  cohort,      (* cohort[p]: identities in the cached cohorts, or NoCache   *)
  work,        (* the transactions of the schedulers and of one request     *)
  due,         (* due[p]: successful passes until the next maintenance      *)
  requests     (* so far                                                    *)

rows == <<active, marked, lists, stored, broken>>
memory == <<tuning, engine, cohort>>
vars == <<rows, memory, work, due, requests>>

(* The scheduler of each process, by its name, and a request.              *)
Workers == Processes \cup {"request"}
NoCache == {"no cache"}
NoList == "no list"
Idle == [kind |-> "idle"]
Maintaining == [kind |-> "maintain"]

Effective(l) == lists[l] \in {"active", "overdue"}
-----------------------------------------------------------------------------
(* Some lists have been created and are counted, a rule may be broken, the *)
(* processes have just started, on one machine.                            *)
Init ==
  /\ lists = [l \in Lists |-> IF l \in FirstLists THEN "active" ELSE "absent"]
  /\ marked = UNION {Members[l] : l \in FirstLists}
  /\ stored = [i \in Identities |-> [lists |-> {l \in FirstLists : i \in Members[l]},
                                    tuning |-> DefaultTuning, cohort |-> Identities]]
  /\ active = Identities /\ broken \in BOOLEAN
  /\ tuning = [p \in Processes |-> DefaultTuning] /\ engine = tuning
  /\ cohort = [p \in Processes |-> NoCache]
  /\ work = [w \in Workers |-> Idle] /\ requests = 0
  /\ \E passes \in 0..Cadence : due = [p \in Processes |-> passes]

(* A session: the process it is of, the identities left to score, whether  *)
(* the cohorts are to be computed first and the rows read for that, the    *)
(* list it adds and whether that is flushed, the rows as it loaded them,   *)
(* its changes, and the rows it has flushed and locked.                    *)
Session(p, kind, todo, refresh, list) ==
  [at |-> p, kind |-> kind, todo |-> todo, refresh |-> refresh, list |-> list, added |-> FALSE,
   read |-> {}, loaded |-> [i \in todo |-> stored[i]], wrote |-> <<>>, held |-> {}]

Scoring(w) == work[w] \notin {Idle, Maintaining}
Held(w) == IF Scoring(w) THEN work[w].held ELSE {}
Dirty(w) == IF Scoring(w) THEN DOMAIN work[w].wrote ELSE {}
Locked(w) == UNION {Held(u) : u \in Workers \ {w}}
Free(those) == \A w \in Workers : those \cap Held(w) = {}

(* BackgroundScheduler._tick: score_all reads the active identities once.  *)
BeginPass(p) ==
  /\ work[p] = Idle
  /\ work' = [work EXCEPT ![p] = Session(p, "pass", active, "wanted", NoList)]
  /\ UNCHANGED <<rows, memory, due, requests>>

(* refresh_peer_cache: the rows are read, then they replace the cache.     *)
ReadCohorts(w) ==
  /\ Scoring(w) /\ work[w].refresh = "wanted"
  /\ work' = [work EXCEPT ![w].refresh = "read", ![w].read = active]
  /\ UNCHANGED <<rows, memory, due, requests>>

CacheCohorts(w) ==
  /\ Scoring(w) /\ work[w].refresh = "read"
  /\ cohort' = [cohort EXCEPT ![work[w].at] = work[w].read]
  /\ work' = [work EXCEPT ![w].refresh = "done", ![w].read = {}]
  /\ UNCHANGED <<rows, tuning, engine, due, requests>>

(* Mutation: the mark on the identity is trusted.                          *)
Watching_ByMark(w, i) ==
  {l \in Lists : i \in marked /\ i \in Members[l] /\ (Effective(l) \/ (work[w].list = l /\ work[w].added))}

(* _watchlist_multiplier: expires_at is not looked at.                     *)
Watching(w, i) ==
  {l \in Lists : i \in Members[l] /\ (Effective(l) \/ (work[w].list = l /\ work[w].added))}

With(wrote, i, score) ==
  [j \in DOMAIN wrote \cup {i} |-> IF j = i THEN score ELSE wrote[j]]

(* score_identity.  An alert that is raised is flushed, and everything the *)
(* session changed so far with it; that waits for rows another has locked. *)
Score(w, i, raises) ==
  LET s == work[w]
      wrote == With(s.wrote, i, [lists |-> Watching(w, i), tuning |-> engine[s.at],
                                 cohort |-> cohort[s.at]])
  IN  /\ Scoring(w) /\ s.refresh = "done" /\ i \in s.todo /\ ~broken
      /\ raises => i \in Alerting /\ DOMAIN wrote \cap Locked(w) = {}
      /\ work' = [work EXCEPT ![w].todo = @ \ {i}, ![w].wrote = wrote,
                              ![w].held = IF raises THEN DOMAIN wrote ELSE @,
                              ![w].added = @ \/ (raises /\ s.list # NoList)]
      /\ UNCHANGED <<rows, memory, due, requests>>

(* Only columns whose value differs from the one loaded are written.       *)
Written(s) ==
  [i \in Identities |-> IF i \in DOMAIN s.wrote /\ s.wrote[i] # s.loaded[i]
                        THEN s.wrote[i] ELSE stored[i]]

(* Mutation: off by one pass.                                              *)
Maintains_Late(s) == s.kind = "pass" /\ due[s.at] < 0

(* A pass that succeeded is followed by maintenance when that is due.      *)
Maintains(s) == s.kind = "pass" /\ due[s.at] = 0

Commit(w) ==
  LET s == work[w]
  IN  /\ Scoring(w) /\ s.refresh = "done" /\ s.todo = {} /\ Dirty(w) \cap Locked(w) = {}
      /\ stored' = Written(s)
      /\ lists' = [l \in Lists |-> IF l = s.list THEN "active" ELSE lists[l]]
      /\ marked' = IF s.list = NoList THEN marked ELSE marked \cup Members[s.list]
      /\ work' = [work EXCEPT ![w] = IF Maintains(s) THEN Maintaining ELSE Idle]
      /\ due' = IF s.kind = "pass" /\ due[w] > 0 THEN [due EXCEPT ![w] = @ - 1] ELSE due
      /\ UNCHANGED <<active, broken, memory, requests>>

(* A rule that cannot be evaluated: the session is rolled back, the        *)
(* request fails, and a tick ends before its maintenance.                  *)
Fail(w) ==
  /\ Scoring(w) /\ work[w].refresh = "done" /\ work[w].todo # {} /\ broken
  /\ work' = [work EXCEPT ![w] = Idle]
  /\ UNCHANGED <<rows, memory, due, requests>>

(* One locked a row at an alert and wants more, the other wants that row   *)
(* and locks rows in the order of their keys.                              *)
Clash(u, v) ==
  Held(u) \cap Dirty(v) # {} /\ (Dirty(u) \cap Dirty(v)) \ Held(u) # {}

(* The database ends a deadlock by failing one of the two.                 *)
Deadlock(w) ==
  /\ \E u \in Workers \ {w} : Clash(u, w) \/ Clash(w, u)
  /\ work' = [work EXCEPT ![w] = Idle]
  /\ UNCHANGED <<rows, memory, due, requests>>

(* _maintenance, for watchlists: an identity that is still on another list *)
(* loses its mark too.                                                     *)
Maintain(p) ==
  LET expired == {l \in Lists : lists[l] = "overdue"}
      unmarked == UNION {Members[l] : l \in expired}
  IN  /\ work[p] = Maintaining /\ Free(unmarked)
      /\ lists' = [l \in Lists |-> IF l \in expired THEN "retired" ELSE lists[l]]
      /\ marked' = marked \ unmarked
      /\ work' = [work EXCEPT ![p] = Idle] /\ due' = [due EXCEPT ![p] = Cadence]
      /\ UNCHANGED <<active, stored, broken, memory, requests>>
-----------------------------------------------------------------------------
Requested == requests < MaxRequests /\ requests' = requests + 1

(* A request that scores; the cohorts are cached for two minutes.          *)
Begin(kind, todo, list) ==
  /\ work["request"] = Idle
  /\ \E p \in Processes, refresh \in {"wanted", "done"} :
       /\ cohort[p] = NoCache => refresh = "wanted"
       /\ work' = [work EXCEPT !["request"] = Session(p, kind, todo, refresh, list)]
  /\ UNCHANGED <<rows, due>>

(* create_watchlist: names are unique, members may be inactive.            *)
CreateList(l) ==
  Requested /\ lists[l] = "absent" /\ Begin("list", Members[l], l) /\ UNCHANGED memory

(* rescore, rebuild_baseline and the other requests that score one         *)
(* identity.                                                               *)
Rescore(i) == Requested /\ Begin("one", {i}, NoList) /\ UNCHANGED memory

(* Mutation: only the thresholds of the request are compared.              *)
Accepts_Alone(p, change) ==
  \A lower, higher \in DOMAIN change :
    (lower = "early" /\ higher # "early") \/ (lower # "critical" /\ higher = "critical")
      => change[lower] < change[higher]

(* A partial update is judged by what it makes of the tuning.              *)
Accepts(p, change) == Ordered(change @@ tuning[p])

(* apply_config                                                            *)
Apply(p, t) == tuning' = [tuning EXCEPT ![p] = t] /\ engine' = [engine EXCEPT ![p] = t]

(* update_hyperparameters: a candidate is checked, the engine of the       *)
(* process that serves the request takes it at once, and the estate may be *)
(* scored with it before the request commits.                              *)
Tune(p, change, recompute) ==
  LET candidate == change @@ tuning[p]
  IN  /\ Requested /\ Accepts(p, change)
      /\ Apply(p, candidate) /\ UNCHANGED cohort
      /\ IF recompute
         THEN /\ work["request"] = Idle
              /\ work' = [work EXCEPT !["request"] = Session(p, "tune", active, "wanted", NoList)]
              /\ UNCHANGED <<rows, due>>
         ELSE UNCHANGED <<rows, work, due>>

(* update_identity and offboard, which do not score.                       *)
SetActive(i) ==
  /\ Requested /\ Free({i})
  /\ active' = IF i \in active THEN active \ {i} ELSE active \cup {i}
  /\ UNCHANGED <<marked, lists, stored, broken, memory, work, due>>

SetMark(i) ==
  /\ Requested /\ Free({i})
  /\ marked' = IF i \in marked THEN marked \ {i} ELSE marked \cup {i}
  /\ UNCHANGED <<active, lists, stored, broken, memory, work, due>>

(* A rule that fails when it is evaluated is enabled, or switched off.     *)
ChangeRule ==
  /\ Requested /\ broken' = ~broken
  /\ UNCHANGED <<active, marked, lists, stored, memory, work, due>>

Expire(l) ==
  /\ l \in Expiring /\ lists[l] = "active"
  /\ lists' = [lists EXCEPT ![l] = "overdue"]
  /\ UNCHANGED <<active, marked, stored, broken, memory, work, due, requests>>

(* A process ends and another takes its place: what it had in memory is    *)
(* lost; when maintenance is due depends on how long the machine is up.    *)
Serves(p, w) == w = p \/ (Scoring(w) /\ work[w].at = p)

Restart(p) ==
  /\ cohort' = [cohort EXCEPT ![p] = NoCache] /\ Apply(p, DefaultTuning)
  /\ \E passes \in 0..Cadence : due' = [due EXCEPT ![p] = passes]
  /\ work' = [w \in Workers |-> IF Serves(p, w) THEN Idle ELSE work[w]]
  /\ UNCHANGED <<rows, requests>>
-----------------------------------------------------------------------------
SessionStep(w) ==
  \/ ReadCohorts(w) \/ CacheCohorts(w) \/ Commit(w) \/ Fail(w)
  \/ \E i \in Identities, raises \in BOOLEAN : Score(w, i, raises)

Request ==
  \/ \E l \in Lists : CreateList(l)
  \/ \E i \in Identities : Rescore(i) \/ SetActive(i) \/ SetMark(i)
  \/ \E p \in Processes, change \in Changes, recompute \in BOOLEAN : Tune(p, change, recompute)
  \/ ChangeRule

Next ==
  \/ Request
  \/ \E p \in Processes : BeginPass(p) \/ Maintain(p) \/ Restart(p)
  \/ \E w \in Workers : SessionStep(w) \/ Deadlock(w)
  \/ \E l \in Lists : Expire(l)

(* Each scheduler's loop outlives a failed tick, a request that was begun  *)
(* is carried through, the database ends a deadlock neither of the two can *)
(* leave, and of the commits that keep waiting for rows one gets them.     *)
Fairness ==
  /\ \A p \in Processes : WF_vars(BeginPass(p) \/ Maintain(p) \/ SessionStep(p) \/ Deadlock(p))
  /\ WF_vars(SessionStep("request") \/ Deadlock("request"))
  /\ SF_vars(\E w \in Workers : Commit(w))

Spec == Init /\ [][Next]_vars /\ Fairness
-----------------------------------------------------------------------------
(* No step shows work that is half done: in each process the thresholds    *)
(* stay strictly ordered whatever partial updates come, and the one config *)
(* is the other; and no score counts a watchlist whose request was rolled  *)
(* back, although its members are scored, and alerts about them flushed,   *)
(* before it commits.  (A retune whose own re-scoring fails is not taken   *)
(* back: it stays in the memory of its process.)                           *)
NothingHalfDone ==
  /\ \A p \in Processes : Ordered(engine[p]) /\ engine[p] = tuning[p]
  /\ \A i \in Identities : \A l \in stored[i].lists : lists[l] # "absent"

(* Every score agrees with what it should be made from, and was made with  *)
(* the tuning of some process.                                             *)
Settled ==
  \A i \in active :
    /\ stored[i].lists = {l \in Lists : i \in Members[l] /\ Effective(l)}
    /\ stored[i].cohort = active
    /\ stored[i].tuning \in {tuning[p] : p \in Processes}

(* Once scoring works again and neither requests nor restarts come any     *)
(* more, the scores come to agree with the lists, the cohorts and the      *)
(* tuning and stay so, whatever was read too early, lost in a rollback or  *)
(* at a restart, or overwritten by an older session.  Which tuning that is *)
(* stays open when the processes were tuned apart, see the end.            *)
Quiet == <>[]~broken /\ <>[][\A p \in Processes : ~Restart(p)]_vars

ScoresSettle == Quiet => <>[]Settled

(* And every list that expires is retired in the end and from then on      *)
(* counts for nobody: some process gets through a pass after which it      *)
(* maintains, though a pass that fails never does and a restart begins the *)
(* count again.                                                            *)
ExpiredListsLoseEffect ==
  Quiet => <>[](\A l \in Expiring :
    /\ lists[l] # "overdue"
    /\ lists[l] = "retired" => \A i \in active : l \notin stored[i].lists)
-----------------------------------------------------------------------------
(* docs/DEPLOYMENT.md:141 of several processes that score: "harmless, since *)
(* scoring is idempotent".  It fails: a new tuning reaches the process that *)
(* serves the request, and processes tuned apart replace each other's       *)
(* scores with every pass.                                                  *)
ScoringIsIdempotent == Quiet => <>[][UNCHANGED stored]_vars
=============================================================================
