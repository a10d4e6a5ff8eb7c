---------------------------- MODULE Estate_proofs ----------------------------
(***************************************************************************)
(* That nothing stays half done, for any number of processes, every        *)
(* estate, every set of lists and every tuning that may be requested.      *)
(***************************************************************************)
EXTENDS Estate, TLAPS

Tables ==
  /\ lists = [l \in Lists |-> lists[l]]
  /\ stored = [i \in Identities |-> stored[i]]
  /\ work = [w \in Workers |-> work[w]]
  /\ tuning = [p \in Processes |-> tuning[p]]
  /\ engine = [p \in Processes |-> engine[p]]

OneConfig == \A p \in Processes : Ordered(engine[p]) /\ engine[p] = tuning[p]

Known(l) == l \in Lists /\ lists[l] # "absent"

(* A score counts lists that exist, and until its session commits also the *)
(* one that this session adds.                                             *)
StoredKnown == \A i \in Identities : \A l \in stored[i].lists : Known(l)

WroteKnown(t, s) ==
  \A i \in DOMAIN s.wrote : \A l \in s.wrote[i].lists :
    l \in Lists /\ (t[l] # "absent" \/ l = s.list)

Fields(s) ==
  s = [at |-> s.at, kind |-> s.kind, todo |-> s.todo, refresh |-> s.refresh, list |-> s.list,
       added |-> s.added, read |-> s.read, loaded |-> s.loaded, wrote |-> s.wrote,
       held |-> s.held]

SessionsKnown ==
  \A w \in Workers : Scoring(w) => Fields(work[w]) /\ WroteKnown(lists, work[w])

Inv == Tables /\ OneConfig /\ StoredKnown /\ SessionsKnown
-----------------------------------------------------------------------------
(* Lists that exist go on existing, so what was known stays known.         *)
Grows == \A l \in Lists : lists[l] # "absent" => lists'[l] # "absent"

LEMMA StoredStays ==
  ASSUME StoredKnown, UNCHANGED stored, Grows
  PROVE  StoredKnown'
BY DEF StoredKnown, Known, Grows

(* The session of one worker becomes s, the other's stays.                 *)
LEMMA SessionStays ==
  ASSUME Tables, SessionsKnown, Grows, NEW w \in Workers, NEW s,
         work' = [work EXCEPT ![w] = s],
         s \in {Idle, Maintaining} \/ (Fields(s) /\ WroteKnown(lists, s))
  PROVE  SessionsKnown' /\ work' = [v \in Workers |-> work'[v]]
<1>1. work' = [v \in Workers |-> IF v = w THEN s ELSE work[v]]
  BY DEF Tables
<1>2. ASSUME NEW v \in Workers, work'[v] \notin {Idle, Maintaining}
      PROVE  Fields(work'[v]) /\ WroteKnown(lists', work'[v])
  <2>1. CASE v = w
    BY <1>1, <1>2, <2>1 DEF WroteKnown, Grows
  <2>2. CASE v # w
    BY <1>1, <1>2, <2>2 DEF SessionsKnown, Scoring, WroteKnown, Grows
  <2> QED
    BY <2>1, <2>2
<1>3. SessionsKnown'
  BY <1>2 DEF SessionsKnown, Scoring, Fields, WroteKnown
<1> QED
  BY <1>1, <1>3

LEMMA NewSession ==
  ASSUME NEW p, NEW kind, NEW todo, NEW refresh, NEW list
  PROVE  LET s == Session(p, kind, todo, refresh, list) IN Fields(s) /\ WroteKnown(lists, s)
<1> DEFINE s == Session(p, kind, todo, refresh, list)
<1>1. s.wrote = <<>>
  BY DEF Session
<1>2. WroteKnown(lists, s)
  BY <1>1 DEF WroteKnown
<1>3. Fields(s)
  BY DEF Fields, Session
<1> QED
  BY <1>2, <1>3
-----------------------------------------------------------------------------
Updating(s, todo, wrote, held, added) ==
  [s EXCEPT !.todo = todo, !.wrote = wrote, !.held = held, !.added = added]

LEMMA Updated ==
  ASSUME NEW s, Fields(s), NEW todo, NEW wrote, NEW held, NEW added
  PROVE  LET t == Updating(s, todo, wrote, held, added)
         IN  Fields(t) /\ t.list = s.list /\ t.wrote = wrote
<1> DEFINE a == [s EXCEPT !.todo = todo]
           b == [a EXCEPT !.wrote = wrote]
           c == [b EXCEPT !.held = held]
           t == [c EXCEPT !.added = added]
<1>1. Fields(a) /\ a.list = s.list
  BY DEF Fields
<1> HIDE DEF a
<1>2. Fields(b) /\ b.list = a.list /\ b.wrote = wrote
  BY <1>1 DEF Fields
<1> HIDE DEF b
<1>3. Fields(c) /\ c.list = b.list /\ c.wrote = b.wrote
  BY <1>2 DEF Fields
<1> HIDE DEF c
<1>4. Fields(t) /\ t.list = c.list /\ t.wrote = c.wrote
  BY <1>3 DEF Fields
<1> HIDE DEF t
<1>5. Fields(t) /\ t.list = s.list /\ t.wrote = wrote
  BY <1>1, <1>2, <1>3, <1>4
<1> QED
  BY <1>5 DEF t, c, b, a, Updating

LEMMA ScoreKeeps ==
  ASSUME Inv, NEW w \in Workers, NEW i \in Identities, NEW raises, Score(w, i, raises)
  PROVE  Inv'
<1> DEFINE s == work[w]
           score == [lists |-> Watching(w, i), tuning |-> engine[s.at], cohort |-> cohort[s.at]]
           wrote == With(s.wrote, i, score)
           held == IF raises THEN DOMAIN wrote ELSE s.held
           added == s.added \/ (raises /\ s.list # NoList)
           t == Updating(s, s.todo \ {i}, wrote, held, added)
<1>1. Fields(s) /\ WroteKnown(lists, s)
  BY DEF Inv, SessionsKnown, Score
<1>2. work' = [work EXCEPT ![w] = t] /\ UNCHANGED <<rows, memory>>
  BY DEF Score, Inv, Tables, Updating
<1>3. Fields(t) /\ t.list = s.list /\ t.wrote = wrote
  <2> HIDE DEF s, wrote, held, added
  <2> QED
    BY <1>1, Updated
<1>4. WroteKnown(lists, t)
  <2>1. \A l \in score.lists : l \in Lists /\ (lists[l] # "absent" \/ l = s.list)
    BY DEF Watching, Effective
  <2>2. \A j \in DOMAIN t.wrote : t.wrote[j] = score \/ (j \in DOMAIN s.wrote /\ t.wrote[j] = s.wrote[j])
    BY <1>3 DEF With
  <2> HIDE DEF score, t, s
  <2> QED
    BY <1>1, <1>3, <2>1, <2>2 DEF WroteKnown
<1>5. Grows
  BY <1>2 DEF Grows, rows
<1>6. SessionsKnown' /\ work' = [v \in Workers |-> work'[v]]
  BY <1>2, <1>3, <1>4, <1>5, SessionStays DEF Inv
<1>7. StoredKnown'
  BY <1>2, <1>5, StoredStays DEF Inv, rows
<1> QED
  BY <1>2, <1>6, <1>7 DEF Inv, Tables, OneConfig, rows, memory

(* Reading and caching the cohorts leaves what the session wrote alone.    *)
LEMMA CohortsKeep ==
  ASSUME Inv, NEW w \in Workers, ReadCohorts(w) \/ CacheCohorts(w)
  PROVE  Inv'
<1> DEFINE s == work[w]
<1>1. Fields(s) /\ WroteKnown(lists, s)
  BY DEF Inv, SessionsKnown, ReadCohorts, CacheCohorts
<1>2. PICK refresh, read : work' = [work EXCEPT ![w].refresh = refresh, ![w].read = read]
  BY DEF ReadCohorts, CacheCohorts
<1> DEFINE a == [s EXCEPT !.refresh = refresh]
           t == [a EXCEPT !.read = read]
<1>3. work' = [work EXCEPT ![w] = t]
  BY <1>2 DEF Inv, Tables
<1>4. Fields(t) /\ t.list = s.list /\ t.wrote = s.wrote
  <2> HIDE DEF s
  <2>1. Fields(a) /\ a.list = s.list /\ a.wrote = s.wrote
    BY <1>1 DEF Fields
  <2> HIDE DEF a
  <2>2. Fields(t) /\ t.list = a.list /\ t.wrote = a.wrote
    BY <2>1 DEF Fields
  <2> QED
    BY <2>1, <2>2
<1>5. WroteKnown(lists, t)
  BY <1>1, <1>4 DEF WroteKnown
<1>6. Grows /\ UNCHANGED <<lists, stored, engine, tuning>>
  BY DEF ReadCohorts, CacheCohorts, Grows, rows, memory
<1> HIDE DEF t
<1>7. SessionsKnown' /\ work' = [v \in Workers |-> work'[v]]
  BY <1>3, <1>4, <1>5, <1>6, SessionStays DEF Inv
<1>8. StoredKnown'
  BY <1>6, StoredStays DEF Inv
<1> QED
  BY <1>6, <1>7, <1>8 DEF Inv, Tables, OneConfig

(* What a session wrote becomes what is stored, and the list it added is   *)
(* there by then.                                                          *)
LEMMA CommitKeeps ==
  ASSUME Inv, NEW w \in Workers, Commit(w)
  PROVE  Inv'
<1> DEFINE s == work[w]
<1>1. WroteKnown(lists, s)
  BY DEF Inv, SessionsKnown, Commit
<1>2. lists' = [l \in Lists |-> IF l = s.list THEN "active" ELSE lists[l]]
  BY DEF Commit
<1>3. Grows
  BY <1>2 DEF Grows
<1>4. stored' = Written(s)
  BY DEF Commit
<1>5. StoredKnown'
  <2> SUFFICES ASSUME NEW i \in Identities, NEW l \in stored'[i].lists
               PROVE  l \in Lists /\ lists'[l] # "absent"
    BY DEF StoredKnown, Known
  <2>1. CASE i \in DOMAIN s.wrote /\ stored'[i] = s.wrote[i]
    <3>1. l \in Lists /\ (lists[l] # "absent" \/ l = s.list)
      BY <1>1, <2>1 DEF WroteKnown
    <3> QED
      BY <1>2, <3>1
  <2>2. CASE stored'[i] = stored[i]
    BY <1>3, <2>2 DEF Inv, StoredKnown, Known, Grows
  <2> QED
    BY <1>4, <2>1, <2>2 DEF Written
<1>6. SessionsKnown' /\ work' = [v \in Workers |-> work'[v]]
  <2>1. \E t \in {Idle, Maintaining} : work' = [work EXCEPT ![w] = t]
    BY DEF Commit
  <2> QED
    BY <1>3, <2>1, SessionStays DEF Inv
<1>7. UNCHANGED <<engine, tuning>>
  BY DEF Commit, memory
<1> QED
  BY <1>2, <1>4, <1>5, <1>6, <1>7 DEF Inv, Tables, OneConfig, Written

(* A step that begins or ends sessions and leaves the lists and scores.    *)
LEMMA EndKeeps ==
  ASSUME Inv, Grows, lists' = [l \in Lists |-> lists'[l]], UNCHANGED <<stored, engine, tuning>>,
         NEW w \in Workers, NEW s, work' = [work EXCEPT ![w] = s],
         s \in {Idle, Maintaining} \/ (Fields(s) /\ WroteKnown(lists, s))
  PROVE  Inv'
<1>1. SessionsKnown' /\ work' = [v \in Workers |-> work'[v]]
  BY SessionStays DEF Inv
<1>2. StoredKnown'
  BY StoredStays DEF Inv
<1> QED
  BY <1>1, <1>2 DEF Inv, Tables, OneConfig

LEMMA SessionStepKeeps ==
  ASSUME Inv, NEW w \in Workers, SessionStep(w) \/ Deadlock(w)
  PROVE  Inv'
<1>1. CASE Fail(w) \/ Deadlock(w)
  <2>1. work' = [work EXCEPT ![w] = Idle] /\ UNCHANGED <<lists, stored, engine, tuning>>
    BY <1>1 DEF Fail, Deadlock, rows, memory
  <2> QED
    BY <2>1, EndKeeps DEF Inv, Tables, Grows
<1> QED
  BY <1>1, ScoreKeeps, CohortsKeep, CommitKeeps DEF SessionStep

LEMMA SchedulerKeeps ==
  ASSUME Inv, NEW p \in Processes, BeginPass(p) \/ Maintain(p)
  PROVE  Inv'
<1>1. CASE BeginPass(p)
  <2>1. /\ work' = [work EXCEPT ![p] = Session(p, "pass", active, "wanted", NoList)]
        /\ UNCHANGED <<lists, stored, engine, tuning>>
    BY <1>1 DEF BeginPass, rows, memory
  <2> QED
    BY <2>1, NewSession, EndKeeps DEF Inv, Tables, Grows, Workers
<1>2. CASE Maintain(p)
  <2>1. /\ work' = [work EXCEPT ![p] = Idle]
        /\ UNCHANGED <<stored, engine, tuning>>
    BY <1>2 DEF Maintain, memory
  <2>2. lists' = [l \in Lists |-> IF lists[l] = "overdue" THEN "retired" ELSE lists[l]]
    BY <1>2 DEF Maintain
  <2> QED
    BY <2>1, <2>2, EndKeeps DEF Inv, Grows, Workers
<1> QED
  BY <1>1, <1>2

(* The tables and sessions stay, and with them what they count.            *)
LEMMA TablesStay ==
  ASSUME Inv, Grows, lists' = [l \in Lists |-> lists'[l]],
         UNCHANGED <<stored, work, engine, tuning>>
  PROVE  Inv'
<1>1. SessionsKnown'
  BY DEF Inv, SessionsKnown, Scoring, WroteKnown, Fields, Grows
<1>2. StoredKnown'
  BY StoredStays DEF Inv
<1> QED
  BY <1>1, <1>2 DEF Inv, Tables, OneConfig

(* One process takes an ordered tuning, with both of its configs at once.  *)
LEMMA ApplyKeeps ==
  ASSUME Tables, OneConfig, NEW p \in Processes, NEW t, Ordered(t), Apply(p, t)
  PROVE  /\ OneConfig'
         /\ tuning' = [q \in Processes |-> tuning'[q]]
         /\ engine' = [q \in Processes |-> engine'[q]]
<1>1. tuning' = [q \in Processes |-> IF q = p THEN t ELSE tuning[q]]
  BY DEF Apply, Tables
<1>2. engine' = [q \in Processes |-> IF q = p THEN t ELSE engine[q]]
  BY DEF Apply, Tables
<1>3. ASSUME NEW q \in Processes PROVE Ordered(engine'[q]) /\ engine'[q] = tuning'[q]
  BY <1>1, <1>2, <1>3 DEF OneConfig
<1>4. OneConfig'
  BY <1>3 DEF OneConfig, Ordered
<1> QED
  BY <1>1, <1>2, <1>4

(* A partial update is accepted by what it makes of the tuning of the      *)
(* process that serves it.                                                 *)
LEMMA TuneKeeps ==
  ASSUME Inv, NEW p \in Processes, NEW change, NEW recompute \in BOOLEAN,
         Tune(p, change, recompute)
  PROVE  Inv'
<1>1. UNCHANGED <<lists, stored>> /\ Grows
  BY DEF Tune, rows, Grows
<1>2. /\ OneConfig'
      /\ tuning' = [q \in Processes |-> tuning'[q]]
      /\ engine' = [q \in Processes |-> engine'[q]]
  <2>1. Ordered(change @@ tuning[p]) /\ Apply(p, change @@ tuning[p])
    BY DEF Tune, Accepts
  <2> QED
    BY <2>1, ApplyKeeps DEF Inv
<1>3. SessionsKnown' /\ work' = [w \in Workers |-> work'[w]]
  <2>1. CASE recompute
    <3>1. work' = [work EXCEPT !["request"] = Session(p, "tune", active, "wanted", NoList)]
      BY <2>1 DEF Tune
    <3> QED
      BY <1>1, <3>1, NewSession, SessionStays DEF Inv, Workers
  <2>2. CASE ~recompute
    <3>1. UNCHANGED work
      BY <2>2 DEF Tune
    <3> QED
      BY <1>1, <3>1 DEF Inv, Tables, SessionsKnown, Scoring, WroteKnown, Fields
  <2> QED
    BY <2>1, <2>2
<1>4. StoredKnown'
  BY <1>1, StoredStays DEF Inv
<1> QED
  BY <1>1, <1>2, <1>3, <1>4 DEF Inv, Tables

LEMMA RequestKeeps ==
  ASSUME Inv, Request
  PROVE  Inv'
<1>1. ASSUME NEW kind, NEW todo, NEW list, Begin(kind, todo, list), UNCHANGED memory
      PROVE  Inv'
  <2>1. PICK p, refresh : work' = [work EXCEPT !["request"] = Session(p, kind, todo, refresh, list)]
    BY <1>1 DEF Begin
  <2>2. UNCHANGED <<lists, stored, engine, tuning>>
    BY <1>1 DEF Begin, rows, memory
  <2> QED
    BY <2>1, <2>2, NewSession, EndKeeps DEF Inv, Tables, Grows, Workers
<1>2. ASSUME NEW l \in Lists, CreateList(l) PROVE Inv'
  BY <1>1, <1>2 DEF CreateList
<1>3. ASSUME NEW i \in Identities, Rescore(i) PROVE Inv'
  BY <1>1, <1>3 DEF Rescore
<1>4. ASSUME NEW i \in Identities, SetActive(i) \/ SetMark(i) PROVE Inv'
  BY <1>4, TablesStay DEF SetActive, SetMark, memory, Inv, Tables, Grows
<1>5. CASE ChangeRule
  BY <1>5, TablesStay DEF ChangeRule, memory, Inv, Tables, Grows
<1> QED
  BY <1>2, <1>3, <1>4, <1>5, TuneKeeps DEF Request

(* The sessions of the process end, the others stay.                       *)
LEMMA RestartKeeps ==
  ASSUME Inv, NEW p \in Processes, Restart(p)
  PROVE  Inv'
<1>1. /\ work' = [w \in Workers |-> IF Serves(p, w) THEN Idle ELSE work[w]]
      /\ UNCHANGED <<lists, stored>> /\ Apply(p, DefaultTuning)
  BY DEF Restart, rows
<1>2. SessionsKnown'
  <2> SUFFICES ASSUME NEW w \in Workers, work'[w] \notin {Idle, Maintaining}
               PROVE  Fields(work'[w]) /\ WroteKnown(lists', work'[w])
    BY DEF SessionsKnown, Scoring, Fields, WroteKnown
  <2>1. work'[w] = work[w]
    BY <1>1
  <2> QED
    BY <1>1, <2>1 DEF Inv, SessionsKnown, Scoring
<1>3. /\ OneConfig'
      /\ tuning' = [q \in Processes |-> tuning'[q]]
      /\ engine' = [q \in Processes |-> engine'[q]]
  BY <1>1, ApplyKeeps, EstateAssumption DEF Inv, EstateAssumption
<1> QED
  BY <1>1, <1>2, <1>3 DEF Inv, Tables, StoredKnown, Known

LEMMA StepKeeps ==
  ASSUME Inv, [Next]_vars
  PROVE  Inv'
<1>1. ASSUME NEW l \in Lists, Expire(l) PROVE Inv'
  <2>1. /\ lists' = [lists EXCEPT ![l] = "overdue"]
        /\ UNCHANGED <<stored, work, engine, tuning>>
    BY <1>1 DEF Expire, memory
  <2> QED
    BY <2>1, TablesStay DEF Inv, Tables, Grows
<1>2. CASE UNCHANGED vars
  BY <1>2, TablesStay DEF vars, rows, memory, Inv, Tables, Grows
<1> QED
  BY <1>1, <1>2, SchedulerKeeps, RequestKeeps, RestartKeeps, SessionStepKeeps DEF Next

LEMMA InitInv == Init => Inv
<1> SUFFICES ASSUME Init PROVE Inv
  OBVIOUS
<1>1. OneConfig
  BY EstateAssumption DEF Init, OneConfig, EstateAssumption
<1>2. SessionsKnown
  BY DEF Init, SessionsKnown, Scoring
<1>3. StoredKnown
  <2> SUFFICES ASSUME NEW i \in Identities, NEW l \in stored[i].lists PROVE Known(l)
    BY DEF StoredKnown
  <2>1. l \in FirstLists
    BY DEF Init
  <2> QED
    BY <2>1, EstateAssumption DEF Init, EstateAssumption, Known
<1> QED
  BY <1>1, <1>2, <1>3 DEF Init, Inv, Tables
-----------------------------------------------------------------------------
(* Nothing is left half done, for any processes, lists, members and        *)
(* updates: the engine and the service of a process always have one and    *)
(* the same ordered config, and a score that is stored counts no list that *)
(* a rollback has taken back (analytics.py:161-174 and 230).               *)
THEOREM NothingLeftHalfDone == Spec => []NothingHalfDone
<1>1. Inv => NothingHalfDone
  BY DEF Inv, OneConfig, StoredKnown, Known, NothingHalfDone
<1>2. Spec => []Inv
  BY InitInv, StepKeeps, PTL DEF Spec
<1> QED
  BY <1>1, <1>2, PTL
=============================================================================
