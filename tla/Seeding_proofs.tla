--------------------------- MODULE Seeding_proofs ----------------------------
(***************************************************************************)
(* That the estate is one and whole, for any number of worker processes,   *)
(* requests in progress, estates and cases.                                *)
(***************************************************************************)
EXTENDS Seeding, FiniteSetTheorems, TLAPS

LoneEstate(E) == E = {} \/ \E e : E = {e}

Tables ==
  /\ db = [operators |-> db.operators, identities |-> db.identities,
           approvals |-> db.approvals, events |-> db.events, cases |-> db.cases]
  /\ db.operators \in BOOLEAN
  /\ \A c \in db.cases : c = Case(c.ref, c.of, c.era)

Whole ==
  /\ LoneEstate(db.identities)
  /\ db.operators <=> db.identities # {}
  /\ db.approvals = db.identities /\ db.events = db.identities
  /\ \A c \in db.cases : c.of \in db.identities \cup {None}

(* What a session knows of the estate and is still so when it commits: one *)
(* that seeds no estate has seen one, and one that resets deletes what     *)
(* belongs to every identity it deletes.                                   *)
Knows(t, s) ==
  /\ s.op = "seed" =>
       LoneEstate(s.estate) /\ (s.estate = {} => t.identities # {})
  /\ s.op = "case" => s.case = Case(s.case.ref, s.case.of, s.case.era)
  /\ s.op \in {"clearing", "cleared"} => t.operators
  /\ s.op = "cleared" =>
       s.identities \subseteq s.approvals /\ s.identities \subseteq s.events

Everyone == Workers \cup Requests

Sessions ==
  /\ session = [s \in Everyone |-> session[s]]
  /\ \A s \in Everyone : session[s] # None => Knows(db, session[s])

Inv == Tables /\ Whole /\ Sessions

(* An estate once there is replaced and never only deleted.                *)
Grows ==
  /\ db.identities # {} => db'.identities # {}
  /\ db.operators => db'.operators
-----------------------------------------------------------------------------
(* One session becomes another or ends, while the others go on.            *)
LEMMA SessionsGoOn ==
  ASSUME Sessions, Grows, session' = [s \in Everyone |-> session'[s]],
         \A s \in Everyone :
           session'[s] = session[s] \/ session'[s] = None \/ Knows(db', session'[s])
  PROVE  Sessions'
<1>1. ASSUME NEW s \in Everyone, session'[s] # None
      PROVE  Knows(db', session'[s])
  <2>1. CASE session'[s] = session[s]
    BY <1>1, <2>1 DEF Sessions, Knows, Grows
  <2> QED
    BY <1>1, <2>1
<1> QED
  BY <1>1 DEF Sessions, Knows, Case, Everyone

LEMMA OneGoesOn ==
  ASSUME Sessions, Grows, NEW r \in Everyone, NEW t,
         session' = [session EXCEPT ![r] = t], t = None \/ Knows(db', t)
  PROVE  Sessions'
<1>1. session' = [s \in Everyone |-> IF s = r THEN t ELSE session[s]]
  BY DEF Sessions
<1>2. \A s \in Everyone :
        session'[s] = session[s] \/ session'[s] = None \/ Knows(db', session'[s])
  BY <1>1
<1> QED
  BY <1>1, <1>2, SessionsGoOn

LEMMA SameDatabase ==
  ASSUME Inv, UNCHANGED db, Sessions' PROVE Inv'
BY DEF Inv, Tables, Whole, LoneEstate, Case

(* The new database, its columns given one by one.                         *)
LEMMA NewDatabase ==
  ASSUME NEW operators \in BOOLEAN, NEW identities, NEW approvals, NEW events, NEW cases,
         db' = [operators |-> operators, identities |-> identities,
                approvals |-> approvals, events |-> events, cases |-> cases],
         \A c \in cases : c = Case(c.ref, c.of, c.era),
         LoneEstate(identities), operators <=> identities # {},
         approvals = identities, events = identities,
         \A c \in cases : c.of \in identities \cup {None}
  PROVE  Tables' /\ Whole'
<1>1. /\ db'.operators = operators /\ db'.identities = identities
      /\ db'.approvals = approvals /\ db'.events = events /\ db'.cases = cases
  OBVIOUS
<1>2. Tables'
  BY <1>1 DEF Tables, Case
<1>3. Whole'
  BY <1>1 DEF Whole, LoneEstate
<1> QED
  BY <1>2, <1>3
-----------------------------------------------------------------------------
LEMMA BootKeeps ==
  ASSUME Inv, NEW w \in Workers, Boot(w)
  PROVE  Inv'
<1> DEFINE new == IF db.identities = {} THEN {Fresh} ELSE {}
           t == [op |-> "seed", operators |-> Missing, estate |-> new, names |-> new, by |-> w]
<1>1. session' = [session EXCEPT ![w] = t] /\ UNCHANGED db
  BY DEF Boot
<1>2. Knows(db', t)
  BY <1>1 DEF Knows, LoneEstate
<1> HIDE DEF t
<1>3. Sessions'
  BY <1>1, <1>2, OneGoesOn DEF Inv, Grows, Everyone
<1> QED
  BY <1>1, <1>3, SameDatabase

(* The username keeps out a second estate, whenever it was begun.          *)
LEMMA SeededKeeps ==
  ASSUME Inv, NEW w \in Workers, Seeded(w)
  PROVE  Inv'
<1> DEFINE s == session[w]
           new == s.estate
<1>1. s # None /\ s.op = "seed" /\ Knows(db, s) /\ ~Clashes(s)
  BY DEF Seeded, Runs, Inv, Sessions, Everyone
<1>2. LoneEstate(db.identities \cup new) /\ db.identities \cup new # {}
  BY <1>1 DEF Knows, Clashes, LoneEstate, Inv, Whole
<1>3. db' = [operators |-> TRUE, identities |-> db.identities \cup new,
             approvals |-> db.approvals \cup new, events |-> db.events \cup new,
             cases |-> db.cases]
  BY DEF Seeded, Inv, Tables
<1>4. Tables' /\ Whole'
  <2>1. \A c \in db.cases : c = Case(c.ref, c.of, c.era) /\ c.of \in (db.identities \cup new) \cup {None}
    BY DEF Inv, Tables, Whole
  <2>2. /\ db.approvals \cup new = db.identities \cup new
        /\ db.events \cup new = db.identities \cup new
    BY DEF Inv, Whole
  <2> HIDE DEF new
  <2> QED
    BY <1>2, <1>3, <2>1, <2>2, NewDatabase
<1>5. Sessions'
  <2>1. Grows /\ session' = [session EXCEPT ![w] = None]
    BY <1>2, <1>3 DEF Grows, Seeded, End
  <2> QED
    BY <2>1, OneGoesOn DEF Inv, Everyone
<1> QED
  BY <1>4, <1>5 DEF Inv

LEMMA StopKeeps ==
  ASSUME Inv, Stop \/ \E w \in Workers : Die(w)
  PROVE  Inv'
<1>1. UNCHANGED db /\ Grows
  BY DEF Stop, Die, Grows
<1>2. /\ session' = [s \in Everyone |-> session'[s]]
      /\ \A s \in Everyone : session'[s] = session[s] \/ session'[s] = None
  BY DEF Stop, Die, Inv, Sessions
<1> QED
  BY <1>1, <1>2, SessionsGoOn, SameDatabase DEF Inv
-----------------------------------------------------------------------------
(* A session that begins knows what it has just read.                      *)
LEMMA BeginKeeps ==
  ASSUME Inv, NEW r \in Requests, NEW t, Begin(r, t), Knows(db, t)
  PROVE  Inv'
<1>1. session' = [session EXCEPT ![r] = t] /\ UNCHANGED db
  BY DEF Begin
<1>2. Sessions'
  BY <1>1, OneGoesOn DEF Inv, Grows, Everyone
<1> QED
  BY <1>1, <1>2, SameDatabase

LEMMA BatchKeeps ==
  ASSUME Inv, NEW r \in Requests, BeginBatch(r) \/ Batch(r)
  PROVE  Inv'
<1>1. CASE BeginBatch(r)
  <2>1. PICK w \in Workers, e \in db.identities :
          Begin(r, [op |-> "batch", of |-> e, names |-> {e}, by |-> w])
    BY <1>1 DEF BeginBatch
  <2>2. Knows(db, [op |-> "batch", of |-> e, names |-> {e}, by |-> w])
    BY DEF Knows
  <2> QED
    BY <2>1, <2>2, BeginKeeps
<1>2. CASE Batch(r)
  <2>1. db' = [db EXCEPT !.events = @ \cup {session[r].of}] /\ session[r].of \in db.identities
    BY <1>2 DEF Batch, Found
  <2>2. db' = db
    BY <2>1 DEF Inv, Tables, Whole
  <2>3. session' = [session EXCEPT ![r] = None]
    BY <1>2 DEF Batch, End
  <2>4. Sessions'
    BY <2>2, <2>3, OneGoesOn DEF Inv, Grows, Everyone
  <2> QED
    BY <2>2, <2>4, SameDatabase
<1> QED
  BY <1>1, <1>2

LEMMA CaseKeeps ==
  ASSUME Inv, NEW r \in Requests, BeginCase(r) \/ OpenCase(r)
  PROVE  Inv'
<1>1. CASE BeginCase(r)
  <2> DEFINE t(w, of, era) == [op |-> "case", names |-> {of, era} \ {None}, by |-> w,
                               case |-> Case(Cardinality(db.cases) + 1, of, era)]
  <2>1. PICK w \in Workers, of \in db.identities \cup {None}, era \in db.identities :
          Begin(r, t(w, of, era))
    BY <1>1 DEF BeginCase
  <2>2. Knows(db, t(w, of, era))
    BY DEF Knows, Case
  <2> HIDE DEF t
  <2> QED
    BY <2>1, <2>2, BeginKeeps
<1>2. CASE OpenCase(r)
  <2> DEFINE c == session[r].case
  <2>1. /\ c = Case(c.ref, c.of, c.era) /\ c.of \in db.identities \cup {None}
        /\ db' = [db EXCEPT !.cases = @ \cup {c}]
    BY <1>2 DEF OpenCase, Runs, Inv, Sessions, Knows, Everyone
  <2>2. db' = [operators |-> db.operators, identities |-> db.identities,
               approvals |-> db.approvals, events |-> db.events, cases |-> db.cases \cup {c}]
    BY <2>1 DEF Inv, Tables
  <2>3. Tables' /\ Whole'
    <3>1. \A d \in db.cases \cup {c} :
            d = Case(d.ref, d.of, d.era) /\ d.of \in db.identities \cup {None}
      BY <2>1 DEF Inv, Tables, Whole
    <3> HIDE DEF c
    <3> QED
      BY <2>2, <3>1, NewDatabase DEF Inv, Tables, Whole
  <2>4. session' = [session EXCEPT ![r] = None] /\ Grows
    BY <1>2, <2>2 DEF OpenCase, End, Grows
  <2> QED
    BY <2>3, <2>4, OneGoesOn DEF Inv, Everyone
<1> QED
  BY <1>1, <1>2

LEMMA ClearKeeps ==
  ASSUME Inv, NEW r \in Requests, Clear(r) \/ ClearIdentities(r)
  PROVE  Inv'
<1>1. CASE Clear(r)
  <2> DEFINE t(w) == [op |-> "clearing", events |-> db.events, approvals |-> db.approvals,
                      cases |-> db.cases, names |-> {}, by |-> w]
  <2>1. PICK w \in Workers : Begin(r, t(w))
    BY <1>1 DEF Clear
  <2>2. Knows(db, t(w))
    BY <1>1 DEF Knows, Clear
  <2> HIDE DEF t
  <2> QED
    BY <2>1, <2>2, BeginKeeps
<1>2. CASE ClearIdentities(r)
  <2> DEFINE s == session[r]
             t == [op |-> "cleared", by |-> s.by, events |-> s.events \cup db.identities,
                   approvals |-> s.approvals \cup db.identities, cases |-> s.cases,
                   identities |-> db.identities, estate |-> Fresh, names |-> {Fresh}]
  <2>1. session' = [session EXCEPT ![r] = t] /\ UNCHANGED db
    BY <1>2 DEF ClearIdentities
  <2>2. db.operators
    BY <1>2 DEF ClearIdentities, Runs, Inv, Sessions, Knows, Everyone
  <2>3. Knows(db', t)
    BY <2>1, <2>2 DEF Knows
  <2> HIDE DEF t
  <2>4. Sessions'
    BY <2>1, <2>3, OneGoesOn DEF Inv, Grows, Everyone
  <2> QED
    BY <2>1, <2>4, SameDatabase
<1> QED
  BY <1>1, <1>2

(* Whatever committed while the tables were cleared, the identities that   *)
(* are there are all deleted, and what is theirs goes with them.           *)
LEMMA ResetKeeps ==
  ASSUME Inv, NEW r \in Requests, Reset(r)
  PROVE  Inv'
<1> DEFINE s == session[r]
           Kept(c) == IF c.of \in s.identities THEN [c EXCEPT !.of = None] ELSE c
           cases == {Kept(c) : c \in db.cases \ s.cases}
<1>1. /\ Knows(db, s) /\ s.op = "cleared" /\ db.identities \subseteq s.identities
  BY DEF Reset, Runs, Inv, Sessions, Everyone
<1>2. db.approvals \ s.approvals = {} /\ db.events \ s.events = {}
  BY <1>1 DEF Knows, Inv, Whole
<1>3. db' = [operators |-> db.operators, identities |-> {s.estate},
             approvals |-> (db.approvals \ s.approvals) \cup {s.estate},
             events |-> (db.events \ s.events) \cup {s.estate}, cases |-> cases]
  BY DEF Reset, Inv, Tables
<1>4. db' = [operators |-> db.operators, identities |-> {s.estate},
             approvals |-> {s.estate}, events |-> {s.estate}, cases |-> cases]
  BY <1>2, <1>3
<1>5. \A c \in cases : c = Case(c.ref, c.of, c.era) /\ c.of \in {s.estate} \cup {None}
  <2> SUFFICES ASSUME NEW c \in db.cases
               PROVE  Kept(c) = Case(Kept(c).ref, Kept(c).of, Kept(c).era) /\ Kept(c).of = None
    OBVIOUS
  <2>1. c = Case(c.ref, c.of, c.era) /\ c.of \in db.identities \cup {None}
    BY DEF Inv, Tables, Whole
  <2>2. CASE c.of \in s.identities
    <3>1. Kept(c) = Case(c.ref, None, c.era)
      BY <2>1, <2>2 DEF Case
    <3> QED
      BY <3>1 DEF Case
  <2>3. CASE c.of \notin s.identities
    BY <1>1, <2>1, <2>3
  <2> QED
    BY <2>2, <2>3
<1>6. db.operators
  BY <1>1 DEF Knows
<1>7. Tables' /\ Whole'
  <2> HIDE DEF cases
  <2>1. LoneEstate({s.estate}) /\ {s.estate} # {}
    BY DEF LoneEstate
  <2> QED
    BY <1>4, <1>5, <1>6, <2>1, NewDatabase
<1>8. session' = [session EXCEPT ![r] = None] /\ Grows
  BY <1>4, <1>6 DEF Reset, End, Grows
<1> QED
  BY <1>7, <1>8, OneGoesOn DEF Inv, Everyone

LEMMA RollbackKeeps ==
  ASSUME Inv, NEW r \in Requests, Rollback(r)
  PROVE  Inv'
<1>1. session' = [session EXCEPT ![r] = None] /\ UNCHANGED db
  BY DEF Rollback, End
<1>2. Sessions'
  BY <1>1, OneGoesOn DEF Inv, Grows, Everyone
<1> QED
  BY <1>1, <1>2, SameDatabase
-----------------------------------------------------------------------------
LEMMA StepKeeps ==
  ASSUME Inv, [Next]_vars
  PROVE  Inv'
<1>1. ASSUME NEW w \in Workers, Boot(w) \/ Seeded(w) \/ SeedingFails(w) \/ Die(w)
      PROVE  Inv'
  BY <1>1, BootKeeps, SeededKeeps, StopKeeps DEF SeedingFails
<1>2. CASE Crash
  BY <1>2, StopKeeps DEF Crash
<1>3. ASSUME NEW r \in Requests, Request(r) PROVE Inv'
  BY <1>3, BatchKeeps, CaseKeeps, ClearKeeps, ResetKeeps, RollbackKeeps DEF Request
<1>4. CASE UNCHANGED vars
  <2>1. Sessions'
    BY <1>4 DEF vars, Inv, Sessions, Knows, LoneEstate, Case
  <2> QED
    BY <1>4, <2>1, SameDatabase DEF vars
<1> QED
  BY <1>1, <1>2, <1>3, <1>4 DEF Next

LEMMA InitInv == Init => Inv
<1> SUFFICES ASSUME Init PROVE Inv
  OBVIOUS
<1>1. db = [operators |-> FALSE, identities |-> {}, approvals |-> {}, events |-> {}, cases |-> {}]
  BY DEF Init, Empty
<1>2. Tables /\ Whole
  BY <1>1 DEF Tables, Whole, LoneEstate
<1>3. Sessions
  BY DEF Init, Sessions, Everyone
<1> QED
  BY <1>2, <1>3 DEF Inv

(* There is one estate, whole, for any number of workers that seed at the  *)
(* same time, and of batches, cases and resets that overlap them.          *)
THEOREM EstateIsOne == Spec => []OneEstate
<1>1. Inv => OneEstate
  <2> SUFFICES ASSUME Inv PROVE Cardinality(db.identities) <= 1
    BY DEF Inv, Whole, OneEstate
  <2>1. CASE db.identities = {}
    BY <2>1, FS_EmptySet
  <2>2. ASSUME NEW e, db.identities = {e} PROVE Cardinality(db.identities) <= 1
    <3>1. Cardinality({e}) = 1
      BY FS_Singleton, Zenon
    <3>2. Cardinality(db.identities) = 1
      BY <2>2, <3>1
    <3> QED
      BY <3>2
  <2>3. db.identities = {} \/ \E e : db.identities = {e}
    BY DEF Inv, Whole, LoneEstate
  <2> QED
    BY <2>1, <2>2, <2>3
<1>2. Spec => []Inv
  BY InitInv, StepKeeps, PTL DEF Spec
<1> QED
  BY <1>1, <1>2, PTL
-----------------------------------------------------------------------------
(* Numbering: what holds besides of the names that transactions have.      *)

Making(s) == session[s] # None /\ session[s].op \in {"seed", "cleared"}

(* The name of an estate that is not committed yet is nobody else's.       *)
Apart ==
  \A s \in Everyone : Making(s) =>
    /\ session[s].names \subseteq Estates
    /\ session[s].op = "seed" => session[s].estate = session[s].names
    /\ session[s].op = "cleared" => {session[s].estate} = session[s].names
    /\ session[s].names \cap db.identities = {}
    /\ \A c \in db.cases : c.era \notin session[s].names
    /\ \A q \in Everyone \ {s} :
         session[q] # None => session[s].names \cap session[q].names = {}

(* A case that is being opened was numbered after a count that has not     *)
(* fallen since, unless another estate is stored by now.                   *)
Counting(s) ==
  /\ s.case.era \in s.names
  /\ s.case.ref \in Nat \ {0}
  /\ s.case.era \in db.identities => s.case.ref <= Cardinality(db.cases) + 1

Counted ==
  \A s \in Everyone : session[s] # None /\ session[s].op = "case" => Counting(session[s])

Order ==
  /\ IsFiniteSet(db.cases)
  /\ db.identities \subseteq Estates
  /\ Apart /\ Counted
  /\ NumberedInOrder

(* Transactions that end, or go on, disturb nothing.                       *)
LEMMA EndsInOrder ==
  ASSUME Order, UNCHANGED db,
         \A s \in Everyone : session'[s] = session[s] \/ session'[s] = None
  PROVE  Order'
<1>1. Apart'
  BY DEF Order, Apart, Making
<1>2. Counted'
  BY DEF Order, Counted, Counting
<1> QED
  BY <1>1, <1>2 DEF Order, NumberedInOrder

(* One transaction becomes another, under names that no other is making.   *)
LEMMA GoesOnInOrder ==
  ASSUME Order, Sessions, UNCHANGED db, NEW r \in Everyone, NEW t,
         session' = [session EXCEPT ![r] = t],
         \A s \in Everyone \ {r} : Making(s) => session[s].names \cap t.names = {},
         t.op = "case" => Counting(t),
         t.op \in {"seed", "cleared"} =>
           /\ t.names \subseteq Estates
           /\ t.op = "seed" => t.estate = t.names
           /\ t.op = "cleared" => {t.estate} = t.names
           /\ t.names \cap db.identities = {}
           /\ \A c \in db.cases : c.era \notin t.names
           /\ \A q \in Everyone \ {r} : session[q] # None => t.names \cap session[q].names = {}
  PROVE  Order'
<1>1. session'[r] = t /\ \A s \in Everyone \ {r} : session'[s] = session[s]
  BY DEF Sessions
<1>2. Apart'
  <2> SUFFICES ASSUME NEW s \in Everyone, Making(s)'
               PROVE  (/\ session[s].names \subseteq Estates
                       /\ session[s].op = "seed" => session[s].estate = session[s].names
                       /\ session[s].op = "cleared" => {session[s].estate} = session[s].names
                       /\ session[s].names \cap db.identities = {}
                       /\ \A c \in db.cases : c.era \notin session[s].names
                       /\ \A q \in Everyone \ {s} :
                            session[q] # None => session[s].names \cap session[q].names = {})'
    BY DEF Apart
  <2>1. CASE s = r
    BY <1>1, <2>1 DEF Making
  <2>2. CASE s # r
    <3>1. Making(s) /\ session'[s] = session[s]
      BY <1>1, <2>2 DEF Making
    <3>2. ASSUME NEW q \in Everyone \ {s}, session'[q] # None
          PROVE  session[s].names \cap session'[q].names = {}
      BY <1>1, <2>2, <3>1, <3>2 DEF Order, Apart
    <3> QED
      BY <3>1, <3>2 DEF Order, Apart
  <2> QED
    BY <2>1, <2>2
<1>3. Counted'
  BY <1>1 DEF Order, Counted, Counting
<1> QED
  BY <1>2, <1>3 DEF Order, NumberedInOrder

(* A name that is unused neither a row nor a transaction has.              *)
LEMMA FreshIsUnused ==
  ASSUME Sessions, Unused # {}
  PROVE  /\ Fresh \in Estates /\ Fresh \notin db.identities
         /\ \A c \in db.cases : c.era # Fresh
         /\ \A s \in Everyone : session[s] # None => Fresh \notin session[s].names
<1>1. Fresh \in Unused
  BY DEF Fresh
<1>2. DOMAIN session = Everyone
  BY DEF Sessions
<1> QED
  BY <1>1, <1>2 DEF Unused
-----------------------------------------------------------------------------
LEMMA BootInOrder ==
  ASSUME Inv, Order, NEW w \in Workers, Boot(w)
  PROVE  Order'
<1> DEFINE new == IF db.identities = {} THEN {Fresh} ELSE {}
           t == [op |-> "seed", operators |-> Missing, estate |-> new, names |-> new, by |-> w]
<1>1. session' = [session EXCEPT ![w] = t] /\ UNCHANGED db
  BY DEF Boot
<1>2. /\ new \subseteq Estates /\ new \cap db.identities = {}
      /\ \A c \in db.cases : c.era \notin new
      /\ \A q \in Everyone : session[q] # None => new \cap session[q].names = {}
  BY FreshIsUnused DEF Boot, Inv
<1>3. w \in Everyone
  BY DEF Everyone
<1>4. t.op = "seed" /\ t.names = new /\ t.estate = new
  OBVIOUS
<1> HIDE DEF t, new
<1>5. \A s \in Everyone \ {w} : Making(s) => session[s].names \cap t.names = {}
  BY <1>2, <1>4 DEF Making
<1>6. /\ t.names \subseteq Estates /\ t.names \cap db.identities = {}
      /\ \A c \in db.cases : c.era \notin t.names
      /\ \A q \in Everyone \ {w} : session[q] # None => t.names \cap session[q].names = {}
  BY <1>2, <1>4
<1>7. t.estate = t.names /\ t.op # "cleared" /\ t.op # "case"
  BY <1>4
<1> HIDE <1>2, <1>4
<1> QED
  BY <1>1, <1>3, <1>5, <1>6, <1>7, GoesOnInOrder DEF Inv

(* Estates are only added to an empty table, by the one that commits.      *)
LEMMA SeededInOrder ==
  ASSUME Inv, Order, NEW w \in Workers, Seeded(w)
  PROVE  Order'
<1> DEFINE new == session[w].names
<1>1. /\ w \in Everyone /\ Making(w) /\ session[w].estate = new
      /\ new \subseteq Estates /\ \A c \in db.cases : c.era \notin new
      /\ \A q \in Everyone \ {w} : session[q] # None => new \cap session[q].names = {}
  BY DEF Seeded, Runs, Making, Order, Apart, Everyone
<1>2. db'.identities = db.identities \cup new /\ db'.cases = db.cases
  BY <1>1 DEF Seeded, Inv, Tables
<1>3. session'[w] = None /\ \A s \in Everyone \ {w} : session'[s] = session[s]
  BY <1>1 DEF Seeded, End, Inv, Sessions
<1> HIDE DEF new
<1>4. Apart'
  <2> SUFFICES ASSUME NEW s \in Everyone \ {w}, Making(s)
               PROVE  /\ session[s].names \cap db'.identities = {}
                      /\ \A q \in Everyone \ {s} :
                           session'[q] # None => session[s].names \cap session'[q].names = {}
    BY <1>2, <1>3 DEF Apart, Making, Order
  <2>1. session[s].names \cap db.identities = {} /\ session[s].names \cap new = {}
    BY <1>1 DEF Order, Apart, Making
  <2>2. ASSUME NEW q \in Everyone \ {s}, session'[q] # None
        PROVE  session[s].names \cap session'[q].names = {}
    <3>1. q # w /\ session'[q] = session[q]
      BY <1>3, <2>2
    <3> QED
      BY <2>2, <3>1 DEF Order, Apart
  <2> QED
    BY <1>2, <2>1, <2>2
<1>5. Counted'
  <2> SUFFICES ASSUME NEW s \in Everyone \ {w}, session[s] # None, session[s].op = "case"
               PROVE  Counting(session[s])'
    BY <1>3 DEF Counted
  <2>1. Counting(session[s])
    BY DEF Order, Counted
  <2>2. session[s].case.era \notin new
    BY <1>1, <2>1 DEF Counting
  <2>3. session'[s] = session[s]
    BY <1>3
  <2> QED
    BY <1>2, <2>1, <2>2, <2>3 DEF Counting
<1>6. NumberedInOrder'
  BY <1>1, <1>2 DEF Order, NumberedInOrder
<1> QED
  BY <1>1, <1>2, <1>4, <1>5, <1>6 DEF Order

LEMMA BeginInOrder ==
  ASSUME Inv, Order, NEW r \in Requests, NEW t, Begin(r, t),
         t.names \subseteq db.identities \cup {None},
         t.op \notin {"seed", "cleared"}, t.op = "case" => Counting(t)
  PROVE  Order'
<1>1. session' = [session EXCEPT ![r] = t] /\ UNCHANGED db /\ r \in Everyone
  BY DEF Begin, Everyone
<1>2. ASSUME NEW s \in Everyone \ {r}, Making(s)
      PROVE  session[s].names \cap t.names = {}
  BY <1>2, SeedingAssumption DEF Order, Apart
<1> QED
  BY <1>1, <1>2, GoesOnInOrder DEF Inv

LEMMA BatchInOrder ==
  ASSUME Inv, Order, NEW r \in Requests, BeginBatch(r) \/ Batch(r)
  PROVE  Order'
<1>1. CASE BeginBatch(r)
  <2>1. PICK w \in Workers, e \in db.identities :
          Begin(r, [op |-> "batch", of |-> e, names |-> {e}, by |-> w])
    BY <1>1 DEF BeginBatch
  <2> QED
    BY <2>1, BeginInOrder
<1>2. CASE Batch(r)
  <2>1. db' = [db EXCEPT !.events = @ \cup {session[r].of}] /\ session[r].of \in db.identities
    BY <1>2 DEF Batch, Found
  <2>2. db' = db
    BY <2>1 DEF Inv, Tables, Whole
  <2>3. \A s \in Everyone : session'[s] = session[s] \/ session'[s] = None
    BY <1>2 DEF Batch, End, Inv, Sessions, Everyone
  <2> QED
    BY <2>2, <2>3, EndsInOrder
<1> QED
  BY <1>1, <1>2

(* The number after the count is the only one up to there that is free.    *)
LEMMA CaseInOrder ==
  ASSUME Inv, Order, NEW r \in Requests, BeginCase(r) \/ OpenCase(r)
  PROVE  Order'
<1>1. CASE BeginCase(r)
  <2> DEFINE t(w, of, era) == [op |-> "case", names |-> {of, era} \ {None}, by |-> w,
                               case |-> Case(Cardinality(db.cases) + 1, of, era)]
  <2>1. PICK w \in Workers, of \in db.identities \cup {None}, era \in db.identities :
          Begin(r, t(w, of, era))
    BY <1>1 DEF BeginCase
  <2>2. Counting(t(w, of, era))
    <3>1. era # None /\ era \in {of, era} \ {None}
      BY SeedingAssumption DEF Order
    <3>2. /\ t(w, of, era).case.era = era /\ t(w, of, era).names = {of, era} \ {None}
          /\ t(w, of, era).case.ref = Cardinality(db.cases) + 1
      BY DEF Case
    <3>3. Cardinality(db.cases) \in Nat
      BY FS_CardinalityType DEF Order
    <3> HIDE DEF t
    <3> QED
      BY <3>1, <3>2, <3>3 DEF Counting
  <2>3. /\ t(w, of, era).op = "case"
        /\ t(w, of, era).names \subseteq db.identities \cup {None}
    OBVIOUS
  <2> HIDE DEF t
  <2> QED
    BY <2>1, <2>2, <2>3, BeginInOrder
<1>2. CASE OpenCase(r)
  <2> DEFINE c == session[r].case
             n == Cardinality(db.cases)
  <2>1. /\ session[r] # None /\ Counting(session[r]) /\ Free(c.ref) /\ r \in Everyone
        /\ db' = [db EXCEPT !.cases = @ \cup {c}]
        /\ session' = [session EXCEPT ![r] = None]
    BY <1>2 DEF OpenCase, Runs, End, Order, Counted, Everyone
  <2>2. db'.identities = db.identities /\ db'.cases = db.cases \cup {c}
    BY <2>1 DEF Inv, Tables
  <2>3. session'[r] = None /\ \A s \in Everyone \ {r} : session'[s] = session[s]
    BY <2>1 DEF Inv, Sessions
  <2>4. n \in Nat /\ IsFiniteSet(db'.cases) /\ Cardinality(db'.cases) = n + 1
    <3>1. c \notin db.cases
      BY <2>1 DEF Free
    <3> QED
      BY <2>2, <3>1, FS_AddElement, FS_CardinalityType DEF Order
  <2>5. Apart'
    <3> SUFFICES ASSUME NEW s \in Everyone \ {r}, Making(s)
                 PROVE  /\ \A d \in db'.cases : d.era \notin session[s].names
                        /\ \A q \in Everyone \ {s} :
                             session'[q] # None => session[s].names \cap session'[q].names = {}
      BY <2>2, <2>3 DEF Apart, Making, Order
    <3>1. c.era \notin session[s].names
      BY <2>1 DEF Order, Apart, Counting
    <3>2. ASSUME NEW q \in Everyone \ {s}, session'[q] # None
          PROVE  session[s].names \cap session'[q].names = {}
      BY <2>3, <3>2 DEF Order, Apart
    <3> QED
      BY <2>2, <3>1, <3>2 DEF Order, Apart
  <2>6. Counted'
    <3> SUFFICES ASSUME NEW s \in Everyone \ {r}, session[s] # None, session[s].op = "case"
                 PROVE  Counting(session[s])'
      BY <2>3 DEF Counted
    <3>1. Counting(session[s]) /\ session'[s] = session[s]
      BY <2>3 DEF Order, Counted
    <3> HIDE DEF c, n
    <3> QED
      BY <2>2, <2>4, <3>1 DEF Counting, n
  <2>7. NumberedInOrder'
    <3> SUFFICES ASSUME \A d \in db'.cases : d.era \in db'.identities
                 PROVE  {d.ref : d \in db'.cases} = 1 .. (n + 1)
      BY <2>4 DEF NumberedInOrder
    <3>1. {d.ref : d \in db.cases} = 1 .. n /\ c.era \in db.identities
      BY <2>2 DEF Order, NumberedInOrder
    <3>2. c.ref \in Nat \ {0} /\ c.ref <= n + 1
      BY <2>1, <3>1 DEF Counting
    <3>3. c.ref \notin 1 .. n
      <4>1. c.ref \notin {d.ref : d \in db.cases}
        BY <2>1 DEF Free
      <4> QED
        BY <3>1, <4>1
    <3>4. c.ref = n + 1
      BY <2>4, <3>2, <3>3
    <3>5. {d.ref : d \in db'.cases} = {d.ref : d \in db.cases} \cup {c.ref}
      BY <2>2
    <3> HIDE DEF c, n
    <3> QED
      BY <2>4, <3>1, <3>4, <3>5
  <2> QED
    BY <2>2, <2>4, <2>5, <2>6, <2>7 DEF Order
<1> QED
  BY <1>1, <1>2

LEMMA ClearInOrder ==
  ASSUME Inv, Order, NEW r \in Requests, Clear(r) \/ ClearIdentities(r)
  PROVE  Order'
<1>1. CASE Clear(r)
  <2> DEFINE t(w) == [op |-> "clearing", events |-> db.events, approvals |-> db.approvals,
                      cases |-> db.cases, names |-> {}, by |-> w]
  <2>1. PICK w \in Workers : Begin(r, t(w))
    BY <1>1 DEF Clear
  <2>2. t(w).op = "clearing" /\ t(w).names = {}
    OBVIOUS
  <2> HIDE DEF t
  <2> QED
    BY <2>1, <2>2, BeginInOrder
<1>2. CASE ClearIdentities(r)
  <2> DEFINE s == session[r]
             t == [op |-> "cleared", by |-> s.by, events |-> s.events \cup db.identities,
                   approvals |-> s.approvals \cup db.identities, cases |-> s.cases,
                   identities |-> db.identities, estate |-> Fresh, names |-> {Fresh}]
  <2>1. session' = [session EXCEPT ![r] = t] /\ UNCHANGED db /\ Unused # {}
    BY <1>2 DEF ClearIdentities
  <2>2. t.op = "cleared" /\ t.names = {Fresh} /\ {t.estate} = t.names /\ r \in Everyone
    BY DEF Everyone
  <2> HIDE DEF t
  <2>3. /\ t.names \subseteq Estates /\ t.names \cap db.identities = {}
        /\ \A c \in db.cases : c.era \notin t.names
        /\ \A q \in Everyone \ {r} : session[q] # None => t.names \cap session[q].names = {}
    BY <2>1, <2>2, FreshIsUnused DEF Inv
  <2>4. \A q \in Everyone \ {r} : Making(q) => session[q].names \cap t.names = {}
    BY <2>3 DEF Making
  <2>5. t.op # "case" /\ t.op # "seed" /\ {t.estate} = t.names /\ r \in Everyone
    BY <2>2
  <2> HIDE <2>2
  <2> QED
    BY <2>1, <2>3, <2>4, <2>5, GoesOnInOrder DEF Inv
<1> QED
  BY <1>1, <1>2

(* No case that is stored or being opened was counted under the new        *)
(* estate, so only a reset that leaves no case starts the numbers again.   *)
LEMMA ResetInOrder ==
  ASSUME Inv, Order, NEW r \in Requests, Reset(r)
  PROVE  Order'
<1> DEFINE s == session[r]
           Kept(c) == IF c.of \in s.identities THEN [c EXCEPT !.of = None] ELSE c
           left == db.cases \ s.cases
<1>1. /\ r \in Everyone /\ Making(r) /\ s.names = {s.estate} /\ s.estate \in Estates
      /\ \A c \in db.cases : c.era # s.estate
      /\ \A q \in Everyone \ {r} : session[q] # None => s.estate \notin session[q].names
  BY DEF Reset, Runs, Making, Order, Apart, Everyone
<1>2. db'.identities = {s.estate} /\ db'.cases = {Kept(c) : c \in left}
  BY DEF Reset, Inv, Tables
<1>3. session'[r] = None /\ \A q \in Everyone \ {r} : session'[q] = session[q]
  BY <1>1 DEF Reset, End, Inv, Sessions
<1>4. \A c \in left : Kept(c).era = c.era
  BY DEF Inv, Tables, Case
<1>5. IsFiniteSet(db'.cases)
  <2> DEFINE f == [c \in left |-> Kept(c)]
  <2>1. IsFiniteSet(left)
    BY FS_Difference DEF Order
  <2>2. f \in Surjection(left, {Kept(c) : c \in left})
    BY DEF Surjection
  <2> HIDE DEF f, Kept
  <2> QED
    BY <1>2, <2>1, <2>2, FS_Surjection
<1> HIDE DEF Kept
<1>6. \A c \in db'.cases : \E d \in left : c.era = d.era
  BY <1>2, <1>4
<1> HIDE DEF left
<1>7. \A c \in db'.cases : \E d \in db.cases : c.era = d.era
  BY <1>6 DEF left
<1>8. Apart'
  <2> SUFFICES ASSUME NEW q \in Everyone \ {r}, Making(q)
               PROVE  /\ session[q].names \cap db'.identities = {}
                      /\ \A c \in db'.cases : c.era \notin session[q].names
                      /\ \A p \in Everyone \ {q} :
                           session'[p] # None => session[q].names \cap session'[p].names = {}
    BY <1>3 DEF Apart, Making, Order
  <2>1. session[q].names \cap db'.identities = {}
    BY <1>1, <1>2 DEF Making
  <2>2. \A c \in db'.cases : c.era \notin session[q].names
    BY <1>7 DEF Order, Apart
  <2>3. ASSUME NEW p \in Everyone \ {q}, session'[p] # None
        PROVE  session[q].names \cap session'[p].names = {}
    <3>1. p # r /\ session'[p] = session[p]
      BY <1>3, <2>3
    <3> QED
      BY <2>3, <3>1 DEF Order, Apart
  <2> QED
    BY <2>1, <2>2, <2>3
<1>9. Counted'
  <2> SUFFICES ASSUME NEW q \in Everyone \ {r}, session[q] # None, session[q].op = "case"
               PROVE  Counting(session[q])'
    BY <1>3 DEF Counted
  <2>1. Counting(session[q]) /\ session'[q] = session[q]
    BY <1>3 DEF Order, Counted
  <2>2. session[q].case.era # s.estate
    BY <1>1, <2>1 DEF Counting
  <2> QED
    BY <1>2, <2>1, <2>2 DEF Counting
<1>10. NumberedInOrder'
  <2> SUFFICES ASSUME \A c \in db'.cases : c.era \in db'.identities
               PROVE  {c.ref : c \in db'.cases} = 1 .. Cardinality(db'.cases)
    BY DEF NumberedInOrder
  <2>1. db'.cases = {}
    BY <1>1, <1>2, <1>7
  <2>2. Cardinality(db'.cases) = 0
    BY <2>1, FS_EmptySet
  <2> QED
    BY <2>1, <2>2
<1> QED
  BY <1>1, <1>2, <1>5, <1>8, <1>9, <1>10 DEF Order
-----------------------------------------------------------------------------
LEMMA StepInOrder ==
  ASSUME Inv, Order, [Next]_vars
  PROVE  Order'
<1>1. ASSUME Stop \/ (\E w \in Workers : Die(w)) PROVE Order'
  <2>1. UNCHANGED db /\ \A s \in Everyone : session'[s] = session[s] \/ session'[s] = None
    BY <1>1 DEF Stop, Die, Inv, Sessions
  <2> QED
    BY <2>1, EndsInOrder
<1>2. ASSUME NEW w \in Workers, Boot(w) \/ Seeded(w) \/ SeedingFails(w) \/ Die(w)
      PROVE  Order'
  BY <1>1, <1>2, BootInOrder, SeededInOrder DEF SeedingFails
<1>3. CASE Crash
  BY <1>1, <1>3 DEF Crash
<1>4. ASSUME NEW r \in Requests, Rollback(r) PROVE Order'
  <2>1. UNCHANGED db /\ \A s \in Everyone : session'[s] = session[s] \/ session'[s] = None
    BY <1>4 DEF Rollback, End, Inv, Sessions
  <2> QED
    BY <2>1, EndsInOrder
<1>5. ASSUME NEW r \in Requests, Request(r) PROVE Order'
  BY <1>4, <1>5, BatchInOrder, CaseInOrder, ClearInOrder, ResetInOrder DEF Request
<1>6. CASE UNCHANGED vars
  BY <1>6, EndsInOrder DEF vars
<1> QED
  BY <1>2, <1>3, <1>5, <1>6 DEF Next

LEMMA InitOrder == Init => Order
<1> SUFFICES ASSUME Init PROVE Order
  OBVIOUS
<1>1. db.identities = {} /\ db.cases = {}
  BY DEF Init, Empty
<1>2. Apart /\ Counted
  BY DEF Init, Apart, Counted, Making, Everyone
<1>3. IsFiniteSet({}) /\ Cardinality({}) = 0
  BY FS_EmptySet
<1>4. NumberedInOrder
  BY <1>1, <1>3 DEF NumberedInOrder
<1> QED
  BY <1>1, <1>2, <1>3, <1>4 DEF Order

(* However many cases are opened at the same time, the stored ones are     *)
(* numbered without a gap, unless a reset came between count and commit.   *)
THEOREM CasesNumbered == Spec => []NumberedInOrder
<1>1. Init => Inv /\ Order
  BY InitInv, InitOrder
<1>2. Inv /\ Order /\ [Next]_vars => (Inv /\ Order)'
  BY StepKeeps, StepInOrder
<1>3. Inv /\ Order => NumberedInOrder
  BY DEF Order
<1> QED
  BY <1>1, <1>2, <1>3, PTL DEF Spec
=============================================================================
