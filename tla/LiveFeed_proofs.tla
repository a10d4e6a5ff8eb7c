-------------------------- MODULE LiveFeed_proofs --------------------------
(***************************************************************************)
(* What a connection receives, what a bus delivers and what the gauge      *)
(* counts, for any number of replicas, connections, events and outages,    *)
(* any queue size, and with replicas that restart at any time.             *)
(***************************************************************************)
EXTENDS LiveFeed, FiniteSetTheorems, TLAPS

Open(r) == {c \in Clients : Home[c] = r /\ conn[c] # "away"}

(* Without the closing of a connection, which needs to know that the gauge *)
(* counts it, the types are kept by every step alone.                      *)
Counts == TypeOK /\ GaugeNeverUndercounts

(* NoGap place by place: of what its bus gave out, from place n on, a      *)
(* connection was sent s, then q is queued, and that is all if it is in.   *)
Tells(out, n, s, q, all) ==
  /\ n + Len(s) + Len(q) <= Len(out)
  /\ \A i \in 1..Len(s) : s[i] = out[n + i]
  /\ \A i \in 1..Len(q) : q[i] = out[n + Len(s) + i]
  /\ all => n + Len(s) + Len(q) = Len(out)

Story(c) == Tells(delivered[Home[c]], since[c], sent[c], queue[c], listed[c])

(* Before it subscribes and after it ended a connection has nothing.       *)
Fresh(c) == sent[c] = <<>> /\ queue[c] = <<>> /\ ~listed[c]

Stories ==
  \A c \in Clients : IF conn[c] = "feeding" THEN Story(c) ELSE Fresh(c)
-----------------------------------------------------------------------------
(* What a delivery to all subscribers of a replica does to the types.      *)
LEMMA DeliverTyped ==
  ASSUME TypeOK, NEW r \in Replicas, NEW m \in Event, Deliver(r, m)
  PROVE  /\ queue' \in [Clients -> Seq(Event)]
         /\ \A c \in Clients : Len(queue'[c]) <= QueueSize
         /\ listed' \in [Clients -> BOOLEAN]
         /\ delivered' \in [Replicas -> Seq(Event)]
<1> DEFINE mine == {c \in Clients : listed[c] /\ Home[c] = r}
<1>1. queue' = [c \in Clients |->
                  IF c \in mine /\ ~Lagging(c) THEN Append(queue[c], m) ELSE queue[c]]
  BY DEF Deliver
<1>2. ASSUME NEW c \in Clients
      PROVE  queue'[c] \in Seq(Event) /\ Len(queue'[c]) <= QueueSize
  <2> DEFINE q == queue[c]
  <2>1. q \in Seq(Event) /\ Len(q) <= QueueSize /\ Len(q) \in Nat
    BY DEF TypeOK
  <2>2. CASE c \in mine /\ ~Lagging(c)
    <3>1. queue'[c] = Append(q, m) /\ ~(Len(q) >= QueueSize)
      BY <1>1, <2>2 DEF Lagging
    <3> HIDE DEF q
    <3>2. Append(q, m) \in Seq(Event) /\ Len(Append(q, m)) = Len(q) + 1
      BY <2>1
    <3> QED
      BY <2>1, <3>1, <3>2, LiveFeedAssumption
  <2>3. CASE ~(c \in mine /\ ~Lagging(c))
    BY <1>1, <2>1, <2>3
  <2> QED
    BY <2>2, <2>3
<1>3. listed' \in [Clients -> BOOLEAN]
  BY DEF Deliver, TypeOK
<1>4. delivered' \in [Replicas -> Seq(Event)]
  BY DEF Deliver, TypeOK
<1> QED
  BY <1>1, <1>2, <1>3, <1>4

LEMMA ShareTyped ==
  ASSUME TypeOK, NEW m \in Event, Share(m)
  PROVE  shared' \subseteq Event /\ channel' \in [Replicas -> Seq(Event)]
BY DEF Share, TypeOK

LEMMA PublishedIsEvent ==
  ASSUME TypeOK, Publishing
  PROVE  published' \in Event /\ published' = published + 1 /\ published' \in 0..MaxEvents
BY LiveFeedAssumption DEF TypeOK, Publishing, Event

LEMMA PublishTyped ==
  ASSUME TypeOK, NEW r \in Replicas, PublishShared(r) \/ PublishLocal(r) \/ PublishUnanswered(r)
  PROVE  TypeOK'
<1>1. published' \in Event /\ published' \in 0..MaxEvents
  BY PublishedIsEvent DEF PublishShared, PublishLocal, PublishUnanswered
<1>2. CASE PublishShared(r)
  BY <1>1, <1>2, ShareTyped DEF PublishShared, TypeOK, connVars
<1>3. CASE PublishLocal(r)
  BY <1>1, <1>3, DeliverTyped DEF PublishLocal, TypeOK, redisVars
<1>4. CASE PublishUnanswered(r)
  <2>1. outages' \in 0..MaxOutages
    BY <1>4, LiveFeedAssumption DEF PublishUnanswered, TypeOK
  <2> QED
    BY <1>1, <1>4, <2>1, ShareTyped, DeliverTyped DEF PublishUnanswered, TypeOK
<1> QED
  BY <1>2, <1>3, <1>4

LEMMA BusTyped ==
  ASSUME TypeOK, NEW r \in Replicas, Relay(r) \/ RelayDies(r) \/ Restart(r)
  PROVE  TypeOK'
<1>1. CASE Relay(r)
  <2>1. Head(channel[r]) \in Event /\ Tail(channel[r]) \in Seq(Event)
    BY <1>1 DEF Relay, TypeOK
  <2>2. channel' \in [Replicas -> Seq(Event)]
    BY <1>1, <2>1 DEF Relay, TypeOK
  <2> QED
    BY <1>1, <2>1, <2>2, DeliverTyped DEF Relay, TypeOK
<1>2. CASE RelayDies(r)
  <2>1. channel' \in [Replicas -> Seq(Event)]
    BY <1>2 DEF RelayDies, TypeOK
  <2>2. bus' \in [Replicas -> {"local", "relay", "dead"}]
    BY <1>2 DEF RelayDies, TypeOK
  <2> QED
    BY <1>2, <2>1, <2>2 DEF RelayDies, TypeOK, connVars
<1>3. CASE Restart(r)
  <2>1. /\ bus' \in [Replicas -> {"local", "relay", "dead"}]
        /\ channel' \in [Replicas -> Seq(Event)]
        /\ delivered' \in [Replicas -> Seq(Event)]
    BY <1>3 DEF Restart, TypeOK, Started
  <2>2. /\ conn' \in [Clients -> {"away", "accepted", "feeding"}]
        /\ present' \in [Clients -> BOOLEAN]
        /\ listed' \in [Clients -> BOOLEAN]
    BY <1>3 DEF Restart, TypeOK
  <2>3. /\ queue' \in [Clients -> Seq(Event)]
        /\ \A c \in Clients : Len(queue'[c]) <= QueueSize
        /\ since' \in [Clients -> Nat]
        /\ sent' \in [Clients -> Seq(Event)]
    BY <1>3, LiveFeedAssumption DEF Restart, TypeOK
  <2>4. gauge' \in [Replicas -> 0..MaxGauge]
    BY <1>3, LiveFeedAssumption DEF Restart, TypeOK
  <2> QED
    BY <1>3, <2>1, <2>2, <2>3, <2>4 DEF Restart, TypeOK
<1> QED
  BY <1>1, <1>2, <1>3

LEMMA RedisTyped ==
  ASSUME TypeOK, RedisFails \/ RedisRecovers
  PROVE  TypeOK'
<1>1. outages' \in 0..MaxOutages
  BY LiveFeedAssumption DEF RedisFails, RedisRecovers, TypeOK
<1> QED
  BY <1>1 DEF RedisFails, RedisRecovers, TypeOK, connVars

LEMMA HandlerTyped ==
  ASSUME TypeOK, NEW c \in Clients,
         Accept(c) \/ Subscribe(c) \/ GreetingFails(c) \/ Forward(c) \/ Leave(c)
  PROVE  TypeOK'
<1> USE DEF redisVars
<1>1. CASE Accept(c)
  <2>1. gauge[Home[c]] \in 0..MaxGauge /\ gauge[Home[c]] < MaxGauge /\ Home[c] \in Replicas
    BY <1>1, LiveFeedAssumption DEF Accept, TypeOK
  <2>2. gauge[Home[c]] + 1 \in 0..MaxGauge
    BY <2>1, LiveFeedAssumption
  <2>3. gauge' \in [Replicas -> 0..MaxGauge]
    BY <1>1, <2>1, <2>2 DEF Accept, TypeOK
  <2> QED
    BY <1>1, <2>3 DEF Accept, TypeOK
<1>2. CASE Subscribe(c)
  <2>1. Home[c] \in Replicas /\ Len(delivered[Home[c]]) \in Nat
    BY LiveFeedAssumption DEF TypeOK
  <2> QED
    BY <1>2, <2>1 DEF Subscribe, TypeOK
<1>3. CASE GreetingFails(c)
  BY <1>3 DEF GreetingFails, TypeOK
<1>4. CASE Forward(c)
  <2>1. /\ Head(queue[c]) \in Event /\ Tail(queue[c]) \in Seq(Event)
        /\ Len(Tail(queue[c])) <= QueueSize
    BY <1>4, LiveFeedAssumption DEF Forward, TypeOK
  <2>2. /\ queue' \in [Clients -> Seq(Event)]
        /\ \A d \in Clients : Len(queue'[d]) <= QueueSize
    BY <1>4, <2>1 DEF Forward, Receive, TypeOK
  <2>3. sent' \in [Clients -> Seq(Event)]
    BY <1>4, <2>1 DEF Forward, Receive, TypeOK
  <2> QED
    BY <1>4, <2>2, <2>3 DEF Forward, Receive, TypeOK
<1>5. CASE Leave(c)
  BY <1>5 DEF Leave, TypeOK
<1> QED
  BY <1>1, <1>2, <1>3, <1>4, <1>5
-----------------------------------------------------------------------------
LEMMA OpenFinite ==
  ASSUME NEW r \in Replicas
  PROVE  IsFiniteSet(Open(r)) /\ Cardinality(Open(r)) \in Nat
<1>1. Open(r) \in SUBSET Clients
  BY DEF Open
<1> QED
  BY <1>1, FS_Subset, FS_CardinalityType, LiveFeedAssumption

LEMMA CountedOpen ==
  ASSUME Counts, NEW r \in Replicas
  PROVE  /\ Cardinality(Open(r)) <= gauge[r]
         /\ Cardinality(Open(r)) \in Nat
         /\ gauge[r] \in 0..MaxGauge
<1>1. Cardinality(Open(r)) <= gauge[r]
  BY DEF Counts, GaugeNeverUndercounts, Open
<1>2. gauge[r] \in 0..MaxGauge
  BY DEF Counts, TypeOK
<1> QED
  BY <1>1, <1>2, OpenFinite

(* Whoever leaves the gauge alone and opens no connection keeps the bound. *)
LEMMA SameGauge ==
  ASSUME Counts, UNCHANGED gauge, TypeOK',
         \A d \in Clients : conn[d] = "away" => conn'[d] = "away"
  PROVE  Counts'
<1> SUFFICES ASSUME NEW r \in Replicas PROVE Cardinality(Open(r)') <= gauge[r]
  BY DEF Counts, GaugeNeverUndercounts, Open
<1>1. Open(r)' \in SUBSET Open(r)
  BY DEF Open
<1>2. Cardinality(Open(r)') <= Cardinality(Open(r)) /\ Cardinality(Open(r)') \in Nat
  BY <1>1, OpenFinite, FS_Subset, FS_CardinalityType
<1>3. Cardinality(Open(r)) <= gauge[r] /\ Cardinality(Open(r)) \in Nat /\ gauge[r] \in Nat
  BY CountedOpen, LiveFeedAssumption
<1> QED
  BY <1>2, <1>3

LEMMA AcceptCounts ==
  ASSUME Counts, NEW c \in Clients, Accept(c)
  PROVE  Counts'
<1>1. TypeOK'
  BY HandlerTyped DEF Counts
<1> SUFFICES ASSUME NEW r \in Replicas PROVE Cardinality(Open(r)') <= gauge'[r]
  BY <1>1 DEF Counts, GaugeNeverUndercounts, Open
<1>2. Cardinality(Open(r)) <= gauge[r] /\ Cardinality(Open(r)) \in Nat /\ gauge[r] \in Nat
  BY CountedOpen, LiveFeedAssumption
<1>3. CASE r = Home[c]
  <2>1. Open(r)' = Open(r) \cup {c}
    BY <1>3 DEF Accept, Counts, TypeOK, Open
  <2>2. Cardinality(Open(r)') <= Cardinality(Open(r)) + 1
    <3>1. IsFiniteSet(Open(r))
      BY OpenFinite
    <3>2. Cardinality(Open(r) \cup {c}) =
            IF c \in Open(r) THEN Cardinality(Open(r)) ELSE Cardinality(Open(r)) + 1
      BY <3>1, FS_AddElement
    <3> QED
      BY <1>2, <2>1, <3>2
  <2>3. gauge'[r] = gauge[r] + 1
    BY <1>3 DEF Accept, Counts, TypeOK
  <2>4. Cardinality(Open(r)') \in Nat
    BY <2>1, OpenFinite, FS_AddElement, FS_CardinalityType
  <2> QED
    BY <1>2, <2>2, <2>3, <2>4
<1>4. CASE r # Home[c]
  <2>1. Open(r)' = Open(r)
    BY <1>4 DEF Accept, Counts, TypeOK, Open
  <2>2. gauge'[r] = gauge[r]
    BY <1>4 DEF Accept, Counts, TypeOK
  <2> QED
    BY <1>2, <2>1, <2>2
<1> QED
  BY <1>3, <1>4

(* The gauge counts the connection that ends, so it does not go below zero.*)
LEMMA HangupCounts ==
  ASSUME Counts, NEW c \in Clients, Hangup(c)
  PROVE  Counts'
<1> DEFINE h == Home[c]
<1>1. h \in Replicas /\ c \in Open(h)
  BY LiveFeedAssumption DEF Hangup, Open
<1>2. /\ gauge' = [gauge EXCEPT ![h] = @ - 1]
      /\ conn' = [conn EXCEPT ![c] = "away"]
  BY DEF Hangup, End
<1>3. ASSUME NEW r \in Replicas
      PROVE  Cardinality(Open(r)) <= gauge[r] /\ Cardinality(Open(r)) \in Nat /\ gauge[r] \in 0..MaxGauge
  BY CountedOpen
<1>4. Open(h)' = Open(h) \ {c} /\ \A r \in Replicas \ {h} : Open(r)' = Open(r)
  BY <1>2 DEF Counts, TypeOK, Open
<1>5. Cardinality(Open(h)') = Cardinality(Open(h)) - 1 /\ Cardinality(Open(h)') \in Nat
  <2>1. IsFiniteSet(Open(h))
    BY <1>1, OpenFinite
  <2>2. IsFiniteSet(Open(h) \ {c}) /\ Cardinality(Open(h) \ {c}) = Cardinality(Open(h)) - 1
    BY <1>1, <2>1, FS_RemoveElement
  <2> QED
    BY <1>4, <2>2, FS_CardinalityType
<1> HIDE DEF h
<1>6. gauge[h] - 1 \in 0..MaxGauge /\ Cardinality(Open(h)') <= gauge[h] - 1
  BY <1>1, <1>3, <1>5, LiveFeedAssumption
<1>7. gauge' \in [Replicas -> 0..MaxGauge]
  BY <1>1, <1>2, <1>6 DEF Counts, TypeOK
<1>8. TypeOK'
  <2>1. /\ listed' \in [Clients -> BOOLEAN]
        /\ queue' \in [Clients -> Seq(Event)]
        /\ \A d \in Clients : Len(queue'[d]) <= QueueSize
        /\ since' \in [Clients -> Nat]
        /\ sent' \in [Clients -> Seq(Event)]
    BY LiveFeedAssumption DEF Hangup, End, Counts, TypeOK
  <2>2. conn' \in [Clients -> {"away", "accepted", "feeding"}]
    BY <1>2 DEF Counts, TypeOK
  <2> QED
    BY <1>7, <2>1, <2>2 DEF Hangup, End, Counts, TypeOK, redisVars
<1>9. ASSUME NEW r \in Replicas PROVE Cardinality(Open(r)') <= gauge'[r]
  BY <1>1, <1>2, <1>3, <1>4, <1>6 DEF Counts, TypeOK
<1> QED
  BY <1>8, <1>9 DEF Counts, GaugeNeverUndercounts, Open

(* A restart closes what the gauge forgets.                                *)
LEMMA RestartCounts ==
  ASSUME Counts, NEW r \in Replicas, Restart(r)
  PROVE  Counts'
<1>1. TypeOK'
  BY BusTyped DEF Counts
<1> SUFFICES ASSUME NEW q \in Replicas PROVE Cardinality(Open(q)') <= gauge'[q]
  BY <1>1 DEF Counts, GaugeNeverUndercounts, Open
<1>2. CASE q = r
  <2>1. Open(q)' = {}
    BY <1>2 DEF Restart, Open
  <2>2. Cardinality(Open(q)') = 0
    BY <2>1, FS_EmptySet
  <2>3. gauge'[q] = 0
    BY <1>2 DEF Restart, Counts, TypeOK
  <2> QED
    BY <2>2, <2>3
<1>3. CASE q # r
  <2>1. Open(q)' = Open(q)
    BY <1>3 DEF Restart, Open
  <2>2. gauge'[q] = gauge[q]
    BY <1>3 DEF Restart, Counts, TypeOK
  <2> QED
    BY <2>1, <2>2, CountedOpen
<1> QED
  BY <1>2, <1>3

LEMMA StepCounts ==
  ASSUME Counts, [Next]_vars
  PROVE  Counts'
<1> USE DEF Counts
<1>1. ASSUME NEW r \in Replicas, PublishShared(r) \/ PublishLocal(r) \/ PublishUnanswered(r)
      PROVE  Counts'
  <2>1. UNCHANGED gauge /\ UNCHANGED conn
    BY <1>1 DEF PublishShared, PublishLocal, PublishUnanswered, connVars
  <2> QED
    BY <1>1, <2>1, PublishTyped, SameGauge
<1>2. ASSUME NEW r \in Replicas, Relay(r) \/ RelayDies(r)
      PROVE  Counts'
  <2>1. UNCHANGED gauge /\ UNCHANGED conn
    BY <1>2 DEF Relay, RelayDies, connVars
  <2> QED
    BY <1>2, <2>1, BusTyped, SameGauge
<1>3. ASSUME NEW r \in Replicas, Restart(r) PROVE Counts'
  BY <1>3, RestartCounts
<1>4. CASE RedisFails \/ RedisRecovers
  <2>1. UNCHANGED gauge /\ UNCHANGED conn
    BY <1>4 DEF RedisFails, RedisRecovers, connVars
  <2> QED
    BY <1>4, <2>1, RedisTyped, SameGauge
<1>5. ASSUME NEW c \in Clients, Accept(c) PROVE Counts'
  BY <1>5, AcceptCounts
<1>6. ASSUME NEW c \in Clients, Subscribe(c) \/ GreetingFails(c) \/ Forward(c) \/ Leave(c)
      PROVE  Counts'
  <2>1. UNCHANGED gauge /\ \A d \in Clients : conn[d] = "away" => conn'[d] = "away"
    BY <1>6 DEF Subscribe, GreetingFails, Forward, Receive, Leave, TypeOK
  <2> QED
    BY <1>6, <2>1, HandlerTyped, SameGauge
<1>7. ASSUME NEW c \in Clients, Hangup(c) PROVE Counts'
  BY <1>7, HangupCounts
<1>8. CASE UNCHANGED vars
  <2>1. TypeOK'
    BY <1>8 DEF vars, redisVars, connVars, TypeOK
  <2> QED
    BY <1>8, <2>1, SameGauge DEF vars, connVars
<1> QED
  BY <1>1, <1>2, <1>3, <1>4, <1>5, <1>6, <1>7, <1>8 DEF Next

LEMMA InitCounts == Init => Counts
<1> SUFFICES ASSUME Init PROVE Counts
  OBVIOUS
<1>1. TypeOK
  <2>1. Started(redisUp) \in {"local", "relay", "dead"}
    BY DEF Started
  <2> QED
    BY <2>1, LiveFeedAssumption DEF Init, TypeOK, Event
<1>2. ASSUME NEW r \in Replicas PROVE Cardinality(Open(r)) <= gauge[r]
  <2>1. Open(r) = {} /\ gauge[r] = 0
    BY DEF Init, Open
  <2> QED
    BY <2>1, FS_EmptySet
<1> QED
  BY <1>1, <1>2 DEF Counts, GaugeNeverUndercounts, Open

(* Every variable has its type and no queue outgrows its bound, for any    *)
(* number of replicas and connections.                                     *)
THEOREM TypesFit == Spec => []TypeOK
<1>1. Counts => TypeOK
  BY DEF Counts
<1> QED
  BY <1>1, InitCounts, StepCounts, PTL DEF Spec

(* No connection is open that the gauge does not count, whatever order     *)
(* greetings, hang-ups and restarts come in.                               *)
THEOREM GaugeCountsAll == Spec => []GaugeNeverUndercounts
<1>1. Counts => GaugeNeverUndercounts
  BY DEF Counts
<1> QED
  BY <1>1, InitCounts, StepCounts, PTL DEF Spec
-----------------------------------------------------------------------------
(* A bus delivers on, to others or to this queue too; the handler takes    *)
(* the head of the queue.                                                  *)
LEMMA TellsOn ==
  ASSUME NEW out \in Seq(Event), NEW n \in Nat, NEW s \in Seq(Event),
         NEW q \in Seq(Event), NEW all \in BOOLEAN, NEW m \in Event,
         Tells(out, n, s, q, all)
  PROVE  Tells(Append(out, m), n, s, q, FALSE)
<1> DEFINE o == Append(out, m)
<1>1. Len(o) = Len(out) + 1 /\ \A i \in 1..Len(out) : o[i] = out[i]
  OBVIOUS
<1>2. Len(out) \in Nat /\ Len(s) \in Nat /\ Len(q) \in Nat
  OBVIOUS
<1> HIDE DEF o
<1>3. \A i \in 1..Len(s) : n + i \in 1..Len(out)
  BY <1>2 DEF Tells
<1>4. \A i \in 1..Len(q) : n + Len(s) + i \in 1..Len(out)
  BY <1>2 DEF Tells
<1>5. Tells(o, n, s, q, FALSE)
  BY <1>1, <1>2, <1>3, <1>4 DEF Tells
<1> QED
  BY <1>5 DEF o

LEMMA TellsBoth ==
  ASSUME NEW out \in Seq(Event), NEW n \in Nat, NEW s \in Seq(Event),
         NEW q \in Seq(Event), NEW m \in Event, Tells(out, n, s, q, TRUE)
  PROVE  Tells(Append(out, m), n, s, Append(q, m), TRUE)
<1> DEFINE o == Append(out, m)
           p == Append(q, m)
<1>1. Tells(o, n, s, q, FALSE)
  BY TellsOn
<1>2. Len(out) \in Nat /\ Len(s) \in Nat /\ Len(q) \in Nat
  OBVIOUS
<1>3. Len(o) = Len(out) + 1 /\ o[Len(out) + 1] = m
  OBVIOUS
<1>4. Len(p) = Len(q) + 1 /\ p[Len(q) + 1] = m /\ \A i \in 1..Len(q) : p[i] = q[i]
  OBVIOUS
<1> HIDE DEF o, p
<1>5. n + Len(s) + Len(q) = Len(out)
  BY DEF Tells
<1>6. \A i \in 1..Len(p) : i \in 1..Len(q) \/ i = Len(q) + 1
  BY <1>2, <1>4
<1>7. \A i \in 1..Len(p) : p[i] = o[n + Len(s) + i]
  <2> TAKE i \in 1..Len(p)
  <2>1. CASE i \in 1..Len(q)
    BY <1>1, <1>4, <2>1 DEF Tells
  <2>2. CASE i = Len(q) + 1
    <3>1. n + Len(s) + i = Len(out) + 1
      BY <1>2, <1>5, <2>2
    <3> QED
      BY <1>3, <1>4, <2>2, <3>1
  <2> QED
    BY <1>6, <2>1, <2>2
<1>8. Tells(o, n, s, p, TRUE)
  BY <1>1, <1>2, <1>3, <1>4, <1>5, <1>7 DEF Tells
<1> QED
  BY <1>8 DEF o, p

LEMMA TellsTaken ==
  ASSUME NEW out \in Seq(Event), NEW n \in Nat, NEW s \in Seq(Event),
         NEW q \in Seq(Event), NEW all \in BOOLEAN, q # <<>>, Tells(out, n, s, q, all)
  PROVE  Tells(out, n, Append(s, Head(q)), Tail(q), all)
<1> DEFINE t == Append(s, Head(q))
           p == Tail(q)
<1>1. /\ Len(t) = Len(s) + 1 /\ t[Len(s) + 1] = q[1]
      /\ \A i \in 1..Len(s) : t[i] = s[i]
  OBVIOUS
<1>2. Len(p) = Len(q) - 1 /\ \A i \in 1..Len(p) : p[i] = q[i + 1]
  OBVIOUS
<1>3. Len(out) \in Nat /\ Len(s) \in Nat /\ Len(q) \in Nat /\ Len(q) >= 1
  OBVIOUS
<1> HIDE DEF t, p
<1>4. \A i \in 1..Len(t) : t[i] = out[n + i]
  <2> TAKE i \in 1..Len(t)
  <2>1. CASE i \in 1..Len(s)
    BY <1>1, <2>1 DEF Tells
  <2>2. CASE i = Len(s) + 1
    <3>1. 1 \in 1..Len(q) /\ n + Len(s) + 1 = n + i
      BY <1>3, <2>2
    <3> QED
      BY <1>1, <2>2, <3>1 DEF Tells
  <2> QED
    BY <1>1, <1>3, <2>1, <2>2
<1>5. \A i \in 1..Len(p) : p[i] = out[n + Len(t) + i]
  <2> TAKE i \in 1..Len(p)
  <2>1. i + 1 \in 1..Len(q) /\ n + Len(s) + (i + 1) = n + Len(t) + i
    BY <1>1, <1>2, <1>3
  <2> QED
    BY <1>2, <2>1 DEF Tells
<1>6. Tells(out, n, t, p, all)
  <2>1. n + Len(t) + Len(p) = n + Len(s) + Len(q)
    BY <1>1, <1>2, <1>3
  <2>2. n + Len(t) + Len(p) <= Len(out)
    BY <2>1 DEF Tells
  <2>3. all => n + Len(t) + Len(p) = Len(out)
    BY <2>1, Zenon DEF Tells
  <2> QED
    BY <1>4, <1>5, <2>2, <2>3, Zenon DEF Tells
<1> QED
  BY <1>6 DEF t, p

(* Connections that a step leaves alone, on a bus that delivers nothing.   *)
LEMMA SameStory ==
  ASSUME Stories, NEW c \in Clients, delivered'[Home[c]] = delivered[Home[c]],
         conn'[c] = conn[c], sent'[c] = sent[c], queue'[c] = queue[c],
         since'[c] = since[c], listed'[c] = listed[c]
  PROVE  (IF conn[c] = "feeding" THEN Story(c) ELSE Fresh(c))'
BY DEF Stories, Story, Fresh

(* A delivery appends to the bus and to the queue of whoever keeps up, and *)
(* drops the others, whose story ends before it.                           *)
LEMMA DeliverContinues ==
  ASSUME TypeOK, Stories, NEW r \in Replicas, NEW m \in Event, Deliver(r, m),
         UNCHANGED <<conn, sent, since>>
  PROVE  Stories'
<1> SUFFICES ASSUME NEW c \in Clients
             PROVE  (IF conn[c] = "feeding" THEN Story(c) ELSE Fresh(c))'
  BY DEF Stories
<1> DEFINE h == Home[c]
           q == queue[c]
           D == delivered[h]
<1>1. /\ h \in Replicas /\ q \in Seq(Event) /\ D \in Seq(Event)
      /\ sent[c] \in Seq(Event) /\ listed[c] \in BOOLEAN /\ since[c] \in Nat
  BY LiveFeedAssumption DEF TypeOK
<1>2. CASE h # r
  <2>1. delivered'[h] = D /\ queue'[c] = q /\ listed'[c] = listed[c]
    BY <1>1, <1>2 DEF Deliver, TypeOK
  <2> QED
    BY <2>1, SameStory
<1>3. CASE h = r /\ ~listed[c]
  <2>1. delivered'[h] = Append(D, m) /\ queue'[c] = q /\ listed'[c] = FALSE
    BY <1>1, <1>3 DEF Deliver, TypeOK
  <2>2. CASE conn[c] = "feeding"
    <3>1. Story(c)
      BY <2>2 DEF Stories
    <3>2. Tells(Append(D, m), since[c], sent[c], q, FALSE)
      BY <1>1, <3>1, TellsOn DEF Story, TypeOK
    <3>3. Story(c)'
      BY <2>1, <3>2 DEF Story
    <3> QED
      BY <2>2, <3>3
  <2>3. CASE conn[c] # "feeding"
    BY <2>1, <2>3 DEF Stories, Fresh
  <2> QED
    BY <2>2, <2>3
<1>4. CASE h = r /\ listed[c]
  <2>1. conn[c] = "feeding" /\ Story(c)
    BY <1>4 DEF Stories, Fresh
  <2>2. delivered'[h] = Append(D, m)
    BY <1>1, <1>4 DEF Deliver, TypeOK
  <2>3. CASE Lagging(c)
    <3>1. queue'[c] = q /\ listed'[c] = FALSE
      BY <1>4, <2>3 DEF Deliver
    <3>2. Tells(Append(D, m), since[c], sent[c], q, FALSE)
      BY <1>1, <2>1, TellsOn DEF Story, TypeOK
    <3>3. Story(c)'
      BY <2>2, <3>1, <3>2 DEF Story
    <3> QED
      BY <2>1, <3>3
  <2>4. CASE ~Lagging(c)
    <3>1. queue'[c] = Append(q, m) /\ listed'[c] = TRUE
      BY <1>4, <2>4 DEF Deliver, TypeOK
    <3>2. Tells(D, since[c], sent[c], q, TRUE)
      BY <1>4, <2>1 DEF Story
    <3>3. Tells(Append(D, m), since[c], sent[c], Append(q, m), TRUE)
      BY <1>1, <3>2, TellsBoth DEF TypeOK
    <3>4. Story(c)'
      BY <2>2, <3>1, <3>3 DEF Story
    <3> QED
      BY <2>1, <3>4
  <2> QED
    BY <2>3, <2>4
<1> QED
  BY <1>2, <1>3, <1>4 DEF TypeOK

LEMMA RestartForgets ==
  ASSUME TypeOK, Stories, NEW r \in Replicas, Restart(r)
  PROVE  Stories'
<1> SUFFICES ASSUME NEW c \in Clients
             PROVE  (IF conn[c] = "feeding" THEN Story(c) ELSE Fresh(c))'
  BY DEF Stories
<1>1. CASE Home[c] = r
  <2>1. conn'[c] = "away" /\ sent'[c] = <<>> /\ queue'[c] = <<>> /\ listed'[c] = FALSE
    BY <1>1 DEF Restart
  <2> QED
    BY <2>1 DEF Fresh
<1>2. CASE Home[c] # r
  <2>1. /\ conn'[c] = conn[c] /\ sent'[c] = sent[c] /\ queue'[c] = queue[c]
        /\ since'[c] = since[c]
    BY <1>2 DEF Restart
  <2>2. listed'[c] = listed[c]
    BY <1>2 DEF Restart, TypeOK
  <2>3. delivered'[Home[c]] = delivered[Home[c]]
    BY <1>2, LiveFeedAssumption DEF Restart, TypeOK
  <2> QED
    BY <2>1, <2>2, <2>3, SameStory
<1> QED
  BY <1>1, <1>2

LEMMA HandlerContinues ==
  ASSUME TypeOK, Stories, NEW c \in Clients,
         Accept(c) \/ Subscribe(c) \/ GreetingFails(c) \/ Forward(c) \/ Leave(c) \/ Hangup(c)
  PROVE  Stories'
<1>1. UNCHANGED delivered
  BY DEF Accept, Subscribe, GreetingFails, Forward, Receive, Leave, Hangup, End
<1>2. ASSUME NEW d \in Clients \ {c}
      PROVE  (IF conn[d] = "feeding" THEN Story(d) ELSE Fresh(d))'
  <2>1. /\ conn'[d] = conn[d] /\ sent'[d] = sent[d] /\ queue'[d] = queue[d]
        /\ since'[d] = since[d] /\ listed'[d] = listed[d]
    BY DEF Accept, Subscribe, GreetingFails, Forward, Receive, Leave, Hangup, End, TypeOK
  <2> QED
    BY <1>1, <2>1, SameStory
<1>3. (IF conn[c] = "feeding" THEN Story(c) ELSE Fresh(c))'
  <2>1. CASE Accept(c) \/ GreetingFails(c)
    <3>1. Fresh(c) /\ conn'[c] # "feeding"
      BY <2>1 DEF Accept, GreetingFails, Stories, TypeOK
    <3>2. UNCHANGED <<sent, queue, listed>>
      BY <2>1 DEF Accept, GreetingFails
    <3> QED
      BY <3>1, <3>2 DEF Fresh
  <2>2. CASE Subscribe(c)
    <3>1. /\ conn'[c] = "feeding" /\ listed'[c] = TRUE
          /\ since'[c] = Len(delivered[Home[c]]) /\ UNCHANGED <<sent, queue>>
      BY <2>2 DEF Subscribe, TypeOK
    <3>2. sent[c] = <<>> /\ queue[c] = <<>>
      BY <2>2 DEF Subscribe, Stories, Fresh
    <3>3. Len(delivered[Home[c]]) \in Nat
      BY LiveFeedAssumption DEF TypeOK
    <3>4. Tells(delivered[Home[c]], Len(delivered[Home[c]]), <<>>, <<>>, TRUE)
      BY <3>3 DEF Tells
    <3> QED
      BY <1>1, <3>1, <3>2, <3>4 DEF Story
  <2>3. CASE Forward(c)
    <3>1. /\ conn[c] = "feeding" /\ queue[c] # <<>> /\ UNCHANGED <<conn, since, listed>>
          /\ sent'[c] = Append(sent[c], Head(queue[c])) /\ queue'[c] = Tail(queue[c])
      BY <2>3 DEF Forward, Receive, TypeOK
    <3>2. Story(c)
      BY <3>1 DEF Stories
    <3>3. /\ delivered[Home[c]] \in Seq(Event) /\ since[c] \in Nat
          /\ sent[c] \in Seq(Event) /\ queue[c] \in Seq(Event) /\ listed[c] \in BOOLEAN
      BY LiveFeedAssumption DEF TypeOK
    <3>4. Tells(delivered[Home[c]], since[c], Append(sent[c], Head(queue[c])),
                Tail(queue[c]), listed[c])
      BY <3>1, <3>2, <3>3, TellsTaken DEF Story
    <3> QED
      BY <1>1, <3>1, <3>4 DEF Story
  <2>4. CASE Leave(c)
    <3>1. UNCHANGED <<conn, sent, queue, since, listed>>
      BY <2>4 DEF Leave
    <3> QED
      BY <1>1, <3>1, SameStory
  <2>5. CASE Hangup(c)
    <3>1. conn'[c] = "away" /\ sent'[c] = <<>> /\ queue'[c] = <<>> /\ listed'[c] = FALSE
      BY <2>5 DEF Hangup, End, TypeOK
    <3> QED
      BY <3>1 DEF Fresh
  <2> QED
    BY <2>1, <2>2, <2>3, <2>4, <2>5
<1> QED
  BY <1>2, <1>3 DEF Stories

LEMMA StepContinues ==
  ASSUME TypeOK, Stories, [Next]_vars
  PROVE  Stories'
<1>1. ASSUME NEW r \in Replicas, PublishLocal(r) \/ PublishUnanswered(r)
      PROVE  Stories'
  <2>1. Deliver(r, published') /\ UNCHANGED <<conn, sent, since>> /\ published' \in Event
    BY <1>1, PublishedIsEvent DEF PublishLocal, PublishUnanswered
  <2> QED
    BY <2>1, DeliverContinues
<1>2. ASSUME NEW r \in Replicas, Relay(r) PROVE Stories'
  <2>1. Deliver(r, Head(channel[r])) /\ UNCHANGED <<conn, sent, since>>
    BY <1>2 DEF Relay
  <2>2. Head(channel[r]) \in Event
    BY <1>2 DEF Relay, TypeOK
  <2> QED
    BY <2>1, <2>2, DeliverContinues
<1>3. ASSUME NEW r \in Replicas, Restart(r) PROVE Stories'
  BY <1>3, RestartForgets
<1>4. ASSUME NEW c \in Clients,
             Accept(c) \/ Subscribe(c) \/ GreetingFails(c) \/ Forward(c) \/ Leave(c) \/ Hangup(c)
      PROVE  Stories'
  BY <1>4, HandlerContinues
<1>5. ASSUME UNCHANGED <<delivered, connVars>> PROVE Stories'
  BY <1>5, SameStory DEF connVars, Stories, Story, Fresh
<1>6. ASSUME NEW r \in Replicas, PublishShared(r) \/ RelayDies(r) PROVE Stories'
  BY <1>5, <1>6 DEF PublishShared, RelayDies
<1>7. CASE RedisFails \/ RedisRecovers \/ UNCHANGED vars
  BY <1>5, <1>7 DEF RedisFails, RedisRecovers, vars
<1> QED
  BY <1>1, <1>2, <1>3, <1>4, <1>6, <1>7 DEF Next

LEMMA InitStories == Init => Stories
BY DEF Init, Stories, Fresh

(* Put together place by place, that is the story in one piece.            *)
LEMMA ToldWithoutGap ==
  ASSUME NEW out \in Seq(Event), NEW n \in Nat, NEW s \in Seq(Event),
         NEW q \in Seq(Event), NEW all \in BOOLEAN, Tells(out, n, s, q, all)
  PROVE  LET rest == SubSeq(out, n + 1, Len(out))
         IN  IF all THEN s \o q = rest ELSE IsPrefix(s \o q, rest)
<1> DEFINE rest == SubSeq(out, n + 1, Len(out))
           t == s \o q
<1>1. n <= Len(out) /\ Len(out) \in Nat /\ Len(s) \in Nat /\ Len(q) \in Nat
  BY DEF Tells
<1>2. /\ rest \in Seq(Event) /\ Len(rest) = Len(out) - n
      /\ \A i \in 1..Len(rest) : rest[i] = out[n + i]
  BY <1>1
<1>3. /\ t \in Seq(Event) /\ Len(t) = Len(s) + Len(q)
      /\ \A i \in 1..Len(s) : t[i] = s[i]
      /\ \A i \in 1..Len(q) : t[Len(s) + i] = q[i]
  OBVIOUS
<1> HIDE DEF rest, t
<1>4. Len(t) <= Len(rest) /\ (all => Len(t) = Len(rest))
  <2>1. Len(t) <= Len(rest)
    BY <1>1, <1>2, <1>3 DEF Tells
  <2>2. ASSUME all PROVE Len(t) = Len(rest)
    <3>1. n + Len(s) + Len(q) = Len(out)
      BY <2>2, Zenon DEF Tells
    <3>2. Len(t) = Len(s) + Len(q) /\ Len(rest) = Len(out) - n
      BY <1>2, <1>3, Zenon
    <3> HIDE <2>2
    <3> QED
      BY <1>1, <3>1, <3>2
  <2> QED
    BY <2>1, <2>2
<1>5. \A i \in 1..Len(t) : t[i] = rest[i]
  <2> TAKE i \in 1..Len(t)
  <2>1. rest[i] = out[n + i]
    BY <1>1, <1>2, <1>3, <1>4
  <2>2. CASE i \in 1..Len(s)
    BY <1>3, <2>1, <2>2 DEF Tells
  <2>3. CASE i \notin 1..Len(s)
    <3> DEFINE j == i - Len(s)
    <3>1. j \in 1..Len(q) /\ i = Len(s) + j /\ n + i = n + Len(s) + j
      BY <1>1, <1>3, <2>3
    <3> HIDE DEF j
    <3> QED
      BY <1>3, <2>1, <3>1 DEF Tells
  <2> QED
    BY <2>2, <2>3
<1>6. CASE all
  <2>1. Len(t) = Len(rest)
    BY <1>4, <1>6, Zenon
  <2>2. t = rest
    BY <1>2, <1>3, <1>5, <2>1
  <2> QED
    BY <1>6, <2>2 DEF rest, t
<1>7. CASE ~all
  <2>1. SubSeq(rest, 1, Len(t)) = SubSeq(t, 1, Len(t))
    BY <1>2, <1>3, <1>4, <1>5
  <2>2. IsPrefix(t, rest)
    BY <1>4, <2>1 DEF IsPrefix
  <2> QED
    BY <1>7, <2>2 DEF rest, t
<1> QED
  BY <1>6, <1>7

(* What a browser receives has neither a gap nor a reordering, for any     *)
(* queue size, any number of events and any outages and restarts.          *)
THEOREM FeedHasNoGap == Spec => []NoGap
<1>1. TypeOK /\ Stories => NoGap
  <2> SUFFICES ASSUME TypeOK, Stories, NEW c \in Clients, conn[c] = "feeding"
               PROVE  LET all == SubSeq(delivered[Home[c]], since[c] + 1, Len(delivered[Home[c]]))
                      IN  IF listed[c] THEN sent[c] \o queue[c] = all
                                       ELSE IsPrefix(sent[c] \o queue[c], all)
    BY DEF NoGap
  <2>1. /\ delivered[Home[c]] \in Seq(Event) /\ since[c] \in Nat
        /\ sent[c] \in Seq(Event) /\ queue[c] \in Seq(Event) /\ listed[c] \in BOOLEAN
    BY LiveFeedAssumption DEF TypeOK
  <2>2. Tells(delivered[Home[c]], since[c], sent[c], queue[c], listed[c])
    BY DEF Stories, Story
  <2> QED
    BY <2>1, <2>2, ToldWithoutGap
<1>2. Init => TypeOK /\ Stories /\ Counts
  BY InitStories, InitCounts DEF Counts
<1>3. Counts /\ Stories /\ [Next]_vars => (Counts /\ Stories)'
  BY StepCounts, StepContinues DEF Counts
<1>4. Counts => TypeOK
  BY DEF Counts
<1> QED
  BY <1>1, <1>2, <1>3, <1>4, PTL DEF Spec
-----------------------------------------------------------------------------
(* What the bus gives out and what waits for it, one after the other: both *)
(* rise, the first below the second, and neither beyond the last event.    *)
Rising(D, C, last) ==
  /\ \A i, j \in 1..Len(D) : i < j => D[i] < D[j]
  /\ \A i, j \in 1..Len(C) : i < j => C[i] < C[j]
  /\ \A i \in 1..Len(D), j \in 1..Len(C) : D[i] < C[j]
  /\ \A i \in 1..Len(D) : D[i] <= last
  /\ \A j \in 1..Len(C) : C[j] <= last

LEMMA EventsAreNumbers ==
  ASSUME NEW S \in Seq(Event)
  PROVE  \A i \in 1..Len(S) : S[i] \in Int
<1>1. \A i \in 1..Len(S) : S[i] \in Event
  OBVIOUS
<1>2. Event \subseteq Int
  BY DEF Event
<1> QED
  BY <1>1, <1>2

LEMMA RisingLater ==
  ASSUME NEW D \in Seq(Event), NEW C \in Seq(Event), NEW last \in Nat, Rising(D, C, last)
  PROVE  Rising(D, C, last + 1)
<1>1. ASSUME NEW i \in 1..Len(D), D[i] <= last PROVE D[i] <= last + 1
  <2>1. D[i] \in Int
    BY EventsAreNumbers
  <2> QED
    BY <1>1, <2>1
<1>2. ASSUME NEW i \in 1..Len(C), C[i] <= last PROVE C[i] <= last + 1
  <2>1. C[i] \in Int
    BY EventsAreNumbers
  <2> QED
    BY <1>2, <2>1
<1> QED
  BY <1>1, <1>2 DEF Rising

(* The next event waits behind all that wait already.                      *)
LEMMA RisingShared ==
  ASSUME NEW D \in Seq(Event), NEW C \in Seq(Event), NEW last \in Nat,
         last + 1 \in Event, Rising(D, C, last)
  PROVE  Rising(D, Append(C, last + 1), last + 1)
<1> DEFINE B == Append(C, last + 1)
<1>1. /\ Len(B) = Len(C) + 1 /\ B[Len(C) + 1] = last + 1 /\ Len(C) \in Nat
      /\ \A i \in 1..Len(C) : B[i] = C[i]
  OBVIOUS
<1>2. \A i \in 1..Len(B) : i \in 1..Len(C) \/ i = Len(C) + 1
  BY <1>1
<1>3. (\A i \in 1..Len(D) : D[i] \in Int) /\ (\A i \in 1..Len(C) : C[i] \in Int)
  BY EventsAreNumbers
<1> HIDE DEF B
<1>4. Rising(D, C, last + 1)
  BY RisingLater
<1>5. \A i, j \in 1..Len(B) : i < j => B[i] < B[j]
  BY <1>1, <1>2, <1>3 DEF Rising
<1>6. \A i \in 1..Len(D), j \in 1..Len(B) : D[i] < B[j]
  BY <1>1, <1>2, <1>3 DEF Rising
<1>7. \A j \in 1..Len(B) : B[j] <= last + 1
  BY <1>1, <1>2, <1>4 DEF Rising
<1>8. Rising(D, B, last + 1)
  BY <1>4, <1>5, <1>6, <1>7 DEF Rising
<1> QED
  BY <1>8 DEF B

(* Or it is given out at once where nothing waits.                         *)
LEMMA RisingLocal ==
  ASSUME NEW D \in Seq(Event), NEW last \in Nat, last + 1 \in Event, Rising(D, <<>>, last)
  PROVE  Rising(Append(D, last + 1), <<>>, last + 1)
<1> DEFINE B == Append(D, last + 1)
<1>1. /\ Len(B) = Len(D) + 1 /\ B[Len(D) + 1] = last + 1 /\ Len(D) \in Nat
      /\ \A i \in 1..Len(D) : B[i] = D[i]
  OBVIOUS
<1>2. \A i \in 1..Len(B) : i \in 1..Len(D) \/ i = Len(D) + 1
  BY <1>1
<1>3. \A i \in 1..Len(D) : D[i] \in Int
  BY EventsAreNumbers
<1> HIDE DEF B
<1>4. \A i, j \in 1..Len(B) : i < j => B[i] < B[j]
  BY <1>1, <1>2, <1>3 DEF Rising
<1>5. \A i \in 1..Len(B) : B[i] <= last + 1
  BY <1>1, <1>2, <1>3 DEF Rising
<1>6. Rising(B, <<>>, last + 1)
  BY <1>4, <1>5 DEF Rising
<1> QED
  BY <1>6 DEF B

(* Or the first that waits is given out.                                   *)
LEMMA RisingRelayed ==
  ASSUME NEW D \in Seq(Event), NEW C \in Seq(Event), C # <<>>, NEW last \in Nat,
         Rising(D, C, last)
  PROVE  Rising(Append(D, Head(C)), Tail(C), last)
<1> DEFINE B == Append(D, Head(C))
           R == Tail(C)
<1>1. /\ Len(B) = Len(D) + 1 /\ B[Len(D) + 1] = C[1] /\ Len(D) \in Nat
      /\ \A i \in 1..Len(D) : B[i] = D[i]
  OBVIOUS
<1>2. \A i \in 1..Len(B) : i \in 1..Len(D) \/ i = Len(D) + 1
  BY <1>1
<1>3. /\ Len(R) = Len(C) - 1 /\ Len(C) \in Nat /\ Len(C) >= 1
      /\ \A i \in 1..Len(R) : R[i] = C[i + 1]
  OBVIOUS
<1>4. 1 \in 1..Len(C) /\ \A i \in 1..Len(R) : i + 1 \in 1..Len(C) /\ 1 < i + 1
  BY <1>3
<1> HIDE DEF B, R
<1>5. \A i, j \in 1..Len(B) : i < j => B[i] < B[j]
  BY <1>1, <1>2, <1>4 DEF Rising
<1>6. \A i, j \in 1..Len(R) : i < j => R[i] < R[j]
  BY <1>3, <1>4 DEF Rising
<1>7. \A i \in 1..Len(B), j \in 1..Len(R) : B[i] < R[j]
  BY <1>1, <1>2, <1>3, <1>4 DEF Rising
<1>8. \A i \in 1..Len(B) : B[i] <= last
  BY <1>1, <1>2, <1>4 DEF Rising
<1>9. \A j \in 1..Len(R) : R[j] <= last
  BY <1>3, <1>4 DEF Rising
<1>10. Rising(B, R, last)
  BY <1>5, <1>6, <1>7, <1>8, <1>9 DEF Rising
<1> QED
  BY <1>10 DEF B, R

(* As long as Redis has not failed every relay that was started works, and *)
(* nothing waits for a bus without one.                                    *)
Sound(r) ==
  /\ bus[r] # "local" => redisUp /\ bus[r] = "relay"
  /\ bus[r] = "local" => channel[r] = <<>>
  /\ Rising(delivered[r], channel[r], published)

InStep == outages = 0 => \A r \in Replicas : Sound(r)

LEMMA PublishInStep ==
  ASSUME TypeOK, InStep, NEW r \in Replicas, outages' = 0,
         PublishShared(r) \/ PublishLocal(r) \/ PublishUnanswered(r)
  PROVE  \A q \in Replicas : Sound(q)'
<1>1. outages = 0 /\ ~PublishUnanswered(r)
  BY DEF PublishShared, PublishLocal, PublishUnanswered, TypeOK, redisVars
<1>2. /\ published' = published + 1 /\ published + 1 \in Event /\ published \in Nat
      /\ UNCHANGED <<bus, redisUp>>
  BY <1>1, PublishedIsEvent, LiveFeedAssumption
  DEF PublishShared, PublishLocal, TypeOK, redisVars
<1> SUFFICES ASSUME NEW q \in Replicas PROVE Sound(q)'
  OBVIOUS
<1>3. Sound(q) /\ Sound(r)
  BY <1>1 DEF InStep
<1>4. delivered[q] \in Seq(Event) /\ channel[q] \in Seq(Event)
  BY DEF TypeOK
<1>5. CASE PublishShared(r)
  <2>1. /\ delivered'[q] = delivered[q]
        /\ channel'[q] = IF bus[q] = "relay" THEN Append(channel[q], published + 1) ELSE channel[q]
    BY <1>2, <1>5 DEF PublishShared, Share
  <2>2. Rising(delivered[q], Append(channel[q], published + 1), published + 1)
    BY <1>2, <1>3, <1>4, RisingShared DEF Sound
  <2>3. Rising(delivered[q], channel[q], published + 1)
    BY <1>2, <1>3, <1>4, RisingLater DEF Sound
  <2>4. Rising(delivered'[q], channel'[q], published')
    BY <1>2, <2>1, <2>2, <2>3
  <2> QED
    BY <1>2, <1>3, <2>1, <2>4 DEF Sound
<1>6. CASE PublishLocal(r)
  <2>1. bus[r] = "local" /\ channel[r] = <<>>
    BY <1>3, <1>6 DEF PublishLocal, Sound
  <2>2. channel'[q] = channel[q]
    BY <1>6 DEF PublishLocal, redisVars
  <2>3. CASE q = r
    <3>1. delivered'[q] = Append(delivered[q], published + 1)
      BY <1>2, <1>6, <2>3 DEF PublishLocal, Deliver, TypeOK
    <3>2. Rising(delivered[q], <<>>, published)
      BY <1>3, <2>1, <2>3 DEF Sound
    <3>3. Rising(Append(delivered[q], published + 1), <<>>, published + 1)
      BY <1>2, <1>4, <3>2, RisingLocal
    <3> QED
      BY <1>2, <1>3, <2>1, <2>2, <2>3, <3>1, <3>3 DEF Sound
  <2>4. CASE q # r
    <3>1. delivered'[q] = delivered[q]
      BY <1>6, <2>4 DEF PublishLocal, Deliver, TypeOK
    <3>2. Rising(delivered[q], channel[q], published + 1)
      BY <1>2, <1>3, <1>4, RisingLater DEF Sound
    <3> QED
      BY <1>2, <1>3, <2>2, <3>1, <3>2 DEF Sound
  <2> QED
    BY <2>3, <2>4
<1> QED
  BY <1>1, <1>5, <1>6

LEMMA BusInStep ==
  ASSUME TypeOK, InStep, NEW r \in Replicas, outages' = 0,
         Relay(r) \/ RelayDies(r) \/ Restart(r)
  PROVE  \A q \in Replicas : Sound(q)'
<1>1. outages = 0 /\ UNCHANGED <<published, redisUp>>
  BY DEF Relay, RelayDies, Restart
<1>2. \A q \in Replicas : Sound(q)
  BY <1>1 DEF InStep
<1>3. ~RelayDies(r)
  BY <1>2 DEF RelayDies, Sound
<1> SUFFICES ASSUME NEW q \in Replicas PROVE Sound(q)'
  OBVIOUS
<1>4. /\ delivered[q] \in Seq(Event) /\ channel[q] \in Seq(Event) /\ published \in Nat
      /\ Sound(q)
  BY <1>2, LiveFeedAssumption DEF TypeOK
<1>5. CASE q # r
  <2>1. delivered'[q] = delivered[q] /\ channel'[q] = channel[q] /\ bus'[q] = bus[q]
    BY <1>3, <1>5 DEF Relay, Restart, Deliver, TypeOK
  <2> QED
    BY <1>1, <1>4, <2>1 DEF Sound
<1>6. CASE q = r /\ Relay(r)
  <2>1. /\ delivered'[q] = Append(delivered[q], Head(channel[q]))
        /\ channel'[q] = Tail(channel[q]) /\ bus'[q] = bus[q]
        /\ channel[q] # <<>> /\ bus[q] = "relay"
    BY <1>6 DEF Relay, Deliver, TypeOK
  <2>2. Rising(Append(delivered[q], Head(channel[q])), Tail(channel[q]), published)
    BY <1>4, <2>1, RisingRelayed DEF Sound
  <2> QED
    BY <1>1, <1>4, <2>1, <2>2 DEF Sound
<1>7. CASE q = r /\ Restart(r)
  <2>1. /\ delivered'[q] = <<>> /\ channel'[q] = <<>>
        /\ bus'[q] = IF RedisUrl /\ redisUp THEN "relay" ELSE "local"
    BY <1>7 DEF Restart, Started, TypeOK
  <2>2. Rising(<<>>, <<>>, published)
    BY DEF Rising
  <2> QED
    BY <1>1, <2>1, <2>2 DEF Sound
<1> QED
  BY <1>3, <1>5, <1>6, <1>7

LEMMA StepInStep ==
  ASSUME TypeOK, InStep, [Next]_vars
  PROVE  InStep'
<1> SUFFICES ASSUME outages' = 0 PROVE \A q \in Replicas : Sound(q)'
  BY DEF InStep
<1>1. ASSUME NEW r \in Replicas, PublishShared(r) \/ PublishLocal(r) \/ PublishUnanswered(r)
      PROVE  \A q \in Replicas : Sound(q)'
  BY <1>1, PublishInStep
<1>2. ASSUME NEW r \in Replicas, Relay(r) \/ RelayDies(r) \/ Restart(r)
      PROVE  \A q \in Replicas : Sound(q)'
  BY <1>2, BusInStep
<1>3. ~RedisFails
  BY DEF RedisFails, TypeOK
<1>4. ASSUME UNCHANGED <<published, bus, channel, delivered, outages>>, redisUp => redisUp'
      PROVE  \A q \in Replicas : Sound(q)'
  BY <1>4 DEF InStep, Sound
<1>5. CASE RedisRecovers \/ UNCHANGED vars
  BY <1>4, <1>5 DEF RedisRecovers, vars, redisVars
<1>6. ASSUME NEW c \in Clients,
             Accept(c) \/ Subscribe(c) \/ GreetingFails(c) \/ Forward(c) \/ Leave(c) \/ Hangup(c)
      PROVE  \A q \in Replicas : Sound(q)'
  BY <1>4, <1>6
  DEF Accept, Subscribe, GreetingFails, Forward, Receive, Leave, Hangup, End, redisVars
<1> QED
  BY <1>1, <1>2, <1>3, <1>5, <1>6 DEF Next

LEMMA InitInStep == Init => InStep
BY DEF Init, InStep, Sound, Rising, Started

(* As long as Redis has not failed no bus delivers an event twice or       *)
(* before an earlier one: every publisher hears itself only through Redis, *)
(* for any number of replicas, with and without it, that restart.          *)
THEOREM BusesDoNotEcho == Spec => []NoEcho
<1>1. TypeOK /\ InStep => NoEcho
  BY DEF InStep, Sound, Rising, NoEcho
<1>2. Init => Counts /\ InStep
  BY InitCounts, InitInStep
<1>3. Counts /\ InStep /\ [Next]_vars => (Counts /\ InStep)'
  BY StepCounts, StepInStep DEF Counts
<1>4. Counts => TypeOK
  BY DEF Counts
<1> QED
  BY <1>1, <1>2, <1>3, <1>4, PTL DEF Spec
=============================================================================
