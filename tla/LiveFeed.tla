----------------------------- MODULE LiveFeed -----------------------------
(***************************************************************************)
(* The event bus of every replica and the WebSocket handlers it feeds.     *)
(* publish() either delivers to the replica's own subscribers or hands the *)
(* event to Redis, from where each replica's relay task delivers it.       *)
(* Delivery never waits: a subscriber whose queue is full is taken off the *)
(* list.  Each handler takes from its queue, or sends a heartbeat when     *)
(* nothing came for a while; it learns that the browser has gone only by   *)
(* sending.  Events are numbered in the order they are published.          *)
(***************************************************************************)
EXTENDS Integers, FiniteSets, Sequences, SequencesExt

CONSTANTS
  Replicas,      (* API processes                                           *)
  Clients,       (* connections of browsers                                 *)
  Home,          (* the replica each connection reaches                     *)
  RedisUrl,      (* is REDIS_URL set?                                       *)
  QueueSize,     (* SUBSCRIBER_QUEUE_SIZE                                   *)
  MaxEvents,     (* bound on the events published                           *)
  MaxOutages,    (* bound on the failures of Redis                          *)
  Restarts,      (* may replicas be restarted?                              *)
  MaxGauge       (* bound on the gauge, which a connection needs to begin   *)

ASSUME LiveFeedAssumption ==
  /\ IsFiniteSet(Clients)
  /\ Home \in [Clients -> Replicas]
  /\ {RedisUrl, Restarts} \subseteq BOOLEAN
  /\ QueueSize \in Nat \ {0}
  /\ {MaxEvents, MaxOutages, MaxGauge} \subseteq Nat

Event == 1..MaxEvents

VARIABLES
  published,     (* how many events were published                          *)
  shared,        (* those Redis accepted                                    *)
  redisUp,       (* does Redis answer?                                      *)
  outages,       (* how often it has failed                                 *)
  bus,           (* each replica's bus: local, relay or a dead relay        *)
  channel,       (* what Redis holds for each relay                         *)
  delivered,     (* what each bus has delivered since it started            *)
  conn,          (* each browser's connection, as its handler sees it       *)
  present,       (* is the browser still there?                             *)
  listed,        (* is the connection's queue among the subscribers?        *)
  queue,         (* the connection's queue                                  *)
  since,         (* Len(delivered) when it subscribed                       *)
  sent,          (* the events sent over the connection                     *)
  gauge          (* each replica's count of connections (WEBSOCKET_CLIENTS) *)

redisVars == <<shared, redisUp, outages, channel>>
connVars == <<conn, present, listed, queue, since, sent, gauge>>
vars == <<published, bus, delivered, redisVars, connVars>>

Started(up) == IF RedisUrl /\ up THEN "relay" ELSE "local"

Init ==
  /\ published = 0
  /\ shared = {}
  /\ redisUp \in BOOLEAN
  /\ outages = 0
  /\ bus = [r \in Replicas |-> Started(redisUp)]
  /\ channel = [r \in Replicas |-> <<>>]
  /\ delivered = [r \in Replicas |-> <<>>]
  /\ conn = [c \in Clients |-> "away"]
  /\ present = [c \in Clients |-> FALSE]
  /\ listed = [c \in Clients |-> FALSE]
  /\ queue = [c \in Clients |-> <<>>]
  /\ since = [c \in Clients |-> 0]
  /\ sent = [c \in Clients |-> <<>>]
  /\ gauge = [r \in Replicas |-> 0]
-----------------------------------------------------------------------------
(* QueueFull: the subscriber's queue holds maxsize events.                 *)
Lagging(c) == Len(queue[c]) >= QueueSize

(* Mutation: a full queue skips the event and stays subscribed.            *)
Deliver_SkipsFull(r, m) ==
  LET mine == {c \in Clients : listed[c] /\ Home[c] = r}
  IN  /\ queue' = [c \in Clients |->
                     IF c \in mine /\ ~Lagging(c) THEN Append(queue[c], m) ELSE queue[c]]
      /\ delivered' = [delivered EXCEPT ![r] = Append(@, m)]
      /\ UNCHANGED listed

(* _deliver: put_nowait into every subscriber's queue.                     *)
Deliver(r, m) ==
  LET mine == {c \in Clients : listed[c] /\ Home[c] = r}
  IN  /\ queue' = [c \in Clients |->
                     IF c \in mine /\ ~Lagging(c) THEN Append(queue[c], m) ELSE queue[c]]
      /\ listed' = [c \in Clients |-> listed[c] /\ ~(c \in mine /\ Lagging(c))]
      /\ delivered' = [delivered EXCEPT ![r] = Append(@, m)]

(* Redis hands the event to every relay that listens.                      *)
Share(m) ==
  /\ shared' = shared \cup {m}
  /\ channel' = [r \in Replicas |->
                   IF bus[r] = "relay" THEN Append(channel[r], m) ELSE channel[r]]

Publishing == published < MaxEvents /\ published' = published + 1

(* Mutation: delivered locally as well as through Redis.                   *)
PublishShared_Twice(r) ==
  /\ Publishing
  /\ bus[r] # "local" /\ redisUp
  /\ Share(published')
  /\ Deliver(r, published')
  /\ UNCHANGED <<redisUp, outages, bus, conn, present, since, sent, gauge>>

(* publish, accepted by Redis: the relay delivers it back.                 *)
PublishShared(r) ==
  /\ Publishing
  /\ bus[r] # "local" /\ redisUp
  /\ Share(published')
  /\ UNCHANGED <<redisUp, outages, bus, delivered, connVars>>

(* publish without Redis, or refused by it.                                *)
PublishLocal(r) ==
  /\ Publishing
  /\ bus[r] = "local" \/ ~redisUp
  /\ Deliver(r, published')
  /\ UNCHANGED <<bus, redisVars, conn, present, since, sent, gauge>>

(* publish, accepted by Redis whose answer is lost: delivered here too.    *)
PublishUnanswered(r) ==
  /\ Publishing
  /\ bus[r] # "local" /\ redisUp
  /\ outages < MaxOutages /\ outages' = outages + 1
  /\ redisUp' = FALSE
  /\ Share(published')
  /\ Deliver(r, published')
  /\ UNCHANGED <<bus, conn, present, since, sent, gauge>>

(* _relay: the next message of the channel.                                *)
Relay(r) ==
  /\ bus[r] = "relay"
  /\ channel[r] # <<>>
  /\ Deliver(r, Head(channel[r]))
  /\ channel' = [channel EXCEPT ![r] = Tail(@)]
  /\ UNCHANGED <<published, shared, redisUp, outages, bus,
                 conn, present, since, sent, gauge>>

RedisFails ==
  /\ redisUp
  /\ outages < MaxOutages /\ outages' = outages + 1
  /\ redisUp' = FALSE
  /\ UNCHANGED <<published, shared, channel, bus, delivered, connVars>>

RedisRecovers ==
  /\ ~redisUp
  /\ redisUp' = TRUE
  /\ UNCHANGED <<published, shared, channel, outages, bus, delivered, connVars>>

(* listen() raises when the outage outlasts the client's retries: the task *)
(* ends, nothing starts it again, and _redis stays set.                    *)
RelayDies(r) ==
  /\ bus[r] = "relay" /\ ~redisUp
  /\ bus' = [bus EXCEPT ![r] = "dead"]
  /\ channel' = [channel EXCEPT ![r] = <<>>]
  /\ UNCHANGED <<published, shared, redisUp, outages, delivered, connVars>>

(* The process is restarted: start() connects to Redis if it answers.      *)
Restart(r) ==
  LET lost == {c \in Clients : Home[c] = r}
  IN  /\ Restarts
      /\ bus' = [bus EXCEPT ![r] = Started(redisUp)]
      /\ channel' = [channel EXCEPT ![r] = <<>>]
      /\ delivered' = [delivered EXCEPT ![r] = <<>>]
      /\ conn' = [c \in Clients |-> IF c \in lost THEN "away" ELSE conn[c]]
      /\ present' = [c \in Clients |-> present[c] /\ c \notin lost]
      /\ listed' = [c \in Clients |-> listed[c] /\ c \notin lost]
      /\ queue' = [c \in Clients |-> IF c \in lost THEN <<>> ELSE queue[c]]
      /\ since' = [c \in Clients |-> IF c \in lost THEN 0 ELSE since[c]]
      /\ sent' = [c \in Clients |-> IF c \in lost THEN <<>> ELSE sent[c]]
      /\ gauge' = [gauge EXCEPT ![r] = 0]
      /\ UNCHANGED <<published, shared, redisUp, outages>>
-----------------------------------------------------------------------------
(* Mutation: the gauge goes up only with the subscription.                 *)
Accept_Uncounted(c) ==
  /\ conn[c] = "away" /\ ~present[c]
  /\ conn' = [conn EXCEPT ![c] = "accepted"]
  /\ present' = [present EXCEPT ![c] = TRUE]
  /\ UNCHANGED <<published, bus, delivered, redisVars, listed, queue, since, sent, gauge>>

(* live_feed up to the accept; the gauge goes up.                          *)
Accept(c) ==
  /\ conn[c] = "away" /\ ~present[c]
  /\ conn' = [conn EXCEPT ![c] = "accepted"]
  /\ present' = [present EXCEPT ![c] = TRUE]
  /\ gauge[Home[c]] < MaxGauge
  /\ gauge' = [gauge EXCEPT ![Home[c]] = @ + 1]
  /\ UNCHANGED <<published, bus, delivered, redisVars, listed, queue, since, sent>>

(* The "connected" message is sent and the queue added to the subscribers. *)
Subscribe(c) ==
  /\ conn[c] = "accepted" /\ present[c]
  /\ conn' = [conn EXCEPT ![c] = "feeding"]
  /\ listed' = [listed EXCEPT ![c] = TRUE]
  /\ since' = [since EXCEPT ![c] = Len(delivered[Home[c]])]
  /\ UNCHANGED <<published, bus, delivered, redisVars, present, queue, sent, gauge>>

(* The "connected" message cannot be sent: that is outside the try whose   *)
(* finally lowers the gauge.                                               *)
GreetingFails(c) ==
  /\ conn[c] = "accepted" /\ ~present[c]
  /\ conn' = [conn EXCEPT ![c] = "away"]
  /\ UNCHANGED <<published, bus, delivered, redisVars, present, listed,
                 queue, since, sent, gauge>>

Receive(c) ==
  /\ sent' = [sent EXCEPT ![c] = Append(@, Head(queue[c]))]
  /\ queue' = [queue EXCEPT ![c] = Tail(@)]
  /\ UNCHANGED <<published, bus, delivered, redisVars, conn, present,
                 listed, since, gauge>>

(* Mutation: only subscribed connections are served.                       *)
Forward_Listed(c) ==
  conn[c] = "feeding" /\ present[c] /\ listed[c] /\ queue[c] # <<>> /\ Receive(c)

(* The handler takes an event and sends it.                                *)
Forward(c) ==
  conn[c] = "feeding" /\ present[c] /\ queue[c] # <<>> /\ Receive(c)

(* The browser goes away; nobody tells the handler.                        *)
Leave(c) ==
  /\ present[c]
  /\ present' = [present EXCEPT ![c] = FALSE]
  /\ UNCHANGED <<published, bus, delivered, redisVars, conn, listed,
                 queue, since, sent, gauge>>

(* Mutation: the try is inside the loop, so the loop survives the failure. *)
End_InsideLoop(c) ==
  /\ listed' = [listed EXCEPT ![c] = FALSE]
  /\ queue' = [queue EXCEPT ![c] = <<>>]
  /\ UNCHANGED <<published, bus, delivered, redisVars, conn, present, since, sent, gauge>>

(* The handler's finally blocks: off the list, the gauge goes down.        *)
End(c) ==
  /\ conn' = [conn EXCEPT ![c] = "away"]
  /\ listed' = [listed EXCEPT ![c] = FALSE]
  /\ queue' = [queue EXCEPT ![c] = <<>>]
  /\ since' = [since EXCEPT ![c] = 0]
  /\ sent' = [sent EXCEPT ![c] = <<>>]
  /\ gauge' = [gauge EXCEPT ![Home[c]] = @ - 1]
  /\ UNCHANGED <<published, bus, delivered, redisVars, present>>

(* An event or a heartbeat cannot be sent: the handler unsubscribes and    *)
(* ends.  (To a browser that is there a heartbeat changes nothing.)        *)
Hangup(c) ==
  conn[c] = "feeding" /\ ~present[c] /\ End(c)

Next ==
  \/ \E r \in Replicas :
       \/ PublishShared(r) \/ PublishLocal(r) \/ PublishUnanswered(r)
       \/ Relay(r) \/ RelayDies(r) \/ Restart(r)
  \/ RedisFails \/ RedisRecovers
  \/ \E c \in Clients :
       \/ Accept(c) \/ Subscribe(c) \/ GreetingFails(c)
       \/ Forward(c) \/ Leave(c) \/ Hangup(c)

(* The event loop runs every task that can go on; the 25-second timeout of *)
(* the handler's wait makes it send even when no event comes.              *)
Fairness ==
  /\ \A r \in Replicas : WF_vars(Relay(r))
  /\ \A c \in Clients :
       /\ WF_vars(Subscribe(c)) /\ WF_vars(GreetingFails(c))
       /\ WF_vars(Forward(c)) /\ WF_vars(Hangup(c))

Spec == Init /\ [][Next]_vars /\ Fairness
-----------------------------------------------------------------------------
(* Every variable has its type, and no queue outgrows SUBSCRIBER_QUEUE_SIZE *)
(* (events.py bounds the memory a browser that reads slowly can hold).     *)
TypeOK ==
  /\ published \in 0..MaxEvents
  /\ shared \subseteq Event
  /\ redisUp \in BOOLEAN
  /\ outages \in 0..MaxOutages
  /\ bus \in [Replicas -> {"local", "relay", "dead"}]
  /\ channel \in [Replicas -> Seq(Event)]
  /\ delivered \in [Replicas -> Seq(Event)]
  /\ conn \in [Clients -> {"away", "accepted", "feeding"}]
  /\ present \in [Clients -> BOOLEAN]
  /\ listed \in [Clients -> BOOLEAN]
  /\ queue \in [Clients -> Seq(Event)]
  /\ \A c \in Clients : Len(queue[c]) <= QueueSize
  /\ since \in [Clients -> Nat]
  /\ sent \in [Clients -> Seq(Event)]
  /\ gauge \in [Replicas -> 0..MaxGauge]

(* What a browser receives has no gap and no reordering: sent and queued   *)
(* together are what its bus delivered from the subscription on, all of it *)
(* while the queue is listed and a prefix once it was dropped.             *)
NoGap ==
  \A c \in Clients : conn[c] = "feeding" =>
    LET all == SubSeq(delivered[Home[c]], since[c] + 1, Len(delivered[Home[c]]))
    IN  IF listed[c] THEN sent[c] \o queue[c] = all
                     ELSE IsPrefix(sent[c] \o queue[c], all)

(* No connection is open that the gauge of its replica does not count: it  *)
(* errs only upwards, by the connections whose greeting failed.            *)
GaugeNeverUndercounts ==
  \A r \in Replicas :
    Cardinality({c \in Clients : Home[c] = r /\ conn[c] # "away"}) <= gauge[r]

(* As long as Redis has not failed, no bus delivers an event twice or      *)
(* before an earlier one, although the publisher also hears itself.        *)
NoEcho ==
  outages = 0 =>
    \A r \in Replicas : \A m, n \in 1..Len(delivered[r]) :
      m < n => delivered[r][m] < delivered[r][n]

(* What was put into a queue is sent unless the browser leaves, even after *)
(* the queue was dropped from the bus.                                     *)
QueueDrains ==
  \A c \in Clients : queue[c] # <<>> ~> queue[c] = <<>> \/ ~present[c]

(* A connection whose browser has gone ends, whether or not it is still    *)
(* subscribed and whether or not anything is ever published.               *)
HalfOpenEnds ==
  \A c \in Clients : ~present[c] /\ conn[c] # "away" ~> conn[c] = "away"
-----------------------------------------------------------------------------
(* docs/ARCHITECTURE.md:126: "so every replica sees every event".          *)
EveryReplicaSeesEveryEvent ==
  \A r \in Replicas, m \in Event :
    m \in shared ~> bus[r] = "local" \/ \E k \in 1..Len(delivered[r]) : delivered[r][k] = m
=============================================================================
