----------------------------- MODULE RateLimiter ----------------------------
(***************************************************************************)
(* The request limiter of one replica (core/middleware.py): a log of the   *)
(* admitted requests per client, one log for both budgets, pruned when the *)
(* client comes again and dropped when too many clients are known.         *)
(*                                                                         *)
(* A request is judged when it arrives; what it does then takes time, and  *)
(* the clean-up after it still reckons with the moment it arrived.  Times  *)
(* are kept as ages in ticks of the clock.                                 *)
(***************************************************************************)
EXTENDS Naturals, Sequences, FiniteSets

CONSTANTS
  Clients,     (* addresses, with the key's prefix where one is sent        *)
  Slots,       (* requests being served at a time                           *)
  Window,      (* RATE_LIMIT_WINDOW_SECONDS, in ticks                       *)
  Limit,       (* per kind of request: RATE_LIMIT_REQUESTS for "ordinary",  *)
               (* RATE_LIMIT_INGEST_REQUESTS for "ingest"                   *)
  MaxClients,  (* clients known before idle ones are dropped                *)
  MaxTime,     (* ticks a request takes at most: a bound of the model       *)
  Free         (* a slot in which nothing is served                         *)

Kinds == {"ordinary", "ingest"}

ASSUME LimiterAssumption ==
  /\ Window \in Nat \ {0} /\ MaxClients \in Nat /\ MaxTime \in Nat
  /\ Limit \in [Kinds -> Nat \ {0}]
  /\ Limit["ordinary"] <= Limit["ingest"]

VARIABLES
  hits,        (* per client the ages of its logged requests, oldest first  *)
  slot,        (* the age of each request being served                      *)
  admitted     (* history: the requests of each client that were let        *)
               (* through in the last window, oldest first                  *)

limiterVars == <<hits, slot, admitted>>

IdleAfter == 4 * Window

(* Older than this nothing is told apart any more.                         *)
Oldest == IdleAfter + MaxTime + 1
Ages == 0 .. Oldest

LimiterInit ==
  /\ hits = [c \in Clients |-> << >>]
  /\ slot = [s \in Slots |-> Free]
  /\ admitted = [c \in Clients |-> << >>]
-----------------------------------------------------------------------------
(* How many at the front are older than a window: up to the first that is  *)
(* not, as popleft goes.                                                   *)
Expired(ages) ==
  CHOOSE n \in 0 .. Len(ages) :
    /\ \A i \in 1 .. n : ages[i] > Window
    /\ n < Len(ages) => ages[n + 1] <= Window

Pruned(log) == SubSeq(log, Expired(log) + 1, Len(log))

Allowed(c, kind) == Len(Pruned(hits[c])) < Limit[kind]

(* The request is logged and passed on.                                    *)
Admit(s, c, kind) ==
  /\ slot[s] = Free
  /\ Allowed(c, kind)
  /\ hits' = [hits EXCEPT ![c] = Append(Pruned(@), 0)]
  /\ slot' = [slot EXCEPT ![s] = 0]
  /\ admitted' = [admitted EXCEPT ![c] = Append(@, [kind |-> kind, age |-> 0])]

(* Mutation: a refused request is logged like any other.                   *)
Refuse_Logged(c, kind) ==
  /\ ~Allowed(c, kind)
  /\ hits' = [hits EXCEPT ![c] = Append(Tail(Pruned(@)), 0)]
  /\ UNCHANGED <<slot, admitted>>

(* 429: the log is pruned and otherwise left alone.                        *)
Refuse(c, kind) ==
  /\ ~Allowed(c, kind)
  /\ hits' = [hits EXCEPT ![c] = Pruned(@)]
  /\ UNCHANGED <<slot, admitted>>

(* Mutation: the longest known clients make room, idle or not.             *)
Idle_Any(c, now) == hits[c] # << >>

(* The client's last request is older, by the clock of a request that      *)
(* arrived now ticks ago, than four windows.                               *)
Idle(c, now) == hits[c] # << >> /\ hits[c][Len(hits[c])] > IdleAfter + now

Known == {c \in Clients : hits[c] # << >>}

(* Too many clients are known: the idle ones go.                           *)
Evicted(now) ==
  [c \in Clients |-> IF MaxClients < Cardinality(Known) /\ Idle(c, now) THEN << >> ELSE hits[c]]

(* The response goes out, after the clean-up, or what served the request   *)
(* raised an exception, and there is none.                                 *)
Respond(s) ==
  /\ slot[s] # Free
  /\ slot' = [slot EXCEPT ![s] = Free]
  /\ hits' \in {hits, Evicted(slot[s])}
  /\ UNCHANGED admitted

Older(age) == IF age = Oldest THEN age ELSE age + 1

(* Those let through longer than a window ago are forgotten.               *)
Remembered(let) ==
  LET n == Expired([i \in DOMAIN let |-> let[i].age + 1])
  IN  [i \in 1 .. Len(let) - n |-> [let[n + i] EXCEPT !.age = @ + 1]]

Tick ==
  /\ \A s \in Slots : slot[s] # Free => slot[s] < MaxTime
  /\ hits' = [c \in Clients |-> [i \in DOMAIN hits[c] |-> Older(hits[c][i])]]
  /\ slot' = [s \in Slots |-> IF slot[s] = Free THEN Free ELSE slot[s] + 1]
  /\ admitted' = [c \in Clients |-> Remembered(admitted[c])]

LimiterNext ==
  \/ \E s \in Slots, c \in Clients, kind \in Kinds : Admit(s, c, kind)
  \/ \E c \in Clients, kind \in Kinds : Refuse(c, kind)
  \/ \E s \in Slots : Respond(s)
  \/ Tick

LimiterSpec == LimiterInit /\ [][LimiterNext]_limiterVars
-----------------------------------------------------------------------------
LetThrough(c, kind) == Cardinality({i \in DOMAIN admitted[c] : admitted[c][i].kind = kind})
Total(c) == Len(admitted[c])

(* In no stretch of one window, wherever it begins, more requests of a     *)
(* client are let through than the ingestion budget, nor more ordinary     *)
(* ones than theirs: no clean-up by a request that took long forgets a     *)
(* request that still counts.                                              *)
NeverOverBudget ==
  \A c \in Clients :
    LetThrough(c, "ordinary") <= Limit["ordinary"] /\ Total(c) <= Limit["ingest"]

(* Nobody is refused who was let through less often, in the last window,   *)
(* than the budget of the request: refusals themselves do not count, and   *)
(* nothing counts for longer than a window.                                *)
NoneRefusedEarly ==
  \A c \in Clients, kind \in Kinds : Total(c) < Limit[kind] => Allowed(c, kind)
=============================================================================
