------------------------------ MODULE Console ------------------------------
(***************************************************************************)
(* One page of the console: its session and its live feed, which share the *)
(* stored tokens.  overlapped records that a sign-in or a sign-out met a   *)
(* call of the session before it, a token pair or a profile on its way.    *)
(***************************************************************************)
EXTENDS LiveClient

vars == <<sessionVars, liveVars>>

Init == SessionInit /\ LiveInit

Reload == Load /\ LiveLost

Next ==
  \/ SessionNext /\ UNCHANGED liveVars
  \/ LiveNext /\ UNCHANGED sessionVars
  \/ Reload

Spec == Init /\ [][Next]_vars /\ SessionFairness /\ LiveFairness
-----------------------------------------------------------------------------
(* Every variable has its type.                                            *)
TypeOK ==
  /\ tokens \in Pair \cup {NoTokens}
  /\ user \in 0..MaxLogins
  /\ request \in [Requests -> [at : {"idle", "posted", "sent", "waiting", "retried"},
                               fresh : BOOLEAN, login : 0..MaxLogins]]
  /\ refreshes \in Seq(Logins)
  /\ gate \in {"none", "pending", "refreshed", "failed"}
  /\ logins \in 0..MaxLogins
  /\ overlapped \in BOOLEAN
  /\ shell \in BOOLEAN
  /\ sock \in [Sockets -> SocketState]
  /\ socket \in Sockets \cup {NoSocket}
  /\ timer \in BOOLEAN /\ strays \in Nat
  /\ closed \in BOOLEAN
  /\ status \in {"off", "open"}
  /\ late \in BOOLEAN

(* api.ts:4-6: requests refused together share one refresh, and whoever    *)
(* waits is waiting for it.                                                *)
OneRefresh ==
  /\ Len(refreshes) <= 1
  /\ Waiting # {} => refreshes # <<>>

(* What the pages show and allow is of the operator the requests are made  *)
(* as, unless a call of the last session was still under way.              *)
SameOperator ==
  /\ user # 0 /\ tokens # NoTokens
  /\ request["boot"] = Idle /\ request["signin"] = Idle
  => tokens.login = user
OneOperator == overlapped \/ SameOperator

(* An expired token is renewed, or the operator asked to sign in again.    *)
ExpiryEnds ==
  Shown /\ tokens # NoTokens /\ ~tokens.fresh
    ~> ~Shown \/ tokens = NoTokens \/ tokens.fresh

(* The pages of a session that has lost its tokens do not stay.            *)
DeadSessionEnds == user # 0 /\ tokens = NoTokens ~> user = 0 \/ tokens # NoTokens

(* live.ts:26 keeps one socket: no other one feeds the same buffer, unless *)
(* the pages were shown again, as after signing out and in, before the end *)
(* of the last socket was known.                                           *)
OneSocketOnly == Live \subseteq {socket}
OneFeed == late \/ OneSocketOnly

(* docs/ARCHITECTURE.md:129: "The client reconnects".  While the pages are *)
(* shown to an operator whose sign-in met no call of the session before    *)
(* it, the feed is live again once connections and tokens last.            *)
Undisturbed == ~Expire /\ \A s \in Sockets : ~Drop(s)

FeedRecovers ==
  /\ <>[](shell /\ tokens # NoTokens /\ ~overlapped)
  /\ <>[][Undisturbed]_vars
  => <>[](status = "open" /\ Live # {})
=============================================================================
