-------------------------- MODULE ConsoleSession --------------------------
(***************************************************************************)
(* The console's session: the tokens in local storage, the requests that   *)
(* carry them (api.ts) and the operator the pages show (auth.tsx).  A      *)
(* request refused with 401 waits for a refresh that all such requests     *)
(* share, and is sent once more.  Steps of JavaScript are atomic from one  *)
(* await that really waits to the next; answers come in any order.         *)
(*                                                                         *)
(* One page in one tab; whoever signs in is another operator.              *)
(***************************************************************************)
EXTENDS Integers, Sequences

CONSTANTS
  Queries,      (* requests of the pages that may be under way together     *)
  MaxLogins,    (* bound on the sign-ins                                    *)
  NoTokens      (* local storage is empty                                   *)

Logins == 1..MaxLogins
Pair == [login : Logins, fresh : BOOLEAN]

ASSUME ConsoleAssumption ==
  /\ {"boot", "signin"} \cap Queries = {}
  /\ MaxLogins \in Nat
  /\ NoTokens \notin Pair

VARIABLES
  tokens,       (* tokenStore; fresh: has the access token not expired?     *)
  user,         (* whom AuthProvider shows as signed in, or 0               *)
  request,      (* what each request waits for, and what it was sent with   *)
  refreshes,    (* the refresh calls under way, by the login of their token *)
  gate,         (* refreshInFlight: none, pending, or its result            *)
  logins,       (* how many sign-ins there have been                        *)
  shell,        (* is AppShell mounted, rather than the login page?         *)
  overlapped    (* did the session change while work for the old one went on? *)

sessionVars == <<tokens, user, request, refreshes, gate, logins, overlapped>>
(* shell belongs to LiveClient's actions.                                  *)

Requests == Queries \cup {"boot", "signin"}

(* A request is sent with the tokens of that moment; what a query is       *)
(* answered does not depend on whose they are.                             *)
With(pair, r, at) ==
  [at |-> at,
   fresh |-> pair # NoTokens /\ pair.fresh,
   login |-> IF pair = NoTokens \/ r \in Queries THEN 0 ELSE pair.login]

Bare(at) == [at |-> at, fresh |-> FALSE, login |-> 0]
Idle == Bare("idle")
Posted == Bare("posted")
Held == Bare("waiting")

(* RequireAuth: the pages are there once a profile is and loading is over. *)
Shown == user # 0 /\ request["boot"] = Idle

SessionInit ==
  /\ tokens = NoTokens
  /\ user = 0
  /\ request = [r \in Requests |-> Idle]
  /\ refreshes = <<>>
  /\ gate = "none"
  /\ logins = 0
  /\ shell = FALSE
  /\ overlapped = FALSE
-----------------------------------------------------------------------------
(* A page asks for data, and every 30 seconds again.                       *)
Ask(q) ==
  /\ shell
  /\ request[q] = Idle
  /\ request' = [request EXCEPT ![q] = With(tokens, q, "sent")]
  /\ UNCHANGED <<tokens, user, refreshes, gate, logins, overlapped>>

Sent(r) == request[r].at \in {"sent", "retried"}
Authorised(r) == request[r].fresh

(* Mutation: a cache answers /auth/me with the first profile it was given. *)
Succeed_Cached(r) ==
  /\ Sent(r) /\ Authorised(r)
  /\ user' = IF r \in Queries THEN user ELSE 1
  /\ request' = [request EXCEPT ![r] = Idle]
  /\ UNCHANGED <<tokens, refreshes, gate, logins, overlapped>>

(* The answer to /auth/me names the owner of the token it was asked with.  *)
Succeed(r) ==
  /\ Sent(r) /\ Authorised(r)
  /\ user' = IF r \in Queries THEN user ELSE request[r].login
  /\ request' = [request EXCEPT ![r] = Idle]
  /\ UNCHANGED <<tokens, refreshes, gate, logins, overlapped>>

(* Requests end with an error, which loadProfile answers by signing out.   *)
Throw(R) ==
  /\ request' = [r \in Requests |-> IF r \in R THEN Idle ELSE request[r]]
  /\ IF "boot" \in R THEN tokens' = NoTokens /\ user' = 0
                     ELSE UNCHANGED <<tokens, user>>

(* The server errs, the account is disabled or the network fails.          *)
Fail(r) ==
  /\ Sent(r)
  /\ Throw({r})
  /\ UNCHANGED <<refreshes, gate, logins, overlapped>>

(* Mutation: nobody is told.                                               *)
GiveUp_Silent(R) ==
  /\ request' = [r \in Requests |-> IF r \in R THEN Idle ELSE request[r]]
  /\ tokens' = NoTokens
  /\ UNCHANGED user

(* The refresh failed: tokens cleared, listeners called, error thrown.     *)
GiveUp(R) ==
  /\ request' = [r \in Requests |-> IF r \in R THEN Idle ELSE request[r]]
  /\ tokens' = NoTokens
  /\ user' = 0

(* Mutation: every 401 starts a refresh of its own.                        *)
AttemptRefresh_Ungated(r) ==
  /\ tokens # NoTokens
  /\ refreshes' = Append(refreshes, tokens.login)
  /\ gate' = "pending"
  /\ request' = [request EXCEPT ![r] = Held]
  /\ UNCHANGED <<tokens, user>>

(* attemptRefresh: nothing to refresh with; the first to ask; one of many; *)
(* or asked while the last result still stands.                            *)
AttemptRefresh(r) ==
  \/ /\ tokens = NoTokens \/ gate = "failed"
     /\ GiveUp({r})
     /\ UNCHANGED <<refreshes, gate>>
  \/ /\ tokens # NoTokens /\ gate \in {"none", "pending"}
     /\ refreshes' = IF gate = "none" THEN Append(refreshes, tokens.login) ELSE refreshes
     /\ gate' = "pending"
     /\ request' = [request EXCEPT ![r] = Held]
     /\ UNCHANGED <<tokens, user>>
  \/ /\ tokens # NoTokens /\ gate = "refreshed"
     /\ request' = [request EXCEPT ![r] = With(tokens, r, "retried")]
     /\ UNCHANGED <<tokens, user, refreshes, gate>>

(* 401: refreshed once, and thrown the second time.                        *)
Reject(r) ==
  /\ Sent(r) /\ ~Authorised(r)
  /\ \/ request[r].at = "sent" /\ AttemptRefresh(r)
     \/ request[r].at = "retried" /\ Throw({r}) /\ UNCHANGED <<refreshes, gate>>
  /\ UNCHANGED <<logins, overlapped>>

Waiting == {r \in Requests : request[r].at = "waiting"}

(* A refresh is answered: its pair is stored and everybody asks again.     *)
Refreshed ==
  /\ refreshes # <<>>
  /\ LET pair == [login |-> Head(refreshes), fresh |-> TRUE]
     IN  /\ tokens' = pair
         /\ request' = [r \in Requests |->
                          IF r \in Waiting THEN With(pair, r, "retried")
                          ELSE request[r]]
  /\ refreshes' = Tail(refreshes)
  /\ gate' = "refreshed"
  /\ UNCHANGED <<user, logins, overlapped>>

(* A refresh is refused (it has expired, the account was deactivated), or  *)
(* the network fails it: everybody gives up.                               *)
RefreshFails ==
  /\ refreshes # <<>>
  /\ GiveUp(Waiting)
  /\ refreshes' = Tail(refreshes)
  /\ gate' = "failed"
  /\ UNCHANGED <<logins, overlapped>>

(* Mutation: a success is never forgotten.                                 *)
ReleaseGate_FailureOnly ==
  /\ gate = "failed" /\ gate' = "none"
  /\ UNCHANGED <<tokens, user, request, refreshes, logins, overlapped>>

(* The timeout of 0 ms after the result.                                   *)
ReleaseGate ==
  /\ gate \in {"refreshed", "failed"} /\ gate' = "none"
  /\ UNCHANGED <<tokens, user, request, refreshes, logins, overlapped>>
-----------------------------------------------------------------------------
(* Is a call under way that will store or clear tokens when it ends?       *)
Pending == refreshes # <<>> \/ request["boot"] # Idle

SignIn ==
  /\ ~shell /\ user = 0
  /\ request["signin"] = Idle
  /\ logins < MaxLogins
  /\ request' = [request EXCEPT !["signin"] = Posted]
  /\ overlapped' = (overlapped \/ Pending)
  /\ UNCHANGED <<tokens, user, refreshes, gate, logins>>

(* login stores the pair, and signIn asks for the profile with it.         *)
SignInAccepted ==
  /\ request["signin"].at = "posted"
  /\ logins' = logins + 1
  /\ tokens' = [login |-> logins', fresh |-> TRUE]
  /\ request' = [request EXCEPT !["signin"] = With(tokens', "signin", "sent")]
  /\ overlapped' = (overlapped \/ Pending)
  /\ UNCHANGED <<user, refreshes, gate>>

SignInRefused ==
  /\ request["signin"].at = "posted"
  /\ Throw({"signin"})
  /\ UNCHANGED <<refreshes, gate, logins, overlapped>>

SignOut ==
  /\ shell
  /\ tokens' = NoTokens
  /\ user' = 0
  /\ overlapped' = (overlapped \/ Pending)
  /\ UNCHANGED <<request, refreshes, gate, logins>>

(* The page is loaded afresh: loadProfile asks who owns what is stored.    *)
Load ==
  /\ user' = 0
  /\ request' = [r \in Requests |->
                   IF r = "boot" /\ tokens # NoTokens THEN With(tokens, r, "sent")
                   ELSE Idle]
  /\ refreshes' = <<>>
  /\ gate' = "none"
  /\ overlapped' = FALSE
  /\ UNCHANGED <<tokens, logins>>

(* The access token expires.                                               *)
Expire ==
  /\ tokens # NoTokens /\ tokens.fresh
  /\ tokens' = [tokens EXCEPT !.fresh = FALSE]
  /\ UNCHANGED <<user, request, refreshes, gate, logins, overlapped>>

SessionNext ==
  \/ \E q \in Queries : Ask(q)
  \/ \E r \in Requests : Succeed(r) \/ Fail(r) \/ Reject(r)
  \/ Refreshed \/ RefreshFails \/ ReleaseGate
  \/ SignIn \/ SignInAccepted \/ SignInRefused \/ SignOut \/ Expire

(* Pages poll, every call is answered in the end, and a server that keeps  *)
(* refusing a token is heard at last, whatever else fails in between.      *)
SessionFairness ==
  /\ \A q \in Queries : WF_sessionVars(Ask(q))
  /\ \A r \in Requests : WF_sessionVars(Succeed(r) \/ Fail(r)) /\ SF_sessionVars(Reject(r))
  /\ WF_sessionVars(Refreshed \/ RefreshFails)
  /\ WF_sessionVars(ReleaseGate)
  /\ WF_sessionVars(SignInAccepted \/ SignInRefused)
=============================================================================
