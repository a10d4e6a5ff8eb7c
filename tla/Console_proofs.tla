-------------------------- MODULE Console_proofs --------------------------
(***************************************************************************)
(* Theorems about Console, for any number of sign-ins, queries and socket  *)
(* objects.  The invariant follows who owns what: as long as overlapped is *)
(* false, the tokens, the refresh under way, the profile asked for and the *)
(* operator shown belong to one sign-in.                                   *)
(***************************************************************************)
EXTENDS Console, SequenceTheorems, TLAPS

Answer == [at : {"idle", "posted", "sent", "waiting", "retried"},
           fresh : BOOLEAN, login : 0..MaxLogins]

SessionType ==
  /\ tokens \in Pair \cup {NoTokens}
  /\ user \in 0..MaxLogins
  /\ request \in [Requests -> Answer]
  /\ refreshes \in Seq(Logins)
  /\ gate \in {"none", "pending", "refreshed", "failed"}
  /\ logins \in 0..MaxLogins
  /\ overlapped \in BOOLEAN

LiveType ==
  /\ shell \in BOOLEAN
  /\ sock \in [Sockets -> SocketState]
  /\ socket \in Sockets \cup {NoSocket}
  /\ timer \in BOOLEAN /\ strays \in Nat
  /\ closed \in BOOLEAN
  /\ status \in {"off", "open"}
  /\ late \in BOOLEAN

Busy(r) == request[r].at # "idle"

(* The gate is pending exactly while the one refresh is, and who waits     *)
(* waits for that.                                                         *)
Gated ==
  /\ refreshes = <<>> \/ Len(refreshes) = 1
  /\ refreshes # <<>> <=> gate = "pending"
  /\ \A r \in Requests : request[r].at = "waiting" => gate = "pending"

(* A page load is over before the pages ask for anything, and a sign-in    *)
(* that was posted still counts.                                           *)
Ordered ==
  /\ \A r \in Requests : ~Busy(r) => request[r] = Idle
  /\ shell => ~Busy("boot")
  /\ Busy("boot") => \A q \in Queries : ~Busy(q)
  /\ request["signin"].at = "posted" => logins < MaxLogins

(* One sign-in owns everything.                                            *)
Owned ==
  /\ user # 0 /\ tokens # NoTokens => tokens.login = user
  /\ refreshes # <<>> => tokens # NoTokens /\ Head(refreshes) = tokens.login
  /\ \A p \in {"boot", "signin"} :
       /\ Busy(p) => user = 0
       /\ Sent(p) /\ tokens # NoTokens => request[p].login = tokens.login
  /\ Busy("boot") => ~Busy("signin")
  /\ Busy("boot") /\ refreshes # <<>> => request["boot"].at = "waiting"

Inv == SessionType /\ LiveType /\ Gated /\ Ordered /\ (overlapped \/ Owned)
-----------------------------------------------------------------------------
LEMMA Names ==
  /\ "boot" \in Requests /\ "boot" \notin Queries
  /\ "signin" \in Requests /\ "signin" \notin Queries
  /\ MaxLogins \in Nat
  /\ Queries \subseteq Requests
  /\ \A r \in Requests : r \in Queries \/ r \in {"boot", "signin"}
BY ConsoleAssumption DEF Requests

LEMMA NoPair == NoTokens \notin Pair
BY ConsoleAssumption, Zenon

(* What a request carries.                                                 *)
LEMMA WithType ==
  ASSUME NEW pair \in Pair \cup {NoTokens}, NEW r \in Requests,
         NEW at \in {"idle", "posted", "sent", "waiting", "retried"}
  PROVE  /\ With(pair, r, at) \in Answer
         /\ With(pair, r, at).at = at
         /\ pair # NoTokens /\ r \notin Queries => With(pair, r, at).login = pair.login
<1>1. CASE pair = NoTokens
  <2>1. (pair # NoTokens /\ pair.fresh) = FALSE
    BY <1>1
  <2>2. 0 \in 0..MaxLogins
    BY Names
  <2> QED
    BY <1>1, <2>1, <2>2 DEF With, Answer
<1>2. CASE pair # NoTokens
  <2>1. pair.login \in 1..MaxLogins /\ pair.fresh \in BOOLEAN
    BY <1>2 DEF Pair, Logins
  <2>2. pair.login \in 0..MaxLogins /\ 0 \in 0..MaxLogins
    BY <2>1, Names
  <2>3. (pair # NoTokens /\ pair.fresh) = pair.fresh
    BY <1>2, <2>1
  <2> QED
    BY <1>2, <2>1, <2>2, <2>3 DEF With, Answer
<1> QED
  BY <1>1, <1>2

LEMMA FixedAnswers ==
  /\ Idle \in Answer /\ Idle.at = "idle"
  /\ Posted \in Answer /\ Posted.at = "posted"
  /\ Held \in Answer /\ Held.at = "waiting"
<1>1. 0 \in 0..MaxLogins
  BY Names
<1> QED
  BY <1>1 DEF Idle, Posted, Held, Bare, Answer

(* One request changes.                                                    *)
LEMMA OneChanges ==
  ASSUME request \in [Requests -> Answer], NEW r \in Requests, NEW x \in Answer,
         request' = [request EXCEPT ![r] = x]
  PROVE  /\ request' \in [Requests -> Answer]
         /\ request'[r] = x
         /\ \A o \in Requests : o # r => request'[o] = request[o]
OBVIOUS

(* Some requests end.                                                      *)
LEMMA SomeEnd ==
  ASSUME request \in [Requests -> Answer], NEW R,
         request' = [r \in Requests |-> IF r \in R THEN Idle ELSE request[r]]
  PROVE  /\ request' \in [Requests -> Answer]
         /\ \A r \in Requests : r \in R => request'[r] = Idle
         /\ \A r \in Requests : r \notin R => request'[r] = request[r]
BY FixedAnswers
-----------------------------------------------------------------------------
(* What the session's actions preserve.                                    *)
Session == SessionType /\ Gated /\ Ordered /\ (overlapped \/ Owned)

(* A query is sent: nobody waits for it but the page.                      *)
LEMMA AskKeeps ==
  ASSUME Session, NEW q \in Queries, Ask(q), shell' = shell
  PROVE  Session'
<1> DEFINE x == With(tokens, q, "sent")
<1>1. q \in Requests /\ q # "boot" /\ q # "signin"
  BY Names
<1>2. x \in Answer /\ x.at = "sent"
  BY <1>1, WithType DEF Session, SessionType
<1>3. request' = [request EXCEPT ![q] = x]
  BY DEF Ask
<1> HIDE DEF x
<1>4. /\ request' \in [Requests -> Answer] /\ request'[q] = x
      /\ \A o \in Requests : o # q => request'[o] = request[o]
  BY <1>1, <1>2, <1>3, OneChanges DEF Session, SessionType
<1>5. UNCHANGED <<tokens, user, refreshes, gate, logins, overlapped>> /\ shell
  BY DEF Ask
<1>6. SessionType'
  BY <1>4, <1>5 DEF Session, SessionType
<1>7. Gated'
  BY <1>2, <1>4, <1>5 DEF Session, Gated
<1>8. Ordered'
  BY <1>1, <1>2, <1>4, <1>5, Names DEF Session, Ordered, Busy
<1>9. (overlapped \/ Owned)'
  BY <1>1, <1>4, <1>5, Names DEF Session, Owned, Busy, Sent
<1> QED
  BY <1>6, <1>7, <1>8, <1>9 DEF Session

(* A request is answered.                                                  *)
LEMMA SucceedKeeps ==
  ASSUME Session, NEW r \in Requests, Succeed(r), shell' = shell
  PROVE  Session'
<1>1. request' = [request EXCEPT ![r] = Idle] /\ Sent(r)
  BY DEF Succeed
<1>2. /\ request' \in [Requests -> Answer] /\ request'[r] = Idle
      /\ \A o \in Requests : o # r => request'[o] = request[o]
  BY <1>1, FixedAnswers, OneChanges DEF Session, SessionType
<1>3. UNCHANGED <<tokens, refreshes, gate, logins, overlapped>>
  BY DEF Succeed
<1>4. user' = IF r \in Queries THEN user ELSE request[r].login
  BY DEF Succeed
<1>5. request[r].login \in 0..MaxLogins
  BY DEF Session, SessionType, Answer
<1>6. SessionType'
  BY <1>2, <1>3, <1>4, <1>5 DEF Session, SessionType
<1>7. Gated'
  BY <1>2, <1>3, FixedAnswers DEF Session, Gated
<1>8. Ordered'
  BY <1>2, <1>3, FixedAnswers, Names DEF Session, Ordered, Busy
<1>9. (overlapped \/ Owned)'
  <2>1. CASE overlapped
    BY <2>1, <1>3
  <2>2. CASE ~overlapped /\ r \in Queries
    BY <2>2, <1>2, <1>3, <1>4, Names DEF Session, Owned, Busy, Sent
  <2>3. CASE ~overlapped /\ r \notin Queries
    <3>1. Owned /\ r \in {"boot", "signin"} /\ Busy(r)
      BY <2>3, <1>1, Names DEF Session, Sent, Busy
    <3>2. tokens # NoTokens => request[r].login = tokens.login
      BY <3>1, <1>1 DEF Owned
    <3>3. \A p \in {"boot", "signin"} : ~(Busy(p))'
      BY <3>1, <1>2, FixedAnswers, Names DEF Owned, Busy
    <3> QED
      BY <3>1, <3>2, <3>3, <2>3, <1>2, <1>3, <1>4, Names DEF Owned, Busy, Sent
  <2> QED
    BY <2>1, <2>2, <2>3
<1> QED
  BY <1>6, <1>7, <1>8, <1>9 DEF Session

(* Requests end with an error that leaves the tokens alone, or a page load *)
(* that no refresh is under way for signs out.                             *)
LEMMA ThrowKeeps ==
  ASSUME Session, NEW r \in Requests, request[r].at \in {"posted", "sent", "retried"},
         Throw({r}),
         UNCHANGED <<refreshes, gate, logins, overlapped>>, shell' = shell
  PROVE  Session'
<1>1. request' = [o \in Requests |-> IF o \in {r} THEN Idle ELSE request[o]]
  BY DEF Throw
<1>2. /\ request' \in [Requests -> Answer] /\ request'[r] = Idle
      /\ \A o \in Requests : o # r => request'[o] = request[o]
  BY <1>1, SomeEnd DEF Session, SessionType
<1>3. IF r = "boot" THEN tokens' = NoTokens /\ user' = 0 ELSE UNCHANGED <<tokens, user>>
  BY DEF Throw
<1>6. SessionType'
  BY <1>2, <1>3, Names DEF Session, SessionType
<1>7. Gated'
  BY <1>2, FixedAnswers DEF Session, Gated
<1>8. Ordered'
  BY <1>2, FixedAnswers, Names DEF Session, Ordered, Busy
<1>9. (overlapped \/ Owned)'
  <2>1. CASE overlapped
    BY <2>1
  <2>2. CASE ~overlapped /\ r # "boot"
    BY <2>2, <1>2, <1>3, FixedAnswers, Names DEF Session, Owned, Busy, Sent
  <2>3. CASE ~overlapped /\ r = "boot"
    <3>1. Owned /\ Busy("boot") /\ refreshes = <<>>
      BY <2>3 DEF Session, Owned, Busy
    <3>2. \A p \in {"boot", "signin"} : ~(Busy(p))'
      BY <3>1, <2>3, <1>2, FixedAnswers, Names DEF Owned, Busy
    <3> QED
      BY <3>1, <3>2, <2>3, <1>2, <1>3, Names DEF Owned, Busy, Sent
  <2> QED
    BY <2>1, <2>2, <2>3
<1> QED
  BY <1>6, <1>7, <1>8, <1>9 DEF Session

(* The session ends although no refresh is under way.                      *)
LEMMA GiveUpKeeps ==
  ASSUME Session, NEW r \in Requests, request[r].at = "sent", GiveUp({r}),
         tokens = NoTokens \/ gate = "failed",
         UNCHANGED <<refreshes, gate, logins, overlapped>>, shell' = shell
  PROVE  Session'
<1>1. request' = [o \in Requests |-> IF o \in {r} THEN Idle ELSE request[o]]
      /\ tokens' = NoTokens /\ user' = 0
  BY DEF GiveUp
<1>2. /\ request' \in [Requests -> Answer] /\ request'[r] = Idle
      /\ \A o \in Requests : o # r => request'[o] = request[o]
  BY <1>1, SomeEnd DEF Session, SessionType
<1>6. SessionType'
  BY <1>1, <1>2, Names DEF Session, SessionType
<1>7. Gated'
  BY <1>2, FixedAnswers DEF Session, Gated
<1>8. Ordered'
  BY <1>2, FixedAnswers, Names DEF Session, Ordered, Busy
<1>9. (overlapped \/ Owned)'
  <2>1. CASE overlapped
    BY <2>1
  <2>2. CASE ~overlapped
    <3>1. Owned /\ refreshes = <<>>
      BY <2>2 DEF Session, Gated, Owned
    <3> QED
      BY <3>1, <1>1, <1>2, FixedAnswers, Names DEF Owned, Busy, Sent
  <2> QED
    BY <2>1, <2>2
<1> QED
  BY <1>6, <1>7, <1>8, <1>9 DEF Session

(* A request asks for the refresh, first or as one of many.                *)
LEMMA AskRefreshKeeps ==
  ASSUME Session, NEW r \in Requests, request[r].at = "sent",
         tokens # NoTokens, gate \in {"none", "pending"},
         refreshes' = IF gate = "none" THEN Append(refreshes, tokens.login) ELSE refreshes,
         gate' = "pending", request' = [request EXCEPT ![r] = Held],
         UNCHANGED <<tokens, user, logins, overlapped>>, shell' = shell
  PROVE  Session'
<1>1. /\ request' \in [Requests -> Answer] /\ request'[r] = Held
      /\ \A o \in Requests : o # r => request'[o] = request[o]
  BY FixedAnswers, OneChanges DEF Session, SessionType
<1>2. tokens.login \in Logins /\ refreshes \in Seq(Logins)
  BY DEF Session, SessionType, Pair
<1>4. /\ refreshes' \in Seq(Logins) /\ Len(refreshes') = 1
      /\ refreshes' # <<>>
      /\ Head(refreshes') = IF gate = "none" THEN tokens.login ELSE Head(refreshes)
  <2>1. CASE gate = "none"
    <3>1. refreshes' = <<tokens.login>>
      BY <2>1, <1>2 DEF Session, Gated
    <3> QED
      BY <3>1, <2>1, <1>2
  <2>2. CASE gate = "pending"
    BY <2>2, <1>2 DEF Session, Gated
  <2> QED
    BY <2>1, <2>2
<1>6. SessionType'
  BY <1>1, <1>4 DEF Session, SessionType
<1>7. Gated'
  BY <1>1, <1>4 DEF Session, Gated
<1>8. Ordered'
  BY <1>1, FixedAnswers, Names DEF Session, Ordered, Busy
<1>9. (overlapped \/ Owned)'
  <2>1. CASE overlapped
    BY <2>1
  <2>2. CASE ~overlapped
    <3>1. Owned /\ (gate = "pending" => refreshes # <<>>)
      BY <2>2 DEF Session, Gated
    <3>2. Head(refreshes') = tokens.login
      BY <3>1, <1>4 DEF Owned
    <3>3. Busy("boot") => r = "boot"
      BY <3>1, Names DEF Session, Ordered, Owned, Busy
    <3>4. \A o \in Requests : (Busy(o))' <=> Busy(o)
      BY <1>1, FixedAnswers DEF Busy
    <3>5. \A p \in {"boot", "signin"} :
             /\ (Busy(p))' => user' = 0
             /\ (Sent(p))' /\ tokens' # NoTokens => request'[p].login = tokens'.login
      BY <3>1, <3>4, <1>1, FixedAnswers, Names DEF Owned, Sent
    <3>6. (Busy("boot"))' => request'["boot"].at = "waiting"
      BY <3>3, <3>4, <1>1, FixedAnswers, Names
    <3> QED
      BY <3>1, <3>2, <3>4, <3>5, <3>6, <1>4, Names DEF Owned
  <2> QED
    BY <2>1, <2>2
<1> QED
  BY <1>6, <1>7, <1>8, <1>9 DEF Session

(* A request meets the result of the last refresh and is sent again.       *)
LEMMA RetryKeeps ==
  ASSUME Session, NEW r \in Requests, request[r].at = "sent",
         tokens # NoTokens, gate = "refreshed",
         request' = [request EXCEPT ![r] = With(tokens, r, "retried")],
         UNCHANGED <<tokens, user, refreshes, gate, logins, overlapped>>, shell' = shell
  PROVE  Session'
<1> DEFINE x == With(tokens, r, "retried")
<1>1. x \in Answer /\ x.at = "retried" /\ (r \notin Queries => x.login = tokens.login)
  BY WithType DEF Session, SessionType
<1>2. request' = [request EXCEPT ![r] = x]
  OBVIOUS
<1> HIDE DEF x
<1>3. /\ request' \in [Requests -> Answer] /\ request'[r] = x
      /\ \A o \in Requests : o # r => request'[o] = request[o]
  BY <1>1, <1>2, OneChanges DEF Session, SessionType
<1>6. SessionType'
  BY <1>3 DEF Session, SessionType
<1>7. Gated'
  BY <1>1, <1>3 DEF Session, Gated
<1>8. Ordered'
  BY <1>1, <1>3, Names DEF Session, Ordered, Busy
<1>9. (overlapped \/ Owned)'
  <2>1. refreshes = <<>>
    BY DEF Session, Gated
  <2> QED
    BY <2>1, <1>1, <1>3, Names DEF Session, Owned, Busy, Sent
<1> QED
  BY <1>6, <1>7, <1>8, <1>9 DEF Session

(* A request is refused with 401.                                          *)
LEMMA RejectKeeps ==
  ASSUME Session, NEW r \in Requests, Reject(r), shell' = shell
  PROVE  Session'
<1>1. UNCHANGED <<logins, overlapped>>
  BY DEF Reject
<1>2. CASE request[r].at = "sent" /\ AttemptRefresh(r)
  <2>1. CASE /\ tokens = NoTokens \/ gate = "failed"
             /\ GiveUp({r})
             /\ UNCHANGED <<refreshes, gate>>
    BY <1>1, <1>2, <2>1, GiveUpKeeps
  <2>2. CASE /\ tokens # NoTokens /\ gate \in {"none", "pending"}
             /\ refreshes' = IF gate = "none" THEN Append(refreshes, tokens.login) ELSE refreshes
             /\ gate' = "pending"
             /\ request' = [request EXCEPT ![r] = Held]
             /\ UNCHANGED <<tokens, user>>
    BY <1>1, <1>2, <2>2, AskRefreshKeeps
  <2>3. CASE /\ tokens # NoTokens /\ gate = "refreshed"
             /\ request' = [request EXCEPT ![r] = With(tokens, r, "retried")]
             /\ UNCHANGED <<tokens, user, refreshes, gate>>
    BY <1>1, <1>2, <2>3, RetryKeeps
  <2> QED
    BY <1>2, <2>1, <2>2, <2>3 DEF AttemptRefresh
<1>3. CASE request[r].at = "retried" /\ Throw({r}) /\ UNCHANGED <<refreshes, gate>>
  BY <1>1, <1>3, ThrowKeeps
<1> QED
  BY <1>2, <1>3 DEF Reject

(* The refresh is answered.                                                *)
LEMMA RefreshedKeeps ==
  ASSUME Session, Refreshed, shell' = shell
  PROVE  Session'
<1> DEFINE pair == [login |-> Head(refreshes), fresh |-> TRUE]
<1>1. refreshes # <<>> /\ Len(refreshes) = 1 /\ gate = "pending"
  BY DEF Refreshed, Session, Gated
<1>2. /\ pair \in Pair /\ pair.login = Head(refreshes)
      /\ refreshes' = <<>>
  BY <1>1 DEF Session, SessionType, Refreshed, Pair
<1>3. /\ tokens' = pair
      /\ request' = [r \in Requests |->
                       IF r \in Waiting THEN With(pair, r, "retried") ELSE request[r]]
      /\ gate' = "refreshed" /\ UNCHANGED <<user, logins, overlapped>>
  BY DEF Refreshed
<1> HIDE DEF pair
<1>4. \A r \in Requests :
        /\ With(pair, r, "retried") \in Answer
        /\ With(pair, r, "retried").at = "retried"
        /\ r \notin Queries => With(pair, r, "retried").login = pair.login
  BY <1>2, WithType, NoPair
<1>5. request' \in [Requests -> Answer]
  BY <1>3, <1>4 DEF Session, SessionType
<1>6. \A r \in Requests :
        IF request[r].at = "waiting"
        THEN request'[r].at = "retried" /\ (r \notin Queries => request'[r].login = pair.login)
        ELSE request'[r] = request[r]
  BY <1>3, <1>4 DEF Waiting
<1>7. SessionType'
  BY <1>2, <1>3, <1>5 DEF Session, SessionType
<1>8. Gated'
  BY <1>2, <1>3, <1>6 DEF Session, Gated
<1>9. Ordered'
  BY <1>3, <1>6, Names DEF Session, Ordered, Busy
<1>10. (overlapped \/ Owned)'
  <2>1. CASE overlapped
    BY <2>1, <1>3
  <2>2. CASE ~overlapped
    <3>1. Owned /\ pair.login = tokens.login /\ tokens # NoTokens
      BY <2>2, <1>1, <1>2 DEF Session, Owned
    <3>2. \A r \in Requests : (Busy(r))' <=> Busy(r)
      BY <1>6 DEF Busy
    <3>3. \A p \in {"boot", "signin"} : (Sent(p))' => request'[p].login = pair.login
      BY <3>1, <1>6, Names DEF Owned, Sent
    <3> QED
      BY <3>1, <3>2, <3>3, <1>2, <1>3, Names DEF Owned
  <2> QED
    BY <2>1, <2>2
<1> QED
  BY <1>7, <1>8, <1>9, <1>10 DEF Session

(* The refresh fails.                                                      *)
LEMMA RefreshFailsKeeps ==
  ASSUME Session, RefreshFails, shell' = shell
  PROVE  Session'
<1>1. refreshes' = <<>>
  BY DEF RefreshFails, Session, SessionType, Gated
<1>2. /\ request' = [r \in Requests |-> IF r \in Waiting THEN Idle ELSE request[r]]
      /\ tokens' = NoTokens /\ user' = 0
      /\ gate' = "failed" /\ UNCHANGED <<logins, overlapped>>
  BY DEF RefreshFails, GiveUp
<1>3. /\ request' \in [Requests -> Answer]
      /\ \A r \in Requests : r \in Waiting => request'[r] = Idle
      /\ \A r \in Requests : r \notin Waiting => request'[r] = request[r]
  BY <1>2, SomeEnd DEF Session, SessionType
<1>4. \A r \in Requests : IF request[r].at = "waiting" THEN request'[r] = Idle
                                                      ELSE request'[r] = request[r]
  BY <1>3 DEF Waiting
<1>6. SessionType'
  BY <1>1, <1>2, <1>3, Names DEF Session, SessionType
<1>7. Gated'
  BY <1>1, <1>2, <1>4, FixedAnswers DEF Session, Gated
<1>8. Ordered'
  BY <1>2, <1>4, FixedAnswers, Names DEF Session, Ordered, Busy
<1>9. (overlapped \/ Owned)'
  BY <1>1, <1>2, <1>4, FixedAnswers, Names DEF Session, Owned, Busy, Sent
<1> QED
  BY <1>6, <1>7, <1>8, <1>9 DEF Session

(* The result of the refresh is forgotten.                                 *)
LEMMA ReleaseKeeps ==
  ASSUME Session, ReleaseGate, shell' = shell
  PROVE  Session'
<1>1. /\ gate # "pending" /\ gate' = "none"
      /\ UNCHANGED <<tokens, user, request, refreshes, logins, overlapped>>
  BY DEF ReleaseGate
<1>6. SessionType'
  BY <1>1 DEF Session, SessionType
<1>7. Gated'
  BY <1>1 DEF Session, Gated
<1>8. Ordered'
  BY <1>1 DEF Session, Ordered, Busy
<1>9. (overlapped \/ Owned)'
  BY <1>1 DEF Session, Owned, Busy, Sent
<1> QED
  BY <1>6, <1>7, <1>8, <1>9 DEF Session

(* Somebody signs in.                                                      *)
LEMMA SignInKeeps ==
  ASSUME Session, SignIn, shell' = shell
  PROVE  Session'
<1>1. /\ request' = [request EXCEPT !["signin"] = Posted]
      /\ user = 0 /\ logins < MaxLogins /\ ~Busy("signin")
      /\ overlapped' = (overlapped \/ Pending)
      /\ UNCHANGED <<tokens, user, refreshes, gate, logins>>
  BY FixedAnswers DEF SignIn, Busy
<1>2. /\ request' \in [Requests -> Answer] /\ request'["signin"] = Posted
      /\ \A o \in Requests : o # "signin" => request'[o] = request[o]
  BY <1>1, FixedAnswers, Names, OneChanges DEF Session, SessionType
<1>3. overlapped' \in BOOLEAN /\ (~overlapped' => ~overlapped /\ ~Pending)
  BY <1>1 DEF Session, SessionType
<1>6. SessionType'
  BY <1>1, <1>2, <1>3 DEF Session, SessionType
<1>7. Gated'
  BY <1>1, <1>2, FixedAnswers DEF Session, Gated
<1>8. Ordered'
  BY <1>1, <1>2, FixedAnswers, Names DEF Session, Ordered, Busy
<1>9. (overlapped \/ Owned)'
  <2>1. SUFFICES ASSUME ~overlapped' PROVE Owned'
    OBVIOUS
  <2>2. Owned /\ refreshes = <<>> /\ ~Busy("boot")
    BY <2>1, <1>3, FixedAnswers DEF Session, Pending, Busy
  <2> QED
    BY <2>2, <1>1, <1>2, FixedAnswers, Names DEF Owned, Busy, Sent
<1> QED
  BY <1>6, <1>7, <1>8, <1>9 DEF Session

(* The server has accepted the sign-in.                                    *)
LEMMA AcceptedKeeps ==
  ASSUME Session, SignInAccepted, shell' = shell
  PROVE  Session'
<1> DEFINE pair == [login |-> logins + 1, fresh |-> TRUE]
           x == With(pair, "signin", "sent")
<1>1. /\ request["signin"].at = "posted" /\ logins' = logins + 1
      /\ tokens' = pair
      /\ request' = [request EXCEPT !["signin"] = x]
      /\ overlapped' = (overlapped \/ Pending)
      /\ UNCHANGED <<user, refreshes, gate>>
  BY DEF SignInAccepted
<1>2. logins + 1 \in 1..MaxLogins
  BY <1>1, Names DEF Session, SessionType, Ordered
<1>3. pair \in Pair /\ pair.login = logins + 1
  BY <1>2 DEF Pair, Logins
<1> HIDE DEF pair
<1>4. x \in Answer /\ x.at = "sent" /\ x.login = pair.login
  BY <1>3, WithType, NoPair, Names
<1> HIDE DEF x
<1>5. /\ request' \in [Requests -> Answer] /\ request'["signin"] = x
      /\ \A o \in Requests : o # "signin" => request'[o] = request[o]
  BY <1>1, <1>4, Names, OneChanges DEF Session, SessionType
<1>6. overlapped' \in BOOLEAN /\ (~overlapped' => ~overlapped /\ ~Pending)
  BY <1>1 DEF Session, SessionType
<1>7. SessionType'
  BY <1>1, <1>2, <1>3, <1>5, <1>6 DEF Session, SessionType
<1>8. Gated'
  BY <1>1, <1>4, <1>5 DEF Session, Gated
<1>9. Ordered'
  BY <1>1, <1>4, <1>5, Names DEF Session, Ordered, Busy
<1>10. (overlapped \/ Owned)'
  <2>1. SUFFICES ASSUME ~overlapped' PROVE Owned'
    OBVIOUS
  <2>2. Owned /\ refreshes = <<>> /\ ~Busy("boot")
    BY <2>1, <1>6, FixedAnswers DEF Session, Pending, Busy
  <2>3. user = 0
    BY <2>2, <1>1 DEF Owned, Busy
  <2> QED
    BY <2>2, <2>3, <1>1, <1>4, <1>5, Names DEF Owned, Busy, Sent
<1> QED
  BY <1>7, <1>8, <1>9, <1>10 DEF Session

(* The operator signs out.                                                 *)
LEMMA SignOutKeeps ==
  ASSUME Session, SignOut, shell' = shell
  PROVE  Session'
<1>1. /\ tokens' = NoTokens /\ user' = 0
      /\ overlapped' = (overlapped \/ Pending)
      /\ UNCHANGED <<request, refreshes, gate, logins>>
  BY DEF SignOut
<1>2. overlapped' \in BOOLEAN /\ (~overlapped' => ~overlapped /\ ~Pending)
  BY <1>1 DEF Session, SessionType
<1>6. SessionType'
  BY <1>1, <1>2, Names DEF Session, SessionType
<1>7. Gated'
  BY <1>1 DEF Session, Gated
<1>8. Ordered'
  BY <1>1 DEF Session, Ordered, Busy
<1>9. (overlapped \/ Owned)'
  BY <1>1, <1>2 DEF Session, Owned, Busy, Sent, Pending
<1> QED
  BY <1>6, <1>7, <1>8, <1>9 DEF Session

(* The access token expires.                                               *)
LEMMA ExpireKeeps ==
  ASSUME Session, Expire, shell' = shell
  PROVE  Session'
<1>1. /\ tokens # NoTokens /\ tokens \in Pair
      /\ tokens' = [tokens EXCEPT !.fresh = FALSE]
      /\ UNCHANGED <<user, request, refreshes, gate, logins, overlapped>>
  BY DEF Expire, Session, SessionType
<1>2. tokens' \in Pair /\ tokens'.login = tokens.login
  <2>1. tokens.login \in Logins
    BY <1>1 DEF Pair
  <2>2. tokens' = [tokens EXCEPT !.fresh = FALSE]
    BY <1>1
  <2>3. ASSUME NEW p \in [login : Logins, fresh : BOOLEAN]
        PROVE  /\ [p EXCEPT !.fresh = FALSE] \in [login : Logins, fresh : BOOLEAN]
               /\ [p EXCEPT !.fresh = FALSE].login = p.login
    OBVIOUS
  <2> QED
    BY <1>1, <2>2, <2>3, Zenon DEF Pair
<1>6. SessionType'
  BY <1>1, <1>2 DEF Session, SessionType
<1>7. Gated'
  BY <1>1 DEF Session, Gated
<1>8. Ordered'
  BY <1>1 DEF Session, Ordered, Busy
<1>9. (overlapped \/ Owned)'
  <2>1. CASE overlapped
    BY <2>1, <1>1
  <2>2. CASE ~overlapped
    <3>1. Owned
      BY <2>2 DEF Session
    <3>2. \A r \in Requests : ((Busy(r))' <=> Busy(r)) /\ ((Sent(r))' <=> Sent(r))
      BY <1>1 DEF Busy, Sent
    <3>3. \A p \in {"boot", "signin"} :
            (Sent(p))' /\ tokens' # NoTokens => request'[p].login = tokens'.login
      BY <3>1, <3>2, <1>1, <1>2, Names DEF Owned
    <3> QED
      BY <3>1, <3>2, <3>3, <1>1, <1>2, NoPair, Names DEF Owned
  <2> QED
    BY <2>1, <2>2
<1> QED
  BY <1>6, <1>7, <1>8, <1>9 DEF Session

(* The page is loaded afresh, and everything begins with what is stored.   *)
LEMMA LoadKeeps ==
  ASSUME Session, Load, shell' = FALSE
  PROVE  Session'
<1> DEFINE x == With(tokens, "boot", "sent")
<1>1. /\ user' = 0 /\ refreshes' = <<>> /\ gate' = "none" /\ overlapped' = FALSE
      /\ UNCHANGED <<tokens, logins>>
  BY DEF Load
<1>2. x \in Answer /\ x.at = "sent" /\ (tokens # NoTokens => x.login = tokens.login)
  BY WithType, Names DEF Session, SessionType
<1>3. /\ request' \in [Requests -> Answer]
      /\ request'["boot"] = IF tokens # NoTokens THEN x ELSE Idle
      /\ \A r \in Requests : r # "boot" => request'[r] = Idle
  <2>1. request' = [r \in Requests |->
                     IF r = "boot" /\ tokens # NoTokens THEN With(tokens, r, "sent") ELSE Idle]
    BY DEF Load
  <2>2. \A r \in Requests :
          request'[r] = IF r = "boot" /\ tokens # NoTokens THEN x ELSE Idle
    BY <2>1
  <2>3. request' = [r \in Requests |-> request'[r]]
    BY <2>1
  <2> HIDE DEF x
  <2>4. \A r \in Requests : request'[r] \in Answer
    BY <2>2, <1>2, FixedAnswers
  <2>5. request' \in [Requests -> Answer]
    BY <2>3, <2>4, Zenon
  <2> QED
    BY <2>2, <2>5, Names
<1> HIDE DEF x
<1>4. SessionType
  BY DEF Session
<1>5. /\ request' \in [Requests -> Answer] /\ 0 \in 0..MaxLogins
      /\ <<>> \in Seq(Logins)
  BY <1>3, Names
<1>6. SessionType'
  BY <1>1, <1>4, <1>5, Zenon DEF SessionType
<1>7. \A r \in Requests : request'[r].at # "waiting"
  BY <1>2, <1>3, FixedAnswers
<1>8. Gated'
  BY <1>1, <1>7 DEF Gated
<1>9. Ordered'
  BY <1>1, <1>2, <1>3, FixedAnswers, Names DEF Ordered, Busy
<1>10. (overlapped \/ Owned)'
  BY <1>1, <1>2, <1>3, FixedAnswers, Names DEF Owned, Busy, Sent
<1> QED
  BY <1>6, <1>8, <1>9, <1>10 DEF Session
-----------------------------------------------------------------------------
LEMMA SessionKeeps ==
  ASSUME Session, SessionNext, shell' = shell
  PROVE  Session'
<1>1. CASE \E q \in Queries : Ask(q)
  BY <1>1, AskKeeps
<1>2. CASE \E r \in Requests : Succeed(r)
  BY <1>2, SucceedKeeps
<1>3. CASE \E r \in Requests : Fail(r)
  <2>1. PICK r \in Requests : Fail(r)
    BY <1>3
  <2> QED
    BY <2>1, ThrowKeeps DEF Fail, Sent
<1>4. CASE \E r \in Requests : Reject(r)
  BY <1>4, RejectKeeps
<1>5. CASE SignInRefused
  BY <1>5, ThrowKeeps, Names DEF SignInRefused
<1> QED
  BY <1>1, <1>2, <1>3, <1>4, <1>5, RefreshedKeeps, RefreshFailsKeeps, ReleaseKeeps,
     SignInKeeps, AcceptedKeeps, SignOutKeeps, ExpireKeeps DEF SessionNext

(* The pages appear only after the page load is over.                      *)
LEMMA ShellKeeps ==
  ASSUME Session, UNCHANGED sessionVars, shell' = TRUE => shell \/ Shown
  PROVE  Session'
<1>1. UNCHANGED <<tokens, user, request, refreshes, gate, logins, overlapped>>
  BY DEF sessionVars
<1>2. Shown => ~Busy("boot")
  BY FixedAnswers DEF Shown, Busy
<1>3. SessionType'
  BY <1>1 DEF Session, SessionType
<1>4. Gated'
  BY <1>1 DEF Session, Gated
<1>5. Ordered'
  BY <1>1, <1>2 DEF Session, Ordered, Busy
<1>6. (overlapped \/ Owned)'
  BY <1>1 DEF Session, Owned, Busy, Sent
<1> QED
  BY <1>3, <1>4, <1>5, <1>6 DEF Session

LEMMA ConnectType ==
  ASSUME LiveType, Connect
  PROVE  /\ sock' \in [Sockets -> SocketState] /\ socket' \in Sockets \cup {NoSocket}
         /\ closed' \in BOOLEAN /\ status' \in {"off", "open"}
<1>1. CASE UNCHANGED <<sock, socket, closed, status>>
  BY <1>1 DEF LiveType
<1>2. CASE /\ Free # {} /\ socket' = CHOOSE s \in Free : TRUE
           /\ sock' = [sock EXCEPT ![socket'] = IF tokens.fresh THEN "connecting" ELSE "denied"]
           /\ closed' = FALSE /\ status' = "off"
  <2>1. socket' \in Free
    BY <1>2
  <2>2. socket' \in Sockets
    BY <2>1 DEF Free
  <2> QED
    BY <1>2, <2>2 DEF LiveType, SocketState
<1> QED
  BY <1>1, <1>2 DEF Connect

LEMMA ClosingType ==
  ASSUME NEW states \in [Sockets -> SocketState], NEW s
  PROVE  Closing(states, s) \in [Sockets -> SocketState]
BY DEF Closing, SocketState

LEMMA OnCloseType ==
  ASSUME LiveType, OnClose
  PROVE  /\ socket' \in Sockets \cup {NoSocket} /\ status' \in {"off", "open"}
         /\ timer' \in BOOLEAN /\ strays' \in Nat
<1>1. CASE UNCHANGED <<timer, strays>>
  BY <1>1 DEF OnClose, LiveType
<1>2. CASE timer' = TRUE /\ strays' = IF timer THEN strays + 1 ELSE strays
  <2>1. strays \in Nat /\ strays + 1 \in Nat
    BY DEF LiveType
  <2> QED
    BY <1>2, <2>1 DEF OnClose
<1> QED
  BY <1>1, <1>2 DEF OnClose

LEMMA LiveKeeps ==
  ASSUME LiveType, LiveNext
  PROVE  LiveType' /\ (shell' = TRUE => shell \/ Shown)
<1>1. CASE Mount
  BY <1>1, ConnectType DEF Mount, LiveType
<1>2. CASE Unmount
  BY <1>2, ClosingType DEF Unmount, LiveType
<1>3. CASE Retry
  BY <1>3, ConnectType DEF Retry, LiveType
<1>4. CASE RetryStray
  BY <1>4, ConnectType DEF RetryStray, LiveType
<1>5. ASSUME NEW s \in Sockets, OnOpen(s)
      PROVE  LiveType' /\ (shell' = TRUE => shell \/ Shown)
  BY <1>5 DEF OnOpen, LiveType, SocketState
<1>6. ASSUME NEW s \in Sockets, HandshakeFails(s)
      PROVE  LiveType' /\ (shell' = TRUE => shell \/ Shown)
  <2>1. Closing(sock, socket) \in [Sockets -> SocketState]
    BY ClosingType DEF LiveType
  <2>2. sock' \in [Sockets -> SocketState]
    BY <1>6, <2>1 DEF HandshakeFails, SocketState
  <2> QED
    BY <1>6, <2>2, OnCloseType DEF HandshakeFails, LiveType
<1>7. ASSUME NEW s \in Sockets, CloseEvent(s) \/ Drop(s)
      PROVE  LiveType' /\ (shell' = TRUE => shell \/ Shown)
  <2>1. OnClose /\ UNCHANGED <<shell, closed, late>>
    BY <1>7 DEF CloseEvent, Drop
  <2>2. PICK named : sock' = [Closing(sock, named) EXCEPT ![s] = "none"]
    BY <1>7 DEF CloseEvent, Drop, Closing
  <2>3. Closing(sock, named) \in [Sockets -> SocketState]
    BY ClosingType DEF LiveType
  <2>4. sock' \in [Sockets -> SocketState]
    BY <2>2, <2>3 DEF SocketState
  <2> QED
    BY <2>1, <2>4, OnCloseType DEF LiveType
<1> QED
  BY <1>1, <1>2, <1>3, <1>4, <1>5, <1>6, <1>7 DEF LiveNext
-----------------------------------------------------------------------------
LEMMA InitInv == Init => Inv
<1> SUFFICES ASSUME Init PROVE Inv
  OBVIOUS
<1>1. \A r \in Requests : request[r] = Idle
  BY DEF Init, SessionInit
<1>2. SessionType
  <2>1. request \in [Requests -> Answer]
    BY FixedAnswers DEF Init, SessionInit
  <2>2. 0 \in 0..MaxLogins /\ <<>> \in Seq(Logins)
    BY Names
  <2> QED
    BY <2>1, <2>2 DEF Init, SessionInit, SessionType
<1>3. LiveType
  BY DEF Init, SessionInit, LiveInit, LiveType, SocketState
<1>4. Gated
  BY <1>1, FixedAnswers DEF Init, SessionInit, Gated
<1>5. Ordered
  BY <1>1, FixedAnswers, Names DEF Init, SessionInit, Ordered, Busy
<1>6. Owned
  BY <1>1, FixedAnswers, Names DEF Init, SessionInit, Owned, Busy, Sent
<1> QED
  BY <1>2, <1>3, <1>4, <1>5, <1>6 DEF Inv

LEMMA NextInv == Inv /\ [Next]_vars => Inv'
<1> SUFFICES ASSUME Inv, [Next]_vars PROVE Inv'
  OBVIOUS
<1>0. Session /\ LiveType
  BY DEF Inv, Session
<1>1. CASE SessionNext /\ UNCHANGED liveVars
  <2>1. LiveType' /\ shell' = shell
    BY <1>0, <1>1 DEF liveVars, LiveType
  <2> QED
    BY <1>0, <1>1, <2>1, SessionKeeps DEF Inv, Session
<1>2. CASE LiveNext /\ UNCHANGED sessionVars
  BY <1>0, <1>2, LiveKeeps, ShellKeeps DEF Inv, Session
<1>3. CASE Reload
  <2>1. LiveType' /\ shell' = FALSE
    BY <1>0, <1>3 DEF Reload, LiveLost, LiveType, SocketState
  <2> QED
    BY <1>0, <1>3, <2>1, LoadKeeps DEF Inv, Session, Reload
<1>4. CASE UNCHANGED vars
  <2>1. UNCHANGED sessionVars /\ UNCHANGED liveVars
    BY <1>4 DEF vars
  <2>2. LiveType' /\ shell' = shell
    BY <1>0, <2>1 DEF liveVars, LiveType
  <2> QED
    BY <1>0, <2>1, <2>2, ShellKeeps DEF Inv, Session
<1> QED
  BY <1>1, <1>2, <1>3, <1>4 DEF Next

(* Every variable of the console has its type (api.ts, auth.tsx, live.ts). *)
THEOREM TypesStay == Spec => []TypeOK
<1>1. Inv => TypeOK
  BY DEF Inv, SessionType, LiveType, TypeOK, Answer
<1> QED
  BY <1>1, InitInv, NextInv, PTL DEF Spec

(* attemptRefresh: requests refused together share one refresh, and nobody *)
(* waits for a refresh that is not under way.                              *)
THEOREM RefreshShared == Spec => []OneRefresh
<1>1. Inv => OneRefresh
  <2> SUFFICES ASSUME Inv PROVE OneRefresh
    OBVIOUS
  <2>1. Len(refreshes) <= 1
    <3>1. refreshes \in Seq(Logins)
      BY DEF Inv, SessionType
    <3>2. refreshes = <<>> \/ Len(refreshes) = 1
      BY DEF Inv, Gated
    <3>3. Len(refreshes) = 0 \/ Len(refreshes) = 1
      BY <3>1, <3>2
    <3>4. 0 <= 1 /\ 1 <= 1
      OBVIOUS
    <3> QED
      BY <3>3, <3>4, Zenon
  <2>2. Waiting # {} => refreshes # <<>>
    BY DEF Inv, Gated, Waiting
  <2> QED
    BY <2>1, <2>2 DEF OneRefresh
<1> QED
  BY <1>1, InitInv, NextInv, PTL DEF Spec

(* What AuthProvider shows and what request() sends belong to one sign-in, *)
(* unless a call of another session was still under way.                   *)
THEOREM OperatorAgrees == Spec => []OneOperator
<1>1. Inv => OneOperator
  BY DEF Inv, Owned, OneOperator, SameOperator
<1> QED
  BY <1>1, InitInv, NextInv, PTL DEF Spec
-----------------------------------------------------------------------------
(* Until AppShell connects too early there is one object in use: the one   *)
(* socket names, or one that was closed with the pages and will not be     *)
(* tried again.  A timer runs only when none is in use.                    *)
InUse(s) == sock[s] # "none"

Named ==
  /\ strays = 0
  /\ ~shell => /\ socket = NoSocket /\ ~timer
               /\ closed \/ \A s \in Sockets : ~InUse(s)
  /\ timer => socket = NoSocket /\ \A s \in Sockets : ~InUse(s)
  /\ socket # NoSocket => sock[socket] \in {"connecting", "denied", "open"}
  /\ \A s \in Sockets : InUse(s) /\ s # socket =>
       /\ sock[s] \in {"closing", "failing"}
       /\ socket = NoSocket /\ closed
       /\ \A o \in Sockets : InUse(o) => o = s

FeedInv == LiveType /\ (late \/ Named)

(* One call of connect() when no object is in use.                         *)
LEMMA ConnectNamed ==
  ASSUME LiveType, socket = NoSocket, \A s \in Sockets : ~InUse(s), Connect,
         shell' = TRUE, timer' = FALSE, strays' = 0
  PROVE  Named'
<1>1. CASE UNCHANGED <<sock, socket, closed, status>>
  BY <1>1, LiveAssumption DEF Named, InUse
<1>2. CASE /\ Free # {} /\ socket' = CHOOSE s \in Free : TRUE
           /\ sock' = [sock EXCEPT ![socket'] = IF tokens.fresh THEN "connecting" ELSE "denied"]
           /\ closed' = FALSE /\ status' = "off"
  <2>1. socket' \in Free
    BY <1>2
  <2>2. socket' \in Sockets
    BY <2>1 DEF Free
  <2>3. sock'[socket'] \in {"connecting", "denied"}
    BY <1>2, <2>2 DEF LiveType
  <2>4. \A s \in Sockets : s # socket' => sock'[s] = "none"
    BY <1>2, <2>2 DEF LiveType, InUse
  <2> QED
    BY <2>2, <2>3, <2>4, LiveAssumption DEF Named, InUse
<1> QED
  BY <1>1, <1>2 DEF Connect

(* The object in use comes to its end.                                     *)
LEMMA EndNamed ==
  ASSUME LiveType, Named, NEW s \in Sockets, InUse(s), OnClose,
         UNCHANGED <<shell, closed>>,
         \A o \in Sockets : o # s => sock'[o] \in {"none", sock[o]}, sock'[s] = "none",
         closed \/ s = socket
  PROVE  Named'
<1>1. \A o \in Sockets : InUse(o) => o = s
  BY LiveAssumption DEF Named, LiveType
<1>2. \A o \in Sockets : ~(InUse(o))'
  BY <1>1 DEF InUse
<1>3. socket' = NoSocket
  BY DEF OnClose
<1>4. ~timer /\ strays = 0
  BY DEF Named
<1>5. strays' = 0 /\ (closed => ~timer')
  BY <1>4 DEF OnClose, LiveType
<1>6. ~shell' => ~timer'
  <2>1. ~shell => closed
    BY DEF Named
  <2> QED
    BY <2>1, <1>5
<1> QED
  BY <1>2, <1>3, <1>5, <1>6, LiveAssumption DEF Named

LEMMA UnmountNamed ==
  ASSUME LiveType, Named, Unmount
  PROVE  Named'
<1>1. /\ shell' = FALSE /\ closed' = TRUE /\ timer' = FALSE /\ socket' = NoSocket
      /\ strays' = strays /\ sock' = Closing(sock, socket)
  BY DEF Unmount
<1>2. CASE socket = NoSocket
  <2>1. sock' = sock
    BY <1>1, <1>2 DEF Closing
  <2> QED
    BY <1>1, <1>2, <2>1 DEF Named, InUse
<1>3. CASE socket # NoSocket
  <2>1. socket \in Sockets /\ \A o \in Sockets : InUse(o) => o = socket
    BY <1>3 DEF Named, LiveType
  <2>2. sock' = [sock EXCEPT ![socket] = CASE sock[socket] = "open" -> "closing"
                               [] sock[socket] \in {"connecting", "denied"} -> "failing"
                               [] OTHER -> sock[socket]]
    BY <1>1, <1>3 DEF Closing
  <2>3. sock'[socket] \in {"closing", "failing"}
    BY <2>1, <2>2, <1>3 DEF LiveType, Named
  <2>4. \A o \in Sockets : o # socket => sock'[o] = sock[o]
    BY <2>1, <2>2 DEF LiveType
  <2> QED
    BY <1>1, <1>3, <2>1, <2>3, <2>4 DEF Named, InUse
<1> QED
  BY <1>2, <1>3

LEMMA SocketNamed ==
  ASSUME LiveType, Named, NEW s \in Sockets,
         OnOpen(s) \/ HandshakeFails(s) \/ CloseEvent(s) \/ Drop(s)
  PROVE  Named'
<1>0. \A o \in Sockets : sock[o] \in {"connecting", "denied", "open"} => o = socket
  BY DEF Named, InUse
<1>1. CASE OnOpen(s)
  <2>1. s = socket
    BY <1>0, <1>1 DEF OnOpen
  <2>2. /\ sock'[s] = "open" /\ \A o \in Sockets : o # s => sock'[o] = sock[o]
        /\ sock[s] = "connecting"
    BY <1>1 DEF OnOpen, LiveType
  <2>3. UNCHANGED <<shell, socket, timer, strays, closed>>
    BY <1>1 DEF OnOpen
  <2> QED
    BY <2>1, <2>2, <2>3 DEF Named, InUse
<1>2. CASE HandshakeFails(s)
  <2>1. /\ sock[s] \in {"denied", "failing"} /\ OnClose /\ UNCHANGED <<shell, closed>>
        /\ sock' = [Closing(sock, socket) EXCEPT ![s] = "none"]
    BY <1>2 DEF HandshakeFails
  <2>2. InUse(s) /\ (closed \/ s = socket)
    BY <2>1, <1>0 DEF Named, InUse
  <2>3. \A o \in Sockets : o # s => sock[o] = "none"
    BY <2>2, LiveAssumption DEF Named, InUse, LiveType
  <2>4. Closing(sock, socket) \in [Sockets -> SocketState]
    BY ClosingType DEF LiveType
  <2>5. \A o \in Sockets : sock[o] = "none" => Closing(sock, socket)[o] = "none"
    BY DEF Closing, LiveType
  <2>6. sock'[s] = "none" /\ \A o \in Sockets : o # s => sock'[o] = "none"
    BY <2>1, <2>3, <2>4, <2>5
  <2> QED
    BY <2>1, <2>2, <2>6, EndNamed
<1>3. CASE CloseEvent(s)
  <2>1. sock[s] = "closing" /\ OnClose /\ UNCHANGED <<shell, closed>>
    BY <1>3 DEF CloseEvent
  <2>2. sock'[s] = "none" /\ \A o \in Sockets : o # s => sock'[o] = sock[o]
    BY <1>3 DEF CloseEvent, LiveType
  <2>3. InUse(s) /\ closed
    <3>1. s # NoSocket /\ s # socket
      BY <2>1, LiveAssumption DEF Named
    <3> QED
      BY <2>1, <3>1 DEF Named, InUse
  <2> QED
    BY <2>1, <2>2, <2>3, EndNamed
<1>4. CASE Drop(s)
  <2>1. OnClose /\ UNCHANGED <<shell, closed>>
    BY <1>4 DEF Drop
  <2>2. PICK named \in {NoSocket, socket} :
          /\ sock[s] = "open" \/ (sock[s] = "closing" /\ named # NoSocket)
          /\ sock' = [Closing(sock, named) EXCEPT ![s] = "none"]
    BY <1>4 DEF Drop
  <2>3. sock[s] = "open"
    <3>1. sock[s] = "closing" => s # socket /\ socket = NoSocket
      BY LiveAssumption DEF Named, InUse
    <3> QED
      BY <2>2, <3>1
  <2>4. InUse(s) /\ s = socket
    BY <2>3, <1>0 DEF InUse
  <2>5. \A o \in Sockets : o # s => sock'[o] = sock[o]
    BY <2>2, <2>4 DEF Closing, LiveType
  <2>6. sock'[s] = "none"
    <3>1. Closing(sock, named) \in [Sockets -> SocketState]
      BY ClosingType DEF LiveType
    <3> QED
      BY <2>2, <3>1
  <2> QED
    BY <2>1, <2>4, <2>5, <2>6, EndNamed
<1> QED
  BY <1>1, <1>2, <1>3, <1>4

LEMMA FeedInit == Init => FeedInv
<1> SUFFICES ASSUME Init PROVE FeedInv
  OBVIOUS
<1>1. Inv
  BY InitInv
<1>2. Named
  BY DEF Init, SessionInit, LiveInit, Named, InUse
<1> QED
  BY <1>1, <1>2 DEF Inv, FeedInv

LEMMA FeedNext == FeedInv /\ [Next]_vars => FeedInv'
<1> SUFFICES ASSUME FeedInv, [Next]_vars PROVE FeedInv'
  OBVIOUS
<1>0. LiveType /\ (late \/ Named)
  BY DEF FeedInv
<1>1. CASE UNCHANGED liveVars
  BY <1>0, <1>1 DEF FeedInv, LiveType, Named, InUse, liveVars
<1>2. CASE LiveNext
  <2>1. LiveType'
    BY <1>0, <1>2, LiveKeeps
  <2>2. CASE late
    <3>1. late'
      BY <1>2, <2>2 DEF LiveNext, Mount, Unmount, Retry, RetryStray, OnOpen, HandshakeFails,
                        CloseEvent, Drop
    <3> QED
      BY <2>1, <3>1 DEF FeedInv
  <2>3. CASE ~late
    <3>1. Named
      BY <1>0, <2>3
    <3>2. CASE Mount
      <4>1. SUFFICES ASSUME ~late' PROVE Named'
        BY <2>1 DEF FeedInv
      <4>2. \A s \in Sockets : ~InUse(s)
        BY <3>2, <4>1 DEF Mount, InUse
      <4>3. socket = NoSocket /\ timer = FALSE /\ strays = 0
        BY <3>1, <3>2, <1>0 DEF Mount, Named, LiveType
      <4> QED
        BY <1>0, <3>2, <4>2, <4>3, ConnectNamed DEF Mount
    <3>3. CASE Unmount
      BY <1>0, <2>1, <3>1, <3>3, UnmountNamed DEF FeedInv
    <3>4. CASE Retry
      <4>1. timer /\ shell /\ socket = NoSocket /\ strays = 0
        BY <3>1, <3>4 DEF Retry, Named
      <4>2. \A s \in Sockets : ~InUse(s)
        BY <3>1, <4>1 DEF Named
      <4>3. shell' = TRUE /\ timer' = FALSE /\ strays' = 0 /\ Connect
        BY <1>0, <3>4, <4>1 DEF Retry, LiveType
      <4> QED
        BY <1>0, <2>1, <4>1, <4>2, <4>3, ConnectNamed DEF FeedInv
    <3>5. CASE RetryStray
      BY <3>1, <3>5 DEF RetryStray, Named
    <3>6. CASE \E s \in Sockets : OnOpen(s) \/ HandshakeFails(s) \/ CloseEvent(s) \/ Drop(s)
      BY <1>0, <2>1, <3>1, <3>6, SocketNamed DEF FeedInv
    <3> QED
      BY <1>2, <3>2, <3>3, <3>4, <3>5, <3>6 DEF LiveNext
  <2> QED
    BY <2>2, <2>3
<1>3. CASE Reload
  BY <1>0, <1>3 DEF Reload, LiveLost, FeedInv, LiveType, Named, InUse, SocketState
<1> QED
  BY <1>1, <1>2, <1>3 DEF Next, vars

(* live.ts: whatever closes, drops or reconnects, no socket but the named  *)
(* one feeds the buffer, as long as the pages were never shown again       *)
(* before the end of the last socket was known.                            *)
THEOREM OneSocket == Spec => []OneFeed
<1>1. FeedInv => OneFeed
  <2> SUFFICES ASSUME FeedInv, ~late PROVE Live \subseteq {socket}
    BY DEF OneFeed, OneSocketOnly
  <2>1. Named
    BY DEF FeedInv
  <2> QED
    BY <2>1 DEF Named, InUse, Live
<1> QED
  BY <1>1, FeedInit, FeedNext, PTL DEF Spec
=============================================================================
