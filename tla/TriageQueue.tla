---------------------------- MODULE TriageQueue ---------------------------
(***************************************************************************)
(* What the alerts table promises to those who work on it, one committed   *)
(* transaction after the other: what the machine may do to a story and     *)
(* what only analysts do.  Nothing is said of evidence, approvals, risk or *)
(* how a transaction gets there; a response may take many steps.           *)
(***************************************************************************)
EXTENDS AlertTable

VARIABLE table     (* the alerts as last committed *)

Empty == [a \in AlertIds |-> NoAlert]

Init == table = Empty

(* The alerts of u that t does not have.                                   *)
Added(t, u) == Present(u) \ Present(t)

(* Scoring works on a story nobody has decided: it goes on, is suppressed, *)
(* or is closed when nobody investigates it.                               *)
GoesOn(old, new) ==
  /\ new \in Alert /\ new.identity = old.identity
  /\ \/ new.status \in {old.status, "SUPPRESSED"} /\ new.resolved = old.resolved
     \/ old.status \in {"OPEN", "TRIAGED"} /\ new.status = "CLOSED" /\ new.resolved

(* Containment confirms what was open.                                     *)
IsDecided(old, new) ==
  /\ new \in Alert /\ new.identity = old.identity
  /\ old.resolved => new.resolved
  /\ \/ new.status \in {old.status, "SUPPRESSED"}
     \/ old.status \in {"OPEN", "TRIAGED"} /\ new.status = "CLOSED" /\ new.resolved
     \/ old.status \in OpenStatuses /\ new.status = "CONFIRMED_INCIDENT" /\ new.resolved

(* One scoring, of any identities: the newest undecided story of each goes *)
(* on, and a new one is told only when every other has been decided.       *)
Scored(t, u) ==
  /\ \A a \in Present(t) :
       u[a] = t[a] \/ (IsExisting(t, t[a].identity, a) /\ GoesOn(t[a], u[a]))
  /\ \A a \in Added(t, u) :
       /\ u[a] \in Alert /\ u[a].status \in {"OPEN", "SUPPRESSED"} /\ ~u[a].resolved
       /\ Unresolved(t, u[a].identity) = {}
       /\ \A b \in Present(t) : b < a
       /\ \A b \in Added(t, u) : u[b].identity = u[a].identity => b = a

(* A response to one identity, of any number of actions: verdicts stand,   *)
(* other identities keep their alerts, and before a new story is told all  *)
(* others are decided, also the ones told in between.                      *)
Responded(t, u, i) ==
  /\ \A a \in Present(t) :
       u[a] = t[a] \/ (a \in Unresolved(t, i) /\ IsDecided(t[a], u[a]))
  /\ \A a \in Added(t, u) :
       /\ u[a] \in Alert /\ u[a].identity = i
       /\ \A b \in Present(t) : b < a
       /\ \A b \in AlertsOf(u, i) : b < a => u[b].status \in Terminal

Score == Scored(table, table')

(* The estate is seeded again and scored.                                  *)
Reset == Scored(Empty, table')

(* An analyst may give an alert any status; a verdict is dated.            *)
Decide(a, status) ==
  /\ a \in Present(table)
  /\ table' = [table EXCEPT ![a].status = status,
                            ![a].resolved = @ \/ status \in Terminal]

(* Alerts are put into a case, whatever their status was.                  *)
Investigate(linked) ==
  /\ linked \subseteq Present(table)
  /\ table' = [a \in AlertIds |->
                 IF a \in linked THEN [table[a] EXCEPT !.status = "INVESTIGATING"] ELSE table[a]]

Respond(i) == Responded(table, table', i)

Next ==
  \/ Score \/ Reset
  \/ \E a \in AlertIds, status \in Status : Decide(a, status)
  \/ \E linked \in SUBSET AlertIds : Investigate(linked)
  \/ \E i \in Identities : Respond(i)

Spec == Init /\ [][Next]_table
=============================================================================
