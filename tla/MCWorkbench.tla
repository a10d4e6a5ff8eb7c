---------------------------- MODULE MCWorkbench ----------------------------
(* Values for TLC: an engineer of the core platform with a short history   *)
(* of reading one document store, and events that between them raise every *)
(* vector.  Times are 10:00 and 10:30 on a Monday, and 02:00 the Saturday  *)
(* after.                                                                  *)
EXTENDS Workbench

Monday == 14 * 1440 + 600
HalfPast == Monday + 30
Saturday == 19 * 1440 + 120

MCInstants == {Monday, HalfPast, Saturday}
MCGaps == {0} \cup {t - u : t \in MCInstants, u \in MCInstants}

MCScores == 0..100
MCFactors == 10..95

(* Left of 1000 after a gap of a half-life of 48 hours each.               *)
Left(gap) == CASE gap <= 0 -> 1000 [] gap = 30 -> 993 [] OTHER -> 200

MCDecay == [g \in MCGaps |-> [x \in Risk |-> Larger(RiskFloor, (x * Left(g)) \div 1000)]]
MCFade == [g \in MCGaps |-> Left(g) \div 10]

Gain28 == [s \in 0..100 |->
  CASE s >= 95 -> 23 [] s \in 80..94 -> 17 [] s \in 70..79 -> 13 [] s \in 45..69 -> 4
    [] s \in 38..44 -> 2 [] OTHER -> 0]

MCResources == {"wiki_docs", "kubernetes_cluster_prod", "customer_pii_db", "vault_export_bucket", "audit_stream"}

MCWords ==
  [wiki_docs |-> {"doc"}, kubernetes_cluster_prod |-> {"kubernetes"},
   customer_pii_db |-> {"customer_pii", "customer", "pii", "db"},
   vault_export_bucket |-> {"vault", "bucket"}, audit_stream |-> {}]

MCAssets ==
  [wiki_docs |->
     [tier |-> 1, category |-> "application", production |-> FALSE, team |-> "People Ops", jewel |-> FALSE,
      records |-> 0, scopes |-> {}, pii |-> FALSE, card |-> FALSE, phi |-> FALSE],
   customer_pii_db |->
     [tier |-> 5, category |-> "database", production |-> TRUE, team |-> "Data", jewel |-> TRUE,
      records |-> 4000, scopes |-> {"GDPR", "SOC 2"}, pii |-> TRUE, card |-> FALSE, phi |-> FALSE]]

MCDistance == [p \in {"nowhere", "home", "abroad"} |-> [q \in {"nowhere", "home", "abroad"} |->
                 IF {p, q} = {"home", "abroad"} THEN 8000 ELSE 0]]

Plain ==
  [at |-> 0, type |-> "API_CALL", resource |-> "wiki_docs", action |-> "read", outcome |-> "SUCCESS", tier |-> 1,
   net |-> "office", address |-> "office", asn |-> "", agent |-> "", country |-> "US", place |-> "home",
   device |-> "laptop",
   bytes |-> 0, records |-> 0, offHours |-> FALSE, tags |-> {}]

Deploy == [Plain EXCEPT !.resource = "kubernetes_cluster_prod", !.action = "sudo", !.tier = 4,
             !.tags = {"CHG-7"}, !.offHours = TRUE]
Export == [Plain EXCEPT !.resource = "customer_pii_db", !.action = "export_all", !.tier = 5, !.bytes = 60,
             !.records = 60000, !.net = "hotel", !.address = "tor exit", !.country = "RO",
             !.place = "abroad", !.device = "unknown"]
Wipe == [Plain EXCEPT !.resource = "audit_stream", !.action = "disable_mfa", !.tier = 2,
           !.device = "unknown"]
Collect(n, sensitivity) ==
  [Plain EXCEPT !.resource = "vault_export_bucket", !.action = "query_bulk", !.records = n, !.tier = sensitivity]
Refused == [Plain EXCEPT !.type = "AUTHENTICATION", !.action = "login", !.outcome = "DENIED",
              !.net = "hotel", !.address = "hotel", !.country = "RO", !.place = "abroad"]

MCForms == {Plain, Deploy, Export, Wipe, Collect(6000, 4), Collect(100, 2), Refused}

MCPast == [k \in 1..4 |-> Occurring(Plain, (k + 6) * 1440 + 600)]

MCWho == [name |-> "kim", department |-> "core platform", role |-> "engineer", engineer |-> TRUE,
          privileged |-> FALSE]

Member(name, resources, ceiling, risk) ==
  [name |-> name, department |-> "core platform", role |-> "engineer", risk |-> risk,
   resources |-> resources, ceiling |-> ceiling]

MCPeers == {Member("lee", {"wiki_docs", "kubernetes_cluster_prod"}, 3, 12),
            Member("ada", {"wiki_docs"}, 2, 20)}

MCIndicators == [a \in {"tor exit"} |-> 92]

(* DEFAULT_VECTOR_WEIGHTS.                                                 *)
MCWeight == [temporal |-> 14, resource |-> 22, privilege |-> 20, peer_divergence |-> 13,
             geovelocity |-> 12, volume |-> 11, device |-> 5, intel |-> 3]

Custom(slug, conditions, boost) ==
  [slug |-> slug, conditions |-> conditions, boost |-> boost,
   suppress |-> TRUE, enabled |-> TRUE, builtin |-> FALSE]

MCWritten ==
  {Custom("quiet-collection", Leaf("record_count", "between", <<Number(50), Number(9000)>>), 30),
   Custom("got-through", Not(Leaf("outcome", "eq", <<Word("DENIED")>>)), 10)}

(* A pattern that does not compile, where the probe does not get.          *)
MCBehindABranch ==
  {Custom("sudo-on-cluster",
          AllOf(<<OneOf("action", <<"sudo">>), Leaf("resource", "matches", <<Word("(")>>)>>), 20)}

MCFirst == {r \in BuiltinRules : r.slug \notin {"impossible-travel-session", "threat-intel-match",
              "repeated-authentication-failure", "cross-department-pii-access", "large-egress-volume"}}

Grant(factor, targets, actions, ticket, from) ==
  [factor |-> factor, targets |-> targets, actions |-> actions, ticket |-> ticket,
   from |-> from, until |-> Saturday, active |-> TRUE]

MCGrants ==
  {Grant(25, {}, {}, "", Monday), Grant(40, {"kubernetes", "vault"}, {"sudo", "query_bulk"}, "", Monday),
   Grant(5, {"db"}, {"read"}, "CHG-7", HalfPast)}
=============================================================================
