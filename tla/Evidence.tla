------------------------------ MODULE Evidence ------------------------------
(***************************************************************************)
(* What a scored window is evidence of: the assets an identity touched,    *)
(* what they expose (engine/blast_radius.py), and the ATT&CK techniques    *)
(* its events stand for (engine/mitre.py).  Both are functions of a result *)
(* of Scoring!Correlate.                                                   *)
(***************************************************************************)
EXTENDS Scoring

CONSTANT Assets   (* the catalogue: Assets[r] for the resources it knows    *)

ASSUME EvidenceAssumption ==
  DOMAIN Assets \subseteq Resources /\ \A r \in DOMAIN Assets : Assets[r].records \in Nat
-----------------------------------------------------------------------------
Mentions(r, keywords) == Words[r] \cap keywords # {}

(* The first keyword list that fits the name of a resource.                *)
InferredCategory(r) ==
  CASE Mentions(r, {"iam", "role", "policy", "permission"}) -> "iam"
    [] OTHER ->
       IF Mentions(r, {"secret", "vault", "key", "credential"}) THEN "secret_store"
       ELSE IF Mentions(r, {"sql", "postgres", "database", "db", "warehouse", "snowflake"}) THEN "database"
       ELSE IF Mentions(r, {"s3", "bucket", "datalake", "storage"}) THEN "object_store"
       ELSE IF Mentions(r, {"repo", "github", "gitlab"}) THEN "source_code"
       ELSE IF Mentions(r, {"okta", "sso", "entra", "auth"}) THEN "identity"
       ELSE "application"

(* _infer_asset: a resource outside the catalogue is what its name and one *)
(* event say of it.                                                        *)
Infer(e) ==
  [tier |-> e.tier, category |-> InferredCategory(e.resource), production |-> TRUE,
   team |-> "Unassigned", jewel |-> e.tier >= 5, records |-> e.records, scopes |-> {},
   pii |-> Mentions(e.resource, {"customer", "pii", "user_db", "profile", "email"}),
   card |-> Mentions(e.resource, {"payment", "card", "billing", "stripe"}),
   phi |-> Mentions(e.resource, {"health", "medical", "patient", "phi"})]

(* Mutation: the last event on a resource tells what it is.                *)
Touched_Last(window) ==
  [r \in {window[k].resource : k \in DOMAIN window} |->
     IF r \in DOMAIN Assets THEN Assets[r]
     ELSE Infer(window[Max({k \in DOMAIN window : window[k].resource = r})])]

FirstOn(window, r) ==
  CHOOSE k \in DOMAIN window :
    window[k].resource = r /\ \A j \in DOMAIN window : window[j].resource = r => k <= j

(* _touched_assets: the first event on a resource tells what it is.        *)
Touched(window) ==
  [r \in {window[k].resource : k \in DOMAIN window} |->
     IF r \in DOMAIN Assets THEN Assets[r] ELSE Infer(window[FirstOn(window, r)])]

CostPerRecord(a) ==
  CASE a.phi -> 408
    [] ~a.phi /\ a.card -> 262
    [] ~a.phi /\ ~a.card /\ a.pii -> 165
    [] OTHER -> 48

(* The sum of what a window touches, each resource at the first event on   *)
(* it.                                                                     *)
Added(window, amount, k) ==
  LET r == window[k].resource
  IN  IF FirstOn(window, r) = k THEN amount[r] ELSE 0

Sums(window, amount) ==
  LET sum[k \in 0..Len(window)] ==
        IF k = 0 THEN 0 ELSE sum[k - 1] + Added(window, amount, k)
  IN  sum

SumTouched(window, amount) == Sums(window, amount)[Len(window)]

Exposure(window, touched) ==
  SumTouched(window, [r \in DOMAIN touched |-> touched[r].records * CostPerRecord(touched[r])])

(* Tenths of a point; crown jewels and production weigh more.              *)
Criticality(touched) ==
  LET weight == <<2, 5, 11, 20, 32>>
      of(a) == weight[a.tier] * (IF a.jewel THEN 14 ELSE 10) * (IF a.production THEN 12 ELSE 10)
  IN  Smaller(1000, MapThenSumSet(LAMBDA r : of(touched[r]), DOMAIN touched) \div 10)

BlastScore(touched, risk, privileged) ==
  LET score == (Criticality(touched) * (4500 + 55 * Smaller(100, risk))) \div 100000
  IN  IF privileged THEN Smaller(100, (score * 115) \div 100) ELSE score

ImpactLevel(score) ==
  CASE score >= 80 -> "CATASTROPHIC"
    [] score \in 60..79 -> "SEVERE"
    [] score \in 38..59 -> "MODERATE"
    [] score \in 18..37 -> "LIMITED"
    [] OTHER -> "MINIMAL"

LateralReach(touched, privileged) ==
  LET credentials == {r \in DOMAIN touched :
                        touched[r].category \in {"secret_store", "iam", "identity"} \/ Mentions(r, {"key"})}
  IN  [credentials |-> credentials,
       production |-> {touched[r].production : r \in DOMAIN touched},
       teams |-> {touched[r].team : r \in DOMAIN touched} \ {"Unassigned"},
       systems |-> Cardinality(credentials) * (IF privileged THEN 4 ELSE 2),
       admin |-> \E r \in DOMAIN touched : touched[r].category = "iam"]

(* FRAMEWORK_RULES: framework, what triggers it.                           *)
FrameworkRules ==
  {<<"GDPR", "pii">>, <<"PCI DSS", "card">>, <<"HIPAA", "phi">>, <<"SOC 2", "jewel">>,
   <<"ISO 27001", "privileged">>}

HasFlag(a, flag) == IF flag = "privileged" THEN a.category = "iam" ELSE a[flag]

(* _compliance; a declared scope is named only if no triggered framework   *)
(* has its name.                                                           *)
Compliance(touched, privileged) ==
  LET inScope(flag) == {r \in DOMAIN touched : HasFlag(touched[r], flag)}
      triggered == {f \in FrameworkRules : inScope(f[2]) # {} \/ (f[2] = "privileged" /\ privileged)}
      declared == UNION {touched[r].scopes : r \in DOMAIN touched}
  IN  {[framework |-> f[1], assets |-> inScope(f[2]),
        severity |-> IF f[2] \in {"card", "phi"} THEN "CRITICAL" ELSE "HIGH"] : f \in triggered}
      \cup {[framework |-> s, assets |-> {r \in DOMAIN touched : s \in touched[r].scopes},
             severity |-> "MEDIUM"] : s \in declared \ {f[1] : f \in triggered}}

(* _graph: the identity, the categories it reached, under each its assets. *)
Graph(window, touched) ==
  LET categories == {touched[r].category : r \in DOMAIN touched}
      on(r) == SelectSeq(window, LAMBDA e : e.resource = r)
  IN  [nodes |-> {"identity"} \cup categories \cup DOMAIN touched,
       edges |-> {[source |-> "identity", target |-> c, weight |-> 1] : c \in categories}
         \cup {[source |-> touched[r].category, target |-> r, weight |-> Len(on(r)),
                actions |-> Valued(on(r), LAMBDA e : e.action)] : r \in DOMAIN touched}]

(* BlastRadiusEngine.compute.                                              *)
BlastRadius(window, risk, privileged) ==
  LET touched == Touched(window)
      score == BlastScore(touched, risk, privileged)
      those(flag) == {r \in DOMAIN touched : touched[r][flag]}
  IN  [touched |-> touched, score |-> score, impact |-> ImpactLevel(score),
       jewels |-> those("jewel"), pii |-> those("pii") # {},
       card |-> those("card") # {}, phi |-> those("phi") # {},
       records |-> SumTouched(window, [r \in DOMAIN touched |-> touched[r].records]),
       exposure |-> Exposure(window, touched), reach |-> LateralReach(touched, privileged),
       impacts |-> Compliance(touched, privileged), graph |-> Graph(window, touched)]
-----------------------------------------------------------------------------
(* CATALOG: the techniques of each tactic.                                 *)
EarlyTactics ==
  [initial_access |-> {"T1078", "T1078.004"}, execution |-> {},
   persistence |-> {"T1098", "T1136"}, privilege_escalation |-> {"T1548", "T1484"},
   defense_evasion |-> {"T1562", "T1562.008", "T1070"}]

LateTactics ==
  [credential_access |-> {"T1110", "T1555", "T1552"}, discovery |-> {"T1087"},
   lateral_movement |-> {"T1021"}, collection |-> {"T1213", "T1530", "T1005"},
   command_and_control |-> {}, exfiltration |-> {"T1567", "T1048", "T1020"},
   impact |-> {"T1531", "T1485"}]

Catalog == EarlyTactics @@ LateTactics
Techniques == UNION {Catalog[t] : t \in DOMAIN Catalog}
TacticOf(id) == CHOOSE t \in DOMAIN Catalog : id \in Catalog[t]

ActionTechniques(action) ==
  CASE action = "delete_audit_logs" -> {"T1562.008", "T1070"}
    [] action = "disable_logging" -> {"T1562", "T1562.008"}
    [] action = "disable_mfa" -> {"T1562", "T1098"}
    [] action = "dump_credentials" -> {"T1555", "T1552"}
    [] action = "create_backdoor_user" -> {"T1136", "T1098"}
    [] action = "rotate_root_key" -> {"T1098", "T1548"}
    [] action = "iam_modify" -> {"T1098", "T1484"}
    [] action \in {"attach_policy", "grant_permission"} -> {"T1098"}
    [] action = "create_access_key" -> {"T1098", "T1552"}
    [] action = "assume_role" -> {"T1548", "T1021"}
    [] action = "sudo" -> {"T1548"}
    [] action = "export_all" -> {"T1020", "T1048"}
    [] action = "export" -> {"T1567"}
    [] action = "query_bulk" -> {"T1005", "T1213"}
    [] action = "login" -> {"T1078"}
    [] OTHER -> {}

Telling(x) == x.score >= 30 \/ x.tamper

(* The techniques one scored event stands for, with their confidence.      *)
EventTechniques(x) ==
  LET e == x.event
      confidence == Smaller(98, 45 + x.score \div 2)
      when(P, ids) == IF P THEN ids ELSE {}
      sure == ActionTechniques(e.action)
        \cup when(e.type = "AUTHENTICATION" /\ x.vectors.geovelocity >= 55, {"T1078.004"})
        \cup when(e.tier >= 4 /\ e.records > 5000,
                  {IF Mentions(e.resource, {"s3", "bucket"}) THEN "T1530" ELSE "T1005"})
        \cup when(e.bytes > 5, {"T1048"})
        \cup when(Mentions(e.resource, {"secret", "vault"}), {"T1555"})
      weak == when(Mentions(e.resource, {"schema", "doc"}), {"T1213"})
  IN  IF Telling(x)
      THEN {<<id, confidence>> : id \in sure} \cup {<<id, Larger(50, confidence - 15)>> : id \in weak}
      ELSE {}

(* Signals of the whole window.                                            *)
WindowTechniques(result) ==
  LET denied(x) == Telling(x) /\ x.event.type = "AUTHENTICATION" /\ Denied(x.event)
      when(P, id, confidence) == IF P THEN {<<id, confidence>>} ELSE {}
  IN  when(Count(result.scored, denied) >= 5, "T1110", 70)
      \cup when(result.vectors.geovelocity >= 70, "T1078", 72)
      \cup when(result.vectors.privilege >= 70, "T1548", 70)
      \cup when(result.vectors.volume >= 70, "T1020", 74)

EventEvidence(result) == UNION {EventTechniques(result.scored[k]) : k \in DOMAIN result.scored}

(* map_techniques: each technique with the highest confidence for it.      *)
MapTechniques(result) ==
  LET hits == EventEvidence(result) \cup WindowTechniques(result)
  IN  [id \in {h[1] : h \in hits} \cap Techniques |-> Max({h[2] : h \in {x \in hits : x[1] = id}})]

CoverageMatrix(observed) == [t \in DOMAIN Catalog |-> Catalog[t] \cap observed]
=============================================================================
