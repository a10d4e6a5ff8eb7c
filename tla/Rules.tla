------------------------------- MODULE Rules -------------------------------
(***************************************************************************)
(* The rule language (engine/rules.py): trees of conditions over the facts *)
(* of one event, what a saved rule is checked for, which rules hit, and    *)
(* what their hits add to a score.                                         *)
(*                                                                         *)
(* A tree is evaluated as the code does, one child after the other until   *)
(* one decides, because its outcome may also be an error: a malformed node *)
(* ("syntax", RuleSyntaxError) or an exception of the operator itself      *)
(* ("crash": re.error, which is no RuleSyntaxError).                       *)
(***************************************************************************)
EXTENDS Baseline

CONSTANT BadPatterns   (* texts re.search cannot compile                    *)

(* A value as the operators read it: its text, its number if it has one,   *)
(* and the texts in it if it is a list.  The right side of a condition is  *)
(* a list; one value is a list of one (_iterable).                         *)
Word(s) == [text |-> s, number |-> {}, texts |-> {}]
Number(n) == [text |-> ToString(n), number |-> {n}, texts |-> {}]
Flag(b) == [text |-> IF b THEN "true" ELSE "false", number |-> {IF b THEN 1 ELSE 0}, texts |-> {}]
Listing(words) == [text |-> ToString(words), number |-> {}, texts |-> words]

Truthy(v) == IF v.number = {} THEN v \notin {Word(""), Listing({})} ELSE v.number # {0}

Node(kind, children) == [kind |-> kind, children |-> children]
AllOf(children) == Node("all", children)
AnyOf(children) == Node("any", children)
Not(child) == Node("not", <<child>>)
Leaf(field, op, value) == [kind |-> "leaf", field |-> field, op |-> op, value |-> value]
NotAList == [kind |-> "all of no list"]
Void == [kind |-> "not an object"]
-----------------------------------------------------------------------------
(* A missing number compares as false.                                     *)
Compares(op, left, right) ==
  \E x \in left.number, y \in right.number :
    CASE op = "gt" -> x > y
      [] op = "gte" -> x >= y
      [] op = "lt" -> x < y
      [] op = "lte" -> x <= y

(* Whether text s has the word w in it: the names of resources are known   *)
(* by their keywords, other texts contain only themselves.                 *)
Has(s, w) == s = w \/ (s \in Resources /\ w \in Words[s])

Includes(v, w) == Has(v.text, w) \/ \E text \in v.texts : Has(text, w)

Between(left, bounds) ==
  /\ Len(bounds) = 2
  /\ \E x \in left.number, lo \in bounds[1].number, hi \in bounds[2].number :
       lo <= x /\ x <= hi

Listed(left, right) == \E k \in DOMAIN right : right[k].text = left.text

Operators ==
  {"eq", "ne", "gt", "gte", "lt", "lte", "in", "not_in", "contains", "not_contains",
   "startswith", "endswith", "matches", "is_true", "is_false", "between"}

(* OPERATORS.  Where in a text a word stands is not kept: startswith and   *)
(* endswith read as contains.                                              *)
Holds(op, left, right) ==
  CASE op = "eq" -> left.text = right[1].text
    [] op = "ne" -> left.text # right[1].text
    [] op \in {"gt", "gte", "lt", "lte"} -> Compares(op, left, right[1])
    [] op = "in" -> Listed(left, right)
    [] op = "not_in" -> ~Listed(left, right)
    [] op \in {"contains", "startswith", "endswith", "matches"} -> Includes(left, right[1].text)
    [] op = "not_contains" -> ~Includes(left, right[1].text)
    [] op = "is_true" -> Truthy(left)
    [] op = "is_false" -> ~Truthy(left)
    [] op = "between" -> Between(left, right)

MaxDepth == 8

Outcome(b) == IF b THEN "true" ELSE "false"

EvaluateLeaf(node, facts) ==
  CASE node.field = "" \/ node.op \notin Operators -> "syntax"
    [] OTHER -> IF node.field \notin DOMAIN facts THEN "false"
                ELSE IF node.op = "matches" /\ node.value[1].text \in BadPatterns THEN "crash"
                ELSE Outcome(Holds(node.op, facts[node.field], node.value))

(* The outcome of the first child that is not neutral.                     *)
FirstDecisive(outcomes, neutral) ==
  LET deciding == {k \in DOMAIN outcomes : outcomes[k] # neutral}
  IN  IF deciding = {} THEN neutral
      ELSE outcomes[CHOOSE k \in deciding : \A j \in deciding : k <= j]

Children(node) ==
  IF node.kind \in {"all", "any", "not"}
  THEN {node.children[k] : k \in DOMAIN node.children} ELSE {}

(* The nodes of a tree at each depth, and of a tree that is too deep.      *)
NodesAt(root) ==
  LET at[d \in 0..MaxDepth + 1] ==
        IF d = 0 THEN {root} ELSE UNION {Children(node) : node \in at[d - 1]}
  IN  at

(* The outcome of a node, given those of the nodes one deeper.             *)
NodeOutcome(node, facts, below) ==
  LET outcomes == [k \in DOMAIN node.children |-> below[node.children[k]]]
  IN  CASE node.kind = "not an object" -> "false"
        [] node.kind = "all of no list" -> "syntax"
        [] node.kind = "all" -> FirstDecisive(outcomes, "true")
        [] node.kind = "any" -> FirstDecisive(outcomes, "false")
        [] node.kind = "not" -> CASE outcomes[1] = "true" -> "false"
                                  [] outcomes[1] = "false" -> "true"
                                  [] OTHER -> outcomes[1]
        [] node.kind = "leaf" -> EvaluateLeaf(node, facts)

(* evaluate_node: what is nested too deeply is malformed.                  *)
Evaluate(root, facts) ==
  LET at == NodesAt(root)
      outcome[d \in 0..MaxDepth + 1] ==
        IF d > MaxDepth THEN [node \in at[d] |-> "syntax"]
        ELSE LET below == outcome[d + 1]
             IN  [node \in at[d] |-> NodeOutcome(node, facts, below)]
  IN  outcome[0][root]

VectorFacts(vectors) ==
  "vectors.temporal" :> Number(vectors.temporal) @@ "vectors.resource" :> Number(vectors.resource)
  @@ "vectors.privilege" :> Number(vectors.privilege) @@ "vectors.device" :> Number(vectors.device)
  @@ "vectors.peer_divergence" :> Number(vectors.peer_divergence)
  @@ "vectors.geovelocity" :> Number(vectors.geovelocity)
  @@ "vectors.volume" :> Number(vectors.volume) @@ "vectors.intel" :> Number(vectors.intel)

(* build_fact_map.                                                         *)
Facts(e, vectors, score, risk) ==
  LET own == [event_type |-> Word(e.type), resource |-> Word(e.resource), action |-> Word(e.action),
              outcome |-> Word(e.outcome), sensitivity_level |-> Number(e.tier),
              ip_address |-> Word(e.address), country |-> Word(e.country), asn |-> Word(e.asn),
              device_id |-> Word(e.device), user_agent |-> Word(e.agent),
              bytes_transferred |-> Number(e.bytes), record_count |-> Number(e.records),
              is_off_hours |-> Flag(e.offHours), hour |-> Number(Hour(e)),
              weekday |-> Number(Weekday(e)), is_weekend |-> Flag(Weekday(e) >= 5),
              context_tags |-> Listing(e.tags), has_context_tag |-> Flag(e.tags # {}),
              raw_score |-> Number(score), cumulative_risk |-> Number(risk)]
      of == VectorFacts(vectors)
  IN  [f \in DOMAIN own \cup DOMAIN of |-> IF f \in DOMAIN own THEN own[f] ELSE of[f]]

(* validate_conditions: one evaluation, every fact 0, no vector among them.*)
ProbeFields ==
  {"event_type", "resource", "action", "outcome", "sensitivity_level", "ip_address",
   "country", "asn", "device_id", "user_agent", "bytes_transferred", "record_count",
   "is_off_hours", "hour", "weekday", "is_weekend", "context_tags", "has_context_tag",
   "raw_score", "cumulative_risk"}

Probe == [f \in ProbeFields |-> Number(0)]

Saves(conditions) == Evaluate(conditions, Probe) \in {"true", "false"}
-----------------------------------------------------------------------------
Evaluated(rules, hasContext) == {r \in rules : r.enabled /\ ~(hasContext /\ r.suppress)}

(* RuleEngine.match: a rule that is malformed is passed over; what an      *)
(* operator raises is not caught.                                          *)
Match(rules, facts, hasContext) ==
  {r \in Evaluated(rules, hasContext) : Evaluate(r.conditions, facts) = "true"}

Crashes(rules, facts, hasContext) ==
  \E r \in Evaluated(rules, hasContext) : Evaluate(r.conditions, facts) = "crash"

MaxBoost == 40
BoostCap == 45

(* A rule as the API stores it; its conditions are any tree.               *)
IsRule(r) ==
  /\ DOMAIN r = {"slug", "conditions", "boost", "suppress", "enabled", "builtin"}
  /\ r.boost \in 0..MaxBoost /\ {r.suppress, r.enabled, r.builtin} \subseteq BOOLEAN

Capped(total) == IF total > BoostCap THEN BoostCap ELSE total

(* Mutation: the smallest boost counts in full.                            *)
Ranked_Ascending(hits, k) ==
  Min({b \in {r.boost : r \in hits} : Cardinality({r \in hits : r.boost <= b}) >= k})

(* The k-th largest boost of the rules that hit.                           *)
Ranked(hits, k) ==
  Max({b \in {r.boost : r \in hits} : Cardinality({r \in hits : r.boost >= b}) >= k})

(* Ranked 1 + 0.6 Ranked 2 + 0.36 Ranked 3 + ..., in thousandths: the last *)
(* k of them, each with 0.6 of what comes after it.                        *)
Discounted(hits) ==
  LET n == Cardinality(hits)
      last[k \in 0..n] ==
        IF k = 0 THEN 0 ELSE 1000 * Ranked(hits, n - k + 1) + (6 * last[k - 1]) \div 10
  IN  last[n]

(* total_boost: the largest boost counts in full.                          *)
TotalBoost(hits) == Capped(Discounted(hits) \div 1000)
-----------------------------------------------------------------------------
(* The rules an estate starts with (db/seed_data.py).                      *)
AtLeast(field, n) == Leaf(field, "gte", <<Number(n)>>)
IsTrue(field) == Leaf(field, "is_true", <<Void>>)
OneOf(field, words) == Leaf(field, "in", [k \in DOMAIN words |-> Word(words[k])])
Names(keyword) == Leaf("resource", "contains", <<Word(keyword)>>)

BuiltinRule(slug, conditions, boost, suppress) ==
  [slug |-> slug, conditions |-> conditions, boost |-> boost,
   suppress |-> suppress, enabled |-> TRUE, builtin |-> TRUE]

TamperingAndIdentityRules ==
  {BuiltinRule("audit-log-destruction", OneOf("action", <<"delete_audit_logs", "disable_logging">>), 40, FALSE),
   BuiltinRule("crown-jewel-bulk-export",
     AllOf(<<AtLeast("sensitivity_level", 5),
           OneOf("action", <<"export", "export_all", "download", "share_external">>)>>), 35, FALSE),
   BuiltinRule("off-hours-privileged-escalation",
     AllOf(<<IsTrue("is_off_hours"),
           OneOf("action", <<"sudo", "assume_role", "iam_modify", "attach_policy", "grant_permission">>)>>),
     22, TRUE),
   BuiltinRule("impossible-travel-session", AtLeast("vectors.geovelocity", 80), 28, TRUE),
   BuiltinRule("secret-store-access-anomaly",
     AllOf(<<AnyOf(<<Names("secret"), Names("vault"), Names("credential")>>),
           AtLeast("vectors.resource", 55)>>), 24, TRUE)}

ExtractionAndBehaviourRules ==
  {BuiltinRule("mass-record-extraction", AtLeast("record_count", 50000), 26, TRUE),
   BuiltinRule("large-egress-volume", AtLeast("bytes_transferred", 25), 18, TRUE),
   BuiltinRule("cross-department-pii-access",
     AllOf(<<AtLeast("vectors.peer_divergence", 70), AtLeast("sensitivity_level", 4)>>), 20, TRUE),
   BuiltinRule("unrecognised-device-privileged",
     AllOf(<<AtLeast("vectors.device", 50), AtLeast("vectors.privilege", 60)>>), 22, TRUE),
   BuiltinRule("threat-intel-match", AtLeast("vectors.intel", 60), 25, FALSE),
   BuiltinRule("repeated-authentication-failure",
     AllOf(<<OneOf("event_type", <<"AUTHENTICATION">>), OneOf("outcome", <<"DENIED", "FAILURE">>)>>), 12, TRUE),
   BuiltinRule("weekend-production-access",
     AllOf(<<IsTrue("is_weekend"), AtLeast("sensitivity_level", 4)>>), 14, TRUE)}

BuiltinRules == TamperingAndIdentityRules \cup ExtractionAndBehaviourRules
=============================================================================
