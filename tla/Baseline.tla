------------------------------ MODULE Baseline ------------------------------
(***************************************************************************)
(* What is learned from an identity's events (engine/baseline.py), the     *)
(* cohort it is measured against (engine/peer.py) and the eight scores of  *)
(* an event against both.  Scores are whole points, rounded down; bytes    *)
(* are counted in tens of millions; a time is in minutes, and day 0 is a   *)
(* Monday.                                                                 *)
(***************************************************************************)
EXTENDS Integers, SequencesExt, FiniteSetsExt

CONSTANTS
  Resources,     (* resource names that occur                               *)
  Words,         (* Words[r]: the keywords of the code that occur in r      *)
  Distance,      (* Distance[p][q]: kilometres between two places           *)
  Nowhere,       (* the place of an event without coordinates               *)
  FrequentKept,  (* resources whose frequency is kept: 40 in the code       *)
  CommonKept     (* resources that count as common: 25 in the code          *)

ASSUME BaselineAssumption ==
  /\ Words \in [Resources -> SUBSET STRING]
  /\ \A p, q \in DOMAIN Distance : Distance[p][q] \in Nat
  /\ FrequentKept \in Nat /\ CommonKept \in 0..FrequentKept

Sensitivity == 1..5

(* Events as they are stored; net is the network of the address.           *)
Observations ==
  [at : Int, type : STRING, resource : Resources, action : STRING, outcome : STRING,
   tier : Sensitivity, net : STRING, country : STRING, place : DOMAIN Distance,
   address : STRING, asn : STRING, agent : STRING, device : STRING, bytes : Nat, records : Nat,
   offHours : BOOLEAN, tags : SUBSET STRING]

Hour(e) == (e.at \div 60) % 24
Day(e) == e.at \div 1440
Weekday(e) == Day(e) % 7

AntiTamperActions ==
  {"delete_audit_logs", "dump_credentials", "disable_logging", "disable_mfa",
   "exfiltrate", "create_backdoor_user", "rotate_root_key"}

PrivilegedActions ==
  {"sudo", "assume_role", "iam_modify", "export_all", "grant_permission",
   "attach_policy", "create_access_key"} \cup AntiTamperActions

Tampers(e) == e.action \in AntiTamperActions
Denied(e) == e.outcome \in {"DENIED", "FAILURE"}

Least(a, b) == IF a <= b THEN a ELSE b
Greatest(a, b) == IF a >= b THEN a ELSE b
-----------------------------------------------------------------------------
HighValueKeywords ==
  {"crown_jewel", "payment", "cardholder", "customer_pii", "secret", "credential",
   "private_key", "root", "vault", "payroll", "salary"}

(* DEPARTMENT_FORBIDDEN *)
Forbidden(department) ==
  CASE department = "engineering" ->
         {"payroll", "salary", "financial_ledger", "exec_briefings", "cardholder", "workday"}
    [] department = "core platform" -> {"payroll", "salary", "exec_briefings", "greenhouse"}
    [] department = "infrastructure" -> {"payroll", "salary", "greenhouse", "exec_briefings"}
    [] department = "finance" -> {"github", "kubernetes", "ssh_key", "terraform", "source_repo"}
    [] department = "people ops" -> {"prod_database", "api_gateway", "aws_root", "kubernetes", "github"}
    [] department = "analytics" -> {"aws_root", "iam_policy", "prod_ssh", "payroll"}
    [] department = "legal" -> {"kubernetes", "prod_database", "terraform", "github"}
    [] department = "sales" -> {"kubernetes", "prod_database", "terraform", "github", "payroll"}
    [] OTHER -> {}

Count(events, P(_)) == Cardinality({k \in DOMAIN events : P(events[k])})
Tally(values, events, Of(_)) == [v \in values |-> Count(events, LAMBDA e : Of(e) = v)]
Valued(events, Of(_)) == {Of(events[k]) : k \in DOMAIN events}

(* Mutation: sorted the wrong way round.                                   *)
MostCommon_Least(events, n) ==
  LET of == [k \in DOMAIN events |-> events[k].resource]
      seen == {of[k] : k \in DOMAIN of}
      count == [r \in seen |-> Count(events, LAMBDA e : e.resource = r)]
      first == [r \in seen |-> CHOOSE k \in DOMAIN of : of[k] = r /\ \A j \in 1..k - 1 : of[j] # r]
      Before(q, r) == count[q] < count[r] \/ (count[q] = count[r] /\ first[q] < first[r])
  IN  {r \in seen : Cardinality({q \in seen : Before(q, r)}) < n}

(* Counter.most_common(n): the largest counts, of equals the first seen.   *)
MostCommon(events, n) ==
  LET of == [k \in DOMAIN events |-> events[k].resource]
      seen == {of[k] : k \in DOMAIN of}
      count == [r \in seen |-> Count(events, LAMBDA e : e.resource = r)]
      first == [r \in seen |-> CHOOSE k \in DOMAIN of : of[k] = r /\ \A j \in 1..k - 1 : of[j] # r]
      Before(q, r) == count[q] > count[r] \/ (count[q] = count[r] /\ first[q] < first[r])
  IN  {r \in seen : Cardinality({q \in seen : Before(q, r)}) < n}

(* How far up the sorted levels of n events the ceiling is taken.          *)
CeilingPlace(n) == Least(n - 1, (n * 95) \div 100) + 1

(* The places of the events whose level is at most this.                   *)
UpTo(events, level) == {k \in DOMAIN events : events[k].tier <= level}

(* _percentile_sensitivity: an outlier does not raise the ceiling.         *)
Ceiling(events) ==
  IF events = <<>> THEN 2
  ELSE Min({level \in Valued(events, LAMBDA e : e.tier) :
              Cardinality(UpTo(events, level)) >= CeilingPlace(Len(events))})

(* Mean and standard deviation of a sequence of counts, in tenths.         *)
Total(s) ==
  LET sum[k \in 0..Len(s)] == IF k = 0 THEN 0 ELSE sum[k - 1] + s[k]
  IN  sum[Len(s)]

Mean(s) == (10 * Total(s)) \div Len(s)
Deviation(s) ==
  LET mean == Mean(s)
      squares == [k \in DOMAIN s |-> (10 * s[k] - mean) * (10 * s[k] - mean)]
      variance == Total(squares) \div Len(s)
  IN  Cardinality({d \in 1..10 * Max(ToSet(s)) : d * d <= variance})

PerDay(events, Of(_)) ==
  LET days == SetToSeq(Valued(events, Day))
  IN  [k \in DOMAIN days |->
         Total([j \in DOMAIN events |-> IF Day(events[j]) = days[k] THEN Of(events[j]) ELSE 0])]

(* BaselineEngine.build; without events, what BaselineView starts with.    *)
Build(events) ==
  LET counts == PerDay(events, LAMBDA e : 1)
      bytes == PerDay(events, LAMBDA e : e.bytes)
      kept == MostCommon(events, FrequentKept)
      empty == events = <<>>
      span == IF empty THEN 0
              ELSE Greatest(1, (Max(Valued(events, LAMBDA e : e.at))
                                - Min(Valued(events, LAMBDA e : e.at))) \div 1440)
  IN  [total |-> Len(events),
       hours |-> Tally(0..23, events, Hour),
       weekdays |-> Tally(0..6, events, Weekday),
       frequency |-> Tally(kept, events, LAMBDA e : e.resource),
       common |-> MostCommon(events, CommonKept),
       actions |-> Tally(Valued(events, LAMBDA e : e.action), events, LAMBDA e : e.action),
       nets |-> Valued(events, LAMBDA e : e.net),
       countries |-> Valued(events, LAMBDA e : e.country) \ {""},
       devices |-> Valued(events, LAMBDA e : e.device) \ {""},
       ceiling |-> Ceiling(events),
       offHours |-> Count(events, LAMBDA e : e.offHours \/ Hour(e) < 7 \/ Hour(e) > 20),
       dayMean |-> IF empty THEN 200 ELSE Mean(counts),
       daySpread |-> IF empty THEN 60 ELSE IF Len(counts) = 1 THEN 40 ELSE Deviation(counts),
       byteMean |-> IF empty THEN 0 ELSE Mean(bytes),
       byteSpread |-> IF Len(bytes) <= 1 THEN 0 ELSE Deviation(bytes),
       maturity |-> Least(100, (Len(events) * 60) \div 400 + (span * 40) \div 30)]

Times(f, x) == IF x \in DOMAIN f THEN f[x] ELSE 0
(* off_hours_ratio, in parts per thousand.                                 *)
OffHoursRatio(b) == IF b.total = 0 THEN 20 ELSE (1000 * b.offHours) \div b.total
Mature(baseline) == baseline.total >= 200
-----------------------------------------------------------------------------
(* Rarity of the hour and the weekday, smoothed by half an event each.     *)
Temporal(e, b) ==
  LET rarity == Greatest(0, 100 - (600 * (2 * b.hours[Hour(e)] + 1)) \div (b.total + 12))
      weekend == /\ Weekday(e) >= 5
                 /\ 100 * (2 * b.weekdays[Weekday(e)] + 1) < 8 * (2 * b.total + 7)
      never == OffHoursRatio(b) < 10
  IN  Max({rarity}
        \cup (IF e.offHours THEN {72} ELSE {})
        \cup (IF weekend THEN {68} ELSE {})
        \cup (IF e.offHours /\ never THEN {85} ELSE {}))

ResourceScore(e, b) ==
  LET known == e.resource \in DOMAIN b.frequency
      novelty == CASE Times(b.frequency, e.resource) >= 5 -> 8
                   [] known /\ Times(b.frequency, e.resource) < 5 -> 28
                   [] ~known -> 68
      above == e.tier - b.ceiling
      sensitivity == IF above > 0 THEN Least(100, 38 + 22 * above) ELSE 10
      treasure == Words[e.resource] \cap HighValueKeywords # {} /\ ~known
  IN  Least(100, (novelty * 42 + sensitivity * 58) \div 100 + (IF treasure THEN 18 ELSE 0))

Privilege(e, b) ==
  LET weight == CASE e.action \in PrivilegedActions -> 88
                  [] e.action \in {"write", "delete", "export", "query_bulk", "download", "share_external"} -> 52
                  [] e.action \in {"read", "query", "list", "view", "login"} -> 12
                  [] OTHER -> 26
      seen == Times(b.actions, e.action)
      base == CASE seen >= 10 -> (weight * 45) \div 100
                [] seen \in 3..9 -> (weight * 70) \div 100
                [] seen < 3 -> weight
  IN  IF Tampers(e) THEN 100 ELSE base + (IF Denied(e) /\ base >= 50 THEN 10 ELSE 0)

PeerDivergence(e, b, who, cohort) ==
  Least(100, 14
    + (IF Words[e.resource] \cap Forbidden(who.department) # {} THEN 62 ELSE 0)
    + (IF cohort.shared # {}
       THEN (IF e.resource \notin cohort.shared THEN 22 ELSE 0)
              + (IF 100 * e.tier > cohort.meanCeiling + 100 THEN 24 ELSE 0)
       ELSE (IF e.resource \notin b.common THEN 16 ELSE 0))
    + (IF e.action \in PrivilegedActions /\ ~who.engineer THEN 18 ELSE 0))

ImpossibleTravel == 900

Speed(e, previous) ==
  LET km == Distance[previous.place][e.place]
  IN  IF km > 100 THEN (km * 60) \div Greatest(1, e.at - previous.at) ELSE 0

(* previous is the last event that had a place, or none.                   *)
Geovelocity(e, b, previous) ==
  LET speed == IF previous = <<>> \/ e.place = Nowhere THEN 0 ELSE Speed(e, previous[1])
  IN  Max({0}
        \cup (IF e.country # "" /\ b.countries # {} /\ e.country \notin b.countries THEN {62} ELSE {})
        \cup (IF b.nets # {} /\ e.net \notin b.nets THEN {45} ELSE {})
        \cup (IF speed > ImpossibleTravel
              THEN {80 + Least(20, ((speed - ImpossibleTravel) * 20) \div (4 * ImpossibleTravel))}
              ELSE {})
        \cup (IF 100 * speed > 55 * ImpossibleTravel THEN {55} ELSE {}))

(* Sigmas above the mean, in hundredths.  A spread below ten million bytes *)
(* makes any excess an extreme one.                                        *)
Sigmas(x, mean, spread) ==
  IF spread = 0 THEN (IF 10 * x > mean THEN 10000 ELSE 0)
  ELSE (100 * (10 * x - mean)) \div spread

Volume(e, b, count, bytes) ==
  LET z == Sigmas(count, b.dayMean, Greatest(20, b.daySpread))
      zb == Sigmas(bytes, b.byteMean, b.byteSpread)
  IN  Max({0}
        \cup (IF z > 200 THEN {Least(85, 30 + ((z - 200) * 18) \div 100)} ELSE {})
        \cup (IF bytes > 0 /\ zb > 200 THEN {Least(95, 40 + ((zb - 200) * 15) \div 100)} ELSE {})
        \cup (IF e.bytes > 50 THEN {88} ELSE IF e.bytes > 5 THEN {62} ELSE {})
        \cup (IF e.records > 100000 THEN {90} ELSE IF e.records > 10000 THEN {66} ELSE {}))

Device(e, b) ==
  CASE e.device = "" -> 0
    [] e.device # "" /\ b.devices = {} -> 12
    [] e.device \in b.devices -> 0
    [] OTHER -> 58

(* indicators: the feed's confidence in the addresses, networks and agents *)
(* that it knows.                                                          *)
Intel(e, indicators) ==
  Max({0} \cup {Least(100, indicators[a]) :
                  a \in ({e.address, e.asn, e.agent} \ {""}) \cap DOMAIN indicators})

(* BaselineEngine.score_event; count and bytes are today's so far.         *)
Vectors(e, b, who, cohort, previous, count, bytes, indicators) ==
  [temporal |-> Temporal(e, b), resource |-> ResourceScore(e, b),
   privilege |-> Privilege(e, b), peer_divergence |-> PeerDivergence(e, b, who, cohort),
   geovelocity |-> Geovelocity(e, b, previous), volume |-> Volume(e, b, count, bytes),
   device |-> Device(e, b), intel |-> Intel(e, indicators)]
-----------------------------------------------------------------------------
(* engine/peer.py.  A member: its name, department, role without its       *)
(* seniority, ceiling, common resources, risk.                             *)
MinCohort == 3
CohortKey(m) == <<m.department, m.role>>

NoCohort == [size |-> 0, shared |-> {}, meanCeiling |-> 200, meanRisk |-> 50, spread |-> 30]

(* PeerEngine._aggregate: risks in tenths, the mean ceiling in hundredths. *)
Aggregate(group) ==
  LET risks == [m \in group |-> m.risk]
      order == SetToSeq(group)
      having(r) == Cardinality({m \in group : r \in m.resources})
  IN  [size |-> Cardinality(group),
       shared |-> {r \in UNION {m.resources : m \in group} :
                     having(r) >= Greatest(1, (Cardinality(group) * 40) \div 100)},
       meanCeiling |-> (100 * Total([k \in DOMAIN order |-> order[k].ceiling])) \div Len(order),
       meanRisk |-> Mean([k \in DOMAIN order |-> risks[order[k]]]),
       spread |-> IF Len(order) > 1 THEN Deviation([k \in DOMAIN order |-> risks[order[k]]]) ELSE 30]

(* PeerEngine.build_cohorts as one identity sees it: a cohort too small to *)
(* mean anything gives way to the department, if that is large enough.     *)
CohortOf(who, members) ==
  LET group == {m \in members : CohortKey(m) = CohortKey(who)}
      department == {m \in members : m.department = who.department}
  IN  CASE group = {} -> NoCohort
        [] Cardinality(group) >= MinCohort -> Aggregate(group)
        [] group # {} /\ Cardinality(group) < MinCohort ->
             IF Cardinality(department) >= MinCohort THEN Aggregate(department) ELSE Aggregate(group)

(* Sigmas above the cohort, in hundredths.                                 *)
Standing(risk, cohort) ==
  (100 * (10 * risk - cohort.meanRisk)) \div Greatest(10, cohort.spread)
=============================================================================
