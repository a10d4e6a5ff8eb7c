----------------------------- MODULE Workbench -----------------------------
(***************************************************************************)
(* One identity under investigation: its events arrive, in order or late,  *)
(* its baseline is learned again, approvals come and go, and analysts edit *)
(* the rules.  report is what GET /identities/{id}/investigation returns   *)
(* in each state.                                                          *)
(***************************************************************************)
EXTENDS Explanation

CONSTANTS
  Forms,          (* events, but for their time                             *)
  Instants,       (* times at which events occur                            *)
  Past,           (* events of the learning window before the first one     *)
  Who,            (* the identity                                           *)
  Peers,          (* the other members of its cohort and department         *)
  Indicators,     (* confidence of each active indicator                    *)
  Multiplier,     (* of its watchlists, in percent                          *)
  FirstRules,     (* rules at the start                                     *)
  WrittenRules,   (* rules analysts write                                   *)
  Grants,         (* approvals that may be recorded                         *)
  MaxSteps        (* bound on the number of operations                      *)

VARIABLES
  window,         (* its events, in the order of their time                 *)
  learned,        (* the events its baseline was last built from            *)
  baseline,       (* what they taught                                       *)
  rules,          (* the detection rules                                    *)
  approvals,      (* approvals in force, oldest first                       *)
  report,         (* what the next score_identity finds                     *)
  steps           (* operations so far                                      *)

benchVars == <<window, learned, baseline, rules, approvals, report, steps>>

(* An event of this form at time t.                                        *)
Occurring(form, t) == [form EXCEPT !.at = t]

ASSUME WorkbenchAssumption ==
  /\ Instants # {} /\ \A form \in Forms, t \in Instants : Occurring(form, t) \in Observations
  /\ Past \in Seq(Observations)
  /\ IsFiniteSet(Peers)
  /\ \A m \in Peers : m.name # Who.name /\ m.ceiling \in Sensitivity
  /\ \A a \in DOMAIN Indicators : Indicators[a] \in 0..100
  /\ Multiplier \in Nat
  /\ IsFiniteSet(FirstRules) /\ FirstRules \cup WrittenRules # {}
  /\ \A r \in FirstRules \cup WrittenRules : IsRule(r)
  /\ \A a \in Grants : a.factor \in Int
  /\ MaxSteps \in Nat

(* What the engine makes of these events are events of the accumulator.    *)
ASSUME TurnAssumption ==
  /\ Scores = 0..100 /\ Factors = 10..95 /\ Sensitivity \subseteq Tiers
  /\ {0} \cup {t - u : t \in Instants, u \in Instants} \subseteq Gaps
-----------------------------------------------------------------------------
(* What score_identity loads.  The cohort counts the identity itself.      *)
Given(habits, ruleset, records) ==
  LET self == [name |-> Who.name, department |-> Who.department, role |-> Who.role, risk |-> RiskFloor,
               ceiling |-> habits.ceiling, resources |-> habits.common]
  IN  [baseline |-> habits, who |-> Who, cohort |-> CohortOf(Who, Peers \cup {self}),
       indicators |-> Indicators, multiplier |-> Multiplier, rules |-> ruleset,
       approvals |-> records]

Report(events, habits, ruleset, records) ==
  Investigate(events, Given(habits, ruleset, records))

(* Events are read in the order of their time.                             *)
InOrder(events, e) ==
  InsertAt(events, Cardinality({k \in DOMAIN events : events[k].at <= e.at}) + 1, e)

BenchInit ==
  /\ window = <<>> /\ learned = Past /\ baseline = Build(Past)
  /\ rules = FirstRules /\ approvals = <<>>
  /\ report = Report(<<>>, Build(Past), FirstRules, <<>>)
  /\ steps = 0

Step == steps < MaxSteps /\ steps' = steps + 1

(* A request that scores: what an operator of a rule raises rolls back all *)
(* of it.                                                                  *)
ScoredWith(events) ==
  /\ report' = Report(events, baseline', rules, approvals)
  /\ ~report'.result.crashed
  /\ window' = events
  /\ UNCHANGED <<rules, approvals>>

(* IngestService.ingest, for one event of the identity.                    *)
IngestEvent(form, t) ==
  /\ Step
  /\ UNCHANGED <<learned, baseline>>
  /\ ScoredWith(InOrder(window, Occurring(form, t)))

(* rebuild_baseline and the re-score that follows it.                      *)
Learn ==
  /\ Step /\ window # <<>> /\ learned' = Past \o window
  /\ baseline' = Build(learned')
  /\ ScoredWith(window)

(* Requests that change what the next scoring loads.                       *)
Load(ruleset, records) ==
  /\ Step
  /\ rules' = ruleset /\ approvals' = records
  /\ report' = Report(window, baseline, ruleset, records)
  /\ UNCHANGED <<window, learned, baseline>>

CreateContext(a) == a \notin ToSet(approvals) /\ Load(rules, Append(approvals, a))

(* Expiry does the same.                                                   *)
RevokeContext(a) ==
  \E k \in DOMAIN approvals : approvals[k] = a /\ Load(rules, RemoveAt(approvals, k))

(* create_rule                                                             *)
CreateRule(r) ==
  /\ \A other \in rules : other.slug # r.slug
  /\ Saves(r.conditions)
  /\ Load(rules \cup {r}, approvals)

(* update_rule: the logic of a built-in rule is immutable.                 *)
RewriteRule(r, conditions) ==
  /\ r \in rules /\ ~r.builtin /\ Saves(conditions) /\ conditions # r.conditions
  /\ Load((rules \ {r}) \cup {[r EXCEPT !.conditions = conditions]}, approvals)

(* update_rule: any rule can be switched off and on.                       *)
SwitchRule(r) ==
  r \in rules /\ Load((rules \ {r}) \cup {[r EXCEPT !.enabled = ~r.enabled]}, approvals)

(* delete_rule                                                             *)
DeleteRule(r) == r \in rules /\ ~r.builtin /\ Load(rules \ {r}, approvals)

BenchNext ==
  \/ \E form \in Forms, t \in Instants : IngestEvent(form, t)
  \/ Learn
  \/ \E a \in Grants : CreateContext(a) \/ RevokeContext(a)
  \/ \E r \in WrittenRules : CreateRule(r)
  \/ \E r \in rules : SwitchRule(r) \/ DeleteRule(r) \/ \E w \in WrittenRules : RewriteRule(r, w.conditions)

BenchSpec == BenchInit /\ [][BenchNext]_benchVars
-----------------------------------------------------------------------------
(* What is learned reassures: once an event is part of the history, the    *)
(* same event scores no higher on any vector that compares it with habits, *)
(* although every count, ceiling, cut-off and cohort has shifted with it;  *)
(* after any number of repetitions.  (Volume compares a day with the mean  *)
(* day, which the event moves too.  The cohort counts the identity itself: *)
(* what is learned can lower its mean ceiling, and give it the first       *)
(* resource it shares, before which sensitivity is not compared.  The      *)
(* vectors do not depend on rules, approvals and other events: a state     *)
(* that differs in those only is not judged again.)                        *)
Habits == {"temporal", "resource", "privilege", "geovelocity", "device"}
Repetitions == {0, 3, 4, 9}

Known(history) == Given(Build(history), {}, <<>>)

ScoresOf(e, history) ==
  LET given == Known(history)
  IN  Vectors(e, given.baseline, Who, given.cohort, <<>>, 1, 0, Indicators)

Reassures(e, before) ==
  LET was == ScoresOf(e, before)
      is == ScoresOf(e, Append(before, e))
      cohort == Known(before).cohort
  IN  /\ \A v \in Habits : is[v] <= was[v]
      /\ cohort.shared # {} /\ Known(Append(before, e)).cohort.meanCeiling >= cohort.meanCeiling
           => is.peer_divergence <= was.peer_divergence

LearningReassures ==
  rules = FirstRules /\ approvals = <<>> /\ (Len(window) = 1 \/ learned # Past) =>
    \A k \in DOMAIN window, n \in Repetitions :
      Reassures(window[k], learned \o [j \in 1..n |-> window[k]])

Same(a, b) == a' = a /\ b' = b
Works(r) == ~r.result.crashed

(* A rule may ask for the risk so far, which every score before it feeds.  *)
ReadsRisk(r) ==
  \E d \in 0..MaxDepth : \E node \in NodesAt(r.conditions)[d] :
    node.kind = "leaf" /\ node.field = "cumulative_risk"

RiskBlind(ruleset) == \A r \in ruleset : ~ReadsRisk(r)

(* One more rule never lowers the score of an event: boosts only add,      *)
(* whatever their order and however many hit already - unless a rule wants *)
(* low risk, and the scores of earlier events have raised it.              *)
RulesOnlyAdd ==
  [][Same(window, learned) /\ approvals' = approvals /\ Works(report) /\ Works(report')
       /\ RiskBlind(rules)
       /\ {r \in rules : r.enabled} \subseteq {r \in rules' : r.enabled}
     => \A k \in DOMAIN window : report'.result.scored[k].score >= report.result.scored[k].score]_benchVars

(* docs/DETECTION.md: an approval can do nothing for tampering.  The score *)
(* of a tampering event changes with the approvals only by the boosts of   *)
(* rules that are marked suppressible, or that read the risk the damped    *)
(* events before it have left, and is never damped.                        *)
Suppressible(slugs) == \E r \in rules : r.slug \in slugs /\ r.suppress

TamperingUnmoved ==
  [][Same(window, learned) /\ rules' = rules /\ Works(report) /\ Works(report')
     => \A k \in DOMAIN window :
          LET was == report.result.scored[k]
              is == report'.result.scored[k]
          IN  was.tamper => /\ is.damped = is.score
                            /\ RiskBlind(rules) /\ ~Suppressible(was.rules \cup is.rules)
                                 => is.score = was.score]_benchVars

(* The verdict, the copilot's stance and the recommended actions agree:    *)
(* nothing is called benign next to an action that must be taken at once,  *)
(* and nothing is said to be explained by an approval when evidence was    *)
(* destroyed or containment is advised.                                    *)
Advised == {a[1] : a \in report.explanation.actions}

AdviceAgrees ==
  Works(report) =>
    LET said == Answer({"is_malicious"}, report.explanation, report.blast).says
    IN  /\ said \in {"most likely benign", "probably benign", "no indication"}
             => {"QUARANTINE_SESSION", "REVOKE_TOKENS", "ESCALATE"} \cap Advised = {}
        /\ said = "most likely benign" => ~report.result.tamper /\ "RE_BASELINE" \in Advised
        /\ said = "malicious until disproven" => {"QUARANTINE_SESSION", "ESCALATE"} \subseteq Advised

(* A later event never takes evidence away: what was touched, what it      *)
(* exposes, who must be told and which techniques the events stand for.    *)
Frameworks(r) == {i.framework : i \in r.blast.impacts}

EvidenceAccumulates ==
  [][learned' = learned /\ Len(window') > Len(window) /\ window = SubSeq(window', 1, Len(window))
     => /\ \A r \in DOMAIN report.blast.touched : report'.blast.touched[r] = report.blast.touched[r]
        /\ report'.blast.exposure >= report.blast.exposure
        /\ Frameworks(report) \subseteq Frameworks(report')
        /\ EventEvidence(report.result) \subseteq EventEvidence(report'.result)]_benchVars
-----------------------------------------------------------------------------
(* engine/rules.py:216: "A single malformed rule must never break the      *)
(* whole pipeline."                                                        *)
NoRuleBreaksThePipeline == ~report.result.crashed

(* engine/explain.py:549: with tampering in the window "the score reported *)
(* here is unmitigated regardless of the contexts listed below".           *)
ReportedUnmitigated ==
  Works(report) /\ report.explanation.context = "score is unmitigated"
    => report.result.risk = report.result.rawRisk
=============================================================================
