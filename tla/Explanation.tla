---------------------------- MODULE Explanation ----------------------------
(***************************************************************************)
(* What an investigator is told of a scored identity: the verdict, the     *)
(* findings and the arguments against them, the recommended actions and    *)
(* the paragraph on approvals (engine/explain.py), the answers of the      *)
(* copilot (engine/copilot.py) and the payload that joins them             *)
(* (services/investigation.py).  Wording is left out: a text is named by   *)
(* what it asserts.                                                        *)
(***************************************************************************)
EXTENDS Evidence

When(P, S) == IF P THEN S ELSE {}
-----------------------------------------------------------------------------
(* Mutation: damping is looked at before tampering.                        *)
Verdict_DampingFirst(result) ==
  CASE result.damped /\ result.risk < 30 -> "SUPPRESSED_BY_CONTEXT"
    [] OTHER -> IF result.tamper THEN "ANTI_TAMPER_OVERRIDE" ELSE "NO_ACTION"

(* _verdict: the bound of 30 is fixed, the states follow the thresholds.   *)
Verdict(result) ==
  CASE result.tamper -> "ANTI_TAMPER_OVERRIDE"
    [] ~result.tamper /\ result.damped /\ result.risk < 30 -> "SUPPRESSED_BY_CONTEXT"
    [] OTHER -> CASE result.state = "CRITICAL_TRANSITION" -> "CONTAINMENT_RECOMMENDED"
                  [] result.state = "ESCALATING" -> "INVESTIGATE_NOW"
                  [] result.state = "EARLY_DRIFT" -> "MONITOR"
                  [] result.state = "STABLE" -> "NO_ACTION"

Anomalies(result) == SelectSeq(result.scored, LAMBDA x : x.score >= 45)
Novel(x, baseline) == x.event.resource \notin DOMAIN baseline.frequency

(* _key_findings: the kinds of finding, each with its severity.            *)
Findings(result, baseline) ==
  LET odd == Anomalies(result)
      those(P(_)) == SelectSeq(odd, P)
      novel == Valued(those(LAMBDA x : Novel(x, baseline)), LAMBDA x : x.event.resource)
      offHours == those(LAMBDA x : x.event.offHours)
      above == those(LAMBDA x : x.event.tier > baseline.ceiling)
      bulk == those(LAMBDA x : x.event.bytes > 1 \/ x.event.records > 5000)
      finding(kind, severity, count) == {[kind |-> kind, severity |-> severity, count |-> count]}
  IN  When(novel # {}, finding("unseen resources", IF Cardinality(novel) >= 3 THEN "HIGH" ELSE "MEDIUM",
                               Cardinality(novel)))
      \cup When(offHours # <<>>,
             finding("off-hours operations",
                     IF 1000 * Len(offHours) > 8 * OffHoursRatio(baseline) * Len(result.scored)
                     THEN "HIGH" ELSE "MEDIUM", Len(offHours)))
      \cup When(above # <<>>,
             finding("sensitivity ceiling breached",
                     IF \E k \in DOMAIN above : above[k].event.tier >= 5 THEN "CRITICAL" ELSE "HIGH",
                     Len(above)))
      \cup When(bulk # <<>>, finding("bulk data movement", "CRITICAL", Len(bulk)))
      \cup When(result.tamper,
             finding("anti-tamper override", "CRITICAL",
                     Cardinality({x.event.action : x \in {y \in ToSet(result.scored) : y.tamper}})))
      \cup When(result.velocity > 12, finding("rapid drift", "HIGH", 1))

(* _counter_evidence.                                                      *)
CounterEvidence(result, baseline, approvals) ==
  When(~Mature(baseline), {"immature baseline"})
  \cup When(\E k \in DOMAIN approvals : approvals[k].active, {"approvals exist"})
  \cup When(10 * Len(SelectSeq(result.scored, LAMBDA x : x.score < 28)) > 7 * Len(result.scored),
            {"mostly within baseline"})
  \cup When(result.damped, {"damping was applied"})
  \cup When(result.velocity < 0, {"risk is decaying"})

Confidence(result, baseline, counter) ==
  LET evidence == 50 + Smaller(25, baseline.maturity \div 4)
                     + Smaller(20, 3 * Len(Anomalies(result)))
                     + (IF result.tamper THEN 15 ELSE 0)
                     + (IF Cardinality({v \in DOMAIN result.vectors : result.vectors[v] >= 40}) >= 3
                        THEN 8 ELSE 0)
  IN  Larger(15, Smaller(99, evidence - 4 * Cardinality(counter)))

(* _recommended_actions: action and urgency.                               *)
RecommendedActions(result) ==
  (CASE result.tamper ->
          {<<"QUARANTINE_SESSION", "IMMEDIATE">>, <<"REVOKE_TOKENS", "IMMEDIATE">>, <<"ESCALATE", "IMMEDIATE">>}
     [] ~result.tamper /\ result.state = "CRITICAL_TRANSITION" ->
          {<<"QUARANTINE_SESSION", "IMMEDIATE">>, <<"REVOKE_TOKENS", "IMMEDIATE">>, <<"NOTIFY_MANAGER", "HIGH">>}
     [] ~result.tamper /\ result.state = "ESCALATING" ->
          {<<"STEP_UP_MFA", "HIGH">>, <<"OPEN_TICKET", "HIGH">>}
     [] ~result.tamper /\ result.state = "EARLY_DRIFT" ->
          {<<"NOTIFY_MANAGER", "MEDIUM">>, <<"ADD_CONTEXT_EXEMPTION", "LOW">>}
     [] OTHER -> {})
  \cup When(result.damped /\ ~result.tamper, {<<"RE_BASELINE", "LOW">>})

(* _narrative: what the paragraph on approvals says of the score.          *)
ContextParagraph(result, approvals) ==
  CASE result.tamper -> "score is unmitigated"
    [] ~result.tamper /\ result.damped -> "approval reduced the raw score"
    [] OTHER -> IF approvals = <<>> THEN "" ELSE "approvals cover none of it"

BaselineComparison(result, baseline) ==
  LET recent == LastOf(result.scored, 40)
  IN  [offHours |-> <<OffHoursRatio(baseline), Count(recent, LAMBDA x : x.event.offHours)>>,
       ceiling |-> <<baseline.ceiling, Max({1} \cup Valued(recent, LAMBDA x : x.event.tier))>>,
       daily |-> <<baseline.dayMean, Len(recent)>>,
       novel |-> Valued(SelectSeq(recent, LAMBDA x : Novel(x, baseline)), LAMBDA x : x.event.resource),
       maturity |-> baseline.maturity]

PeerComparison(result, cohort) ==
  IF cohort.size = 0 THEN [available |-> FALSE]
  ELSE [available |-> TRUE, size |-> cohort.size, z |-> Standing(result.risk, cohort)]

(* _contributing_events: the twelve highest scores, of equals the first.   *)
ContributingEvents(result) ==
  LET s == result.scored
      before(j, k) == s[j].score > s[k].score \/ (s[j].score = s[k].score /\ j < k)
  IN  {k \in DOMAIN s : Cardinality({j \in DOMAIN s : before(j, k)}) < 12}

(* ExplainabilityEngine.explain.                                           *)
Explain(result, given) ==
  LET counter == CounterEvidence(result, given.baseline, given.approvals)
  IN  [verdict |-> Verdict(result), confidence |-> Confidence(result, given.baseline, counter),
       findings |-> Findings(result, given.baseline), counter |-> counter,
       actions |-> RecommendedActions(result),
       context |-> ContextParagraph(result, given.approvals),
       approvals |-> given.approvals, techniques |-> MapTechniques(result),
       comparison |-> BaselineComparison(result, given.baseline),
       peers |-> PeerComparison(result, given.cohort),
       contributing |-> ContributingEvents(result)]
-----------------------------------------------------------------------------
(* A question is the set of intents whose patterns it matches; the first   *)
(* of them in the order of INTENT_PATTERNS is answered.                    *)
Intents == <<"compliance", "mitre", "why_flagged", "is_malicious", "baseline", "timeline",
             "peer_comparison", "context_check", "recommended_action", "confidence",
             "what_accessed", "blast_radius">>

Classify(question) ==
  LET matching == {k \in DOMAIN Intents : Intents[k] \in question}
  IN  IF matching = {} THEN "unknown" ELSE Intents[Min(matching)]

Stance(verdict) ==
  CASE verdict = "ANTI_TAMPER_OVERRIDE" -> "malicious until disproven"
    [] verdict = "CONTAINMENT_RECOMMENDED" -> "likely a threat"
    [] verdict = "INVESTIGATE_NOW" -> "unresolved"
    [] verdict = "MONITOR" -> "probably benign"
    [] verdict = "SUPPRESSED_BY_CONTEXT" -> "most likely benign"
    [] verdict = "NO_ACTION" -> "no indication"

(* An answer: what it rests on, and how sure it is; an answer that has     *)
(* nothing to rest on says so.                                             *)
AnswerOf(says, evidence, sure, sureOfNone) ==
  [says |-> IF evidence = {} THEN "nothing" ELSE says, evidence |-> evidence,
   confidence |-> IF evidence = {} THEN sureOfNone ELSE sure]

(* CopilotEngine._answer_*: x is the explanation, b the blast radius.      *)
EvidenceAnswer(intent, x, b) ==
  CASE intent = "what_accessed" -> AnswerOf("assets", DOMAIN b.touched, 92, 90)
    [] intent = "timeline" -> AnswerOf("events", x.contributing, 95, 90)
    [] intent = "recommended_action" -> AnswerOf("actions", x.actions, 88, 88)
    [] intent = "context_check" -> AnswerOf("approvals", ToSet(x.approvals), 90, 92)
    [] intent = "mitre" -> AnswerOf("techniques", DOMAIN x.techniques, 82, 85)
    [] intent = "compliance" -> AnswerOf("frameworks", b.impacts, 78, 85)
    [] intent = "peer_comparison" -> AnswerOf("standing", When(x.peers.available, {x.peers}), 85, 50)

Answer(question, x, b) ==
  LET intent == Classify(question)
      answered(says, evidence, sure) == [says |-> says, evidence |-> evidence, confidence |-> sure]
  IN  CASE intent = "why_flagged" -> answered("findings", x.findings, x.confidence)
        [] intent = "is_malicious" -> answered(Stance(x.verdict), x.counter, x.confidence)
        [] intent = "confidence" -> answered("confidence", x.counter, x.confidence)
        [] intent = "baseline" -> answered("profile", {x.comparison}, 90)
        [] intent = "blast_radius" -> answered(b.impact, {b.reach}, 80)
        [] intent = "unknown" -> answered("cannot answer", {}, 20)
        [] OTHER -> EvidenceAnswer(intent, x, b)
-----------------------------------------------------------------------------
(* InvestigationService.build: scored again, without storing anything.     *)
Explained(window, given, result) ==
  [result |-> result, explanation |-> Explain(result, given),
   blast |-> BlastRadius(window, result.risk, given.who.privileged)]

Investigate(window, given) == Explained(window, given, Correlate(window, given))
=============================================================================
