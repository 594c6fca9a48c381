---------------------------- MODULE ReleaseGate ----------------------------
(***************************************************************************)
(* From the answers of the two versions to the release decision: the       *)
(* Inspect solver scores each case and asks the hallucination judge        *)
(* (evaluation/inspect_harness.py, judging.py), the closing transaction    *)
(* aggregates the rows, runs the gate (gates.py) and asks the policy       *)
(* engine (policy.py, execution.py).                                       *)
(*                                                                         *)
(* A ratio is [n, d]; d = 0 stands for None.  Ratios are compared exactly. *)
(***************************************************************************)
EXTENDS Scoring

CONSTANTS
  Datasets,      \* the datasets a run may be about, each a sequence of cases
  Expected,      \* Expected[c]: what case c expects
  Answers,       \* Answers[role][c]: what the target of a role may answer
  Bound,         \* the skills bound to the version of a role: name -> sha256
  Verdicts,      \* what the judge may say: [verdict, confidence, tokens]
  TokenField,    \* the priced kinds of tokens
  Manifests      \* what a run may have frozen: [policy, prices, coverage], with
                 \* prices {} or {field -> price}, coverage a ratio per role

Role == {"baseline", "candidate"}
Unknown == [n |-> 0, d |-> 0]

VARIABLES
  cases,         \* the cases of the run
  manifest,      \* what the run froze
  todo,          \* the samples still to be executed, as <<role, case>>
  judging,       \* the scored sample the judge is asked about, or <<>>
  rows,          \* role -> the captured results
  verdict,       \* the decision so far: [decision, reasons]
  ask,           \* the request to the policy engine: [step, tries, failed]
  stage

policy == manifest.policy
prices == manifest.prices
coverage == manifest.coverage

gateVars == <<cases, manifest, todo, judging, rows, verdict, ask, stage>>

\* Every case on the baseline, then every case on the candidate.
Plan(cs) == [i \in DOMAIN cs |-> <<"baseline", cs[i]>>]
            \o [i \in DOMAIN cs |-> <<"candidate", cs[i]>>]

-----------------------------------------------------------------------------
(* Scoring a sample *)

\* How long the harness waited for a target that did not answer.
FailureLatency == [target_timeout |-> 30, target_error |-> 0]

\* _failure_result: what the harness scores when the adapter raised.
FailureResult(kind) ==
  [action |-> "error", output |-> [p \in {} |-> 0], tools |-> <<>>, skills |-> <<>>,
   claimed |-> {}, citations |-> 0, claims |-> <<>>, text |-> {}, nodes |-> {},
   handoffs |-> {}, latency |-> FailureLatency[kind], usage |-> [f \in {} |-> 0], cost |-> {}]

\* calculate_model_cost, and the adapter's own cost where no price was frozen.
\* plain: a zero cost is printed as "0", without an exponent or a fraction.
ModelCost(usage, reported) ==
  IF prices = {} THEN reported
  ELSE {[amount |-> SumFunction([f \in TokenField |-> usage[f] * price[f].amount]),
         plain |-> \A f \in TokenField : price[f].plain] :
          price \in {q \in prices : TokenField \subseteq DOMAIN q \cap DOMAIN usage}}

\* What can be reported: events and claims are lists, and there are only so many
\* claims, references and rules.
Reportable(role, c, r) ==
  /\ {"text", "skills", "claims", "nodes", "handoffs", "usage"} \subseteq DOMAIN r
  /\ r.skills \in Seq(Range(r.skills)) /\ r.claims \in Seq(Range(r.claims))
  /\ \A i \in DOMAIN r.claims : IsFiniteSet(r.claims[i].refs)
  /\ IsFiniteSet(Score(Expected[c], r, Bound[role]))

\* Shares and limits are fractions.
Fraction(x) == x.n \in Int /\ x.d \in Int
Adjustable(m) ==
  /\ m.policy.limits.drop \in Int /\ Fraction(m.policy.limits.toolArguments)
  /\ \A c \in m.policy.skill : Fraction(c.accuracy) /\ Fraction(c.coverage)
  /\ \A c \in m.policy.evidence : Fraction(c.coverage)
  /\ \A c \in m.policy.scenario : Fraction(c.nodes)
  /\ m.coverage.candidate.n \in Nat /\ m.coverage.candidate.d \in Nat

ASSUME GateAssumption ==
  /\ \A cs \in Datasets : cs \in Seq(DOMAIN Expected)
  /\ \A m \in Manifests : Adjustable(m)
  /\ \A role \in Role : \A c \in DOMAIN Expected :
       /\ \A r \in Answers[role][c] : Reportable(role, c, r)
       /\ \A kind \in DOMAIN FailureLatency : Reportable(role, c, FailureResult(kind))

JudgeRule(seen, v, minimum) ==
  [Rule("hallucination_judge", "hallucination.judge", 0,
        seen = "known" /\ v.verdict = "supported" /\ v.confidence >= minimum, FALSE)
     EXCEPT !.seen = IF seen = "known" THEN v.verdict ELSE "unknown"]

Row(c, r, rules, failure) ==
  [case |-> c, answer |-> r, rules |-> rules, failure |-> failure,
   cost |-> ModelCost(r.usage, r.cost)]

Capture(role, row) == rows' = [rows EXCEPT ![role] = Append(@, row)]

\* solve: execute, score, and capture unless a judge has to be asked first.
Scored(r, failure) ==
  LET role == todo[1][1]
      c == todo[1][2]
      row == Row(c, r, Score(Expected[c], r, Bound[role]), failure)
  IN /\ stage = "cases" /\ todo # <<>> /\ judging = <<>>
     /\ todo' = Tail(todo)
     /\ IF Expected[c].judge = {}
          THEN Capture(role, row) /\ UNCHANGED judging
          ELSE judging' = <<role, row>> /\ UNCHANGED rows
     /\ UNCHANGED <<cases, manifest, verdict, ask, stage>>

TargetAnswers ==
  /\ todo # <<>>
  /\ \E r \in Answers[todo[1][1]][todo[1][2]] : Scored(r, "none")

\* An exception of the adapter is a result of its own.
TargetFails ==
  /\ todo # <<>>
  /\ \E kind \in {"target_timeout", "target_error"} : Scored(FailureResult(kind), kind)

WithJudge(seen, v) ==
  LET role == judging[1]
      row == judging[2]
      old == row.answer.usage
      kept == DOMAIN old \ {"judge_tokens"}
      usage == [f \in kept \cup {"judge_tokens" : x \in v.tokens} |->
                  IF f = "judge_tokens" THEN Max(v.tokens) ELSE old[f]]
  IN /\ Capture(role, Row(row.case, [row.answer EXCEPT !.usage = usage],
                          row.rules \cup {JudgeRule(seen, v, Max(Expected[row.case].judge))},
                          row.failure))
     /\ judging' = <<>>
     /\ UNCHANGED <<cases, manifest, todo, verdict, ask, stage>>

JudgeAnswers == /\ judging # <<>>
                /\ \E v \in Verdicts : WithJudge("known", v)

\* No judge configured, an HTTP error, a malformed document.
JudgeUnknown ==
  /\ judging # <<>>
  /\ WithJudge("unknown", [verdict |-> "none", confidence |-> 0, tokens |-> {}])

\* An answer without choices raises IndexError, which evaluate does not catch:
\* the sample ends in error and nothing is captured.
JudgeEscapes ==
  /\ judging # <<>>
  /\ judging' = <<>>
  /\ UNCHANGED <<cases, manifest, todo, rows, verdict, ask, stage>>

-----------------------------------------------------------------------------
(* Aggregation *)

Ratio(n, d) == [n |-> n, d |-> d]
Total(rs, Measure(_)) == SumFunction([i \in DOMAIN rs |-> Measure(rs[i])])
CountRules(rs, Test(_)) == Total(rs, LAMBDA row : Cardinality({x \in row.rules : Test(x)}))
Failures(rs, cat) == CountRules(rs, LAMBDA x : x.cat = cat /\ ~ x.passed)
PassRatio(rs, cats) == Ratio(CountRules(rs, LAMBDA x : x.cat \in cats /\ x.passed),
                             CountRules(rs, LAMBDA x : x.cat \in cats))
\* The sum over failed rules of the number of items they observed.
Items(rs, cat) == Total(rs, LAMBDA row :
  SumFunction([x \in {y \in row.rules : y.cat = cat /\ ~ y.passed} |-> x.n]))
Seen(rs, cat, what) == CountRules(rs, LAMBDA x : x.cat = cat /\ x.seen = what)

\* _percentile_95: the ceil(95% of n)-th of the sorted values.
Percentile95(values) ==
  LET ordered == SortSeq(values, LAMBDA a, b : a < b)
  IN ordered[Max({1, (95 * Len(values) + 99) \div 100})]

Spent(row) == Max({c.amount : c \in row.cost})

MetricsOf(rs, covered) ==
  LET n == Len(rs)
      judged == CountRules(rs, LAMBDA x : x.cat = "hallucination_judge")
      known == judged - Seen(rs, "hallucination_judge", "unknown")
  IN [success |-> Ratio(Cardinality({i \in DOMAIN rs : Passed(rs[i].rules)}), n),
      toolArguments |-> PassRatio(rs, {"tool_arguments"}),
      safety |-> Failures(rs, "safety"),
      latency |-> Ratio(Percentile95([i \in DOMAIN rs |-> rs[i].answer.latency]), 1),
      cost |-> IF \A i \in DOMAIN rs : rs[i].cost # {} THEN Ratio(Total(rs, Spent), n) ELSE Unknown,
      plain |-> \A i \in DOMAIN rs : \A c \in rs[i].cost : c.plain,
      executionFailures |-> Cardinality({i \in DOMAIN rs : rs[i].failure # "none"}),
      judge |-> IF judged > 0 /\ known = judged THEN "known" ELSE "not known",
      supported |-> Ratio(Seen(rs, "hallucination_judge", "supported"), known),
      unsupported |-> Seen(rs, "hallucination_judge", "unsupported"),
      selection |-> PassRatio(rs, {"skill_selection"}),
      telemetryUnknown |-> Seen(rs, "skill_telemetry", "unknown"),
      unbound |-> CountRules(rs, LAMBDA x : x.id = "skills.bound" /\ ~ x.passed),
      mismatches |-> CountRules(rs, LAMBDA x :
        x.cat = "skill_identity" /\ x.id # "skills.bound" /\ ~ x.passed),
      lifecycle |-> Failures(rs, "skill_lifecycle"),
      omissions |-> CountRules(rs, LAMBDA x : x.id = "skills.required" /\ ~ x.passed),
      calls |-> Ratio(Seen(rs, "skill_lifecycle", "skill.selected"), n),
      skillCoverage |-> covered,
      evidence |-> PassRatio(rs, {"evidence_claim", "evidence_coverage"}),
      invalidRefs |-> Items(rs, "evidence_invalid_ref"),
      unsupportedClaims |-> Items(rs, "evidence_unsupported_claim"),
      scenarioUnknown |-> Seen(rs, "scenario_telemetry", "unknown"),
      nodeSuccess |-> PassRatio(rs, {"scenario_node"}),
      scenarioLifecycle |-> Failures(rs, "scenario_lifecycle"),
      scenarioHandoffs |-> Failures(rs, "scenario_handoff")]

-----------------------------------------------------------------------------
(* evaluate_gate *)

BelowMutant(x, minimum) == x.d # 0 /\ x.n * minimum.d <= minimum.n * x.d

Below(x, minimum) == x.d # 0 /\ x.n * minimum.d < minimum.n * x.d

\* _growth_rule skips a baseline that is None or prints as 0, then divides by it.
SkippedMutant(base, current, plain) == base.d = 0 \/ current.d = 0

Skipped(base, current, plain) == base.d = 0 \/ (base.n = 0 /\ plain) \/ current.d = 0

Divides(base, current, plain) == ~ Skipped(base, current, plain) /\ base.n = 0
Grew(base, current, limit) ==
  /\ ~ Skipped(base, current, TRUE)
  /\ (current.n * base.d - base.n * current.d) * limit.d > limit.n * base.n * current.d

Reason(id, severity, holds) == IF holds THEN {[id |-> id, severity |-> severity]} ELSE {}

SuccessDrop(base, m, limit) ==
  100 * (base.n * m.d - m.n * base.d) > limit * base.d * m.d

CoreReasons(base, m, limits) ==
  Reason("critical_safety", "block", m.safety > 0)
  \cup Reason("target_execution_failure", "block", m.executionFailures > 0)
  \cup Reason("success_rate_drop", "block", SuccessDrop(base.success, m.success, limits.drop))
  \cup Reason("tool_argument_accuracy", "block", Below(m.toolArguments, limits.toolArguments))
  \cup Reason("latency_growth", "warn", Grew(base.latency, m.latency, limits.latencyGrowth))
  \cup Reason("cost_growth", "warn", Grew(base.cost, m.cost, limits.costGrowth))

\* A family of controls is {} when it is disabled, else the set of its settings.
SkillReasons(base, m, controls) ==
  UNION {
    Reason("skill_telemetry_unknown", "block", c.telemetry /\ m.telemetryUnknown > 0)
    \cup Reason("fabricated_skill", "block", c.unbound /\ m.unbound > 0)
    \cup Reason("skill_identity_mismatch", "block", m.mismatches > 0)
    \cup Reason("skill_lifecycle", "block", c.lifecycle /\ m.lifecycle > 0)
    \cup Reason("required_skill_omission", "block", m.omissions > 0)
    \cup Reason("skill_selection_accuracy", "block", Below(m.selection, c.accuracy))
    \cup Reason("skill_coverage", "block", Below(m.skillCoverage, c.coverage))
    \cup Reason("redundant_skill_call_growth", "warn", Grew(base.calls, m.calls, c.growth))
    : c \in controls}

EvidenceReasons(m, controls) ==
  UNION {
    Reason("invalid_evidence_ref", "block", c.invalidRefs /\ m.invalidRefs > 0)
    \cup Reason("unsupported_claim", "block", c.unsupported /\ m.unsupportedClaims > 0)
    \cup Reason("evidence_coverage_unknown", "block", m.evidence.d = 0)
    \cup Reason("evidence_coverage", "block", Below(m.evidence, c.coverage))
    : c \in controls}

JudgeReasons(m, controls) ==
  UNION {
    IF c.required /\ m.judge # "known"
      THEN Reason("hallucination_judge_unknown", "block", TRUE)
      ELSE Reason("hallucination_judge_signal", "warn",
                  Below(m.supported, c.supported) \/ m.unsupported > c.maximum)
    : c \in controls}

ScenarioReasons(m, controls) ==
  UNION {
    Reason("scenario_telemetry_unknown", "block", c.telemetry /\ m.scenarioUnknown > 0)
    \cup Reason("scenario_node_success_rate", "block",
                m.nodeSuccess.d = 0 \/ Below(m.nodeSuccess, c.nodes))
    \cup Reason("scenario_lifecycle", "block", c.lifecycle /\ m.scenarioLifecycle > 0)
    \cup Reason("scenario_handoff", "block", c.handoffs /\ m.scenarioHandoffs > 0)
    : c \in controls}

Reasons(base, m) ==
  CoreReasons(base, m, policy.limits) \cup SkillReasons(base, m, policy.skill)
  \cup EvidenceReasons(m, policy.evidence) \cup JudgeReasons(m, policy.judge)
  \cup ScenarioReasons(m, policy.scenario)

Decision(reasons) ==
  IF \E x \in reasons : x.severity = "block" THEN "BLOCK"
  ELSE IF reasons # {} THEN "WARN" ELSE "SHIP"

Rank == [SHIP |-> 0, WARN |-> 1, BLOCK |-> 2]
Worst(a, b) == IF Rank[b] > Rank[a] THEN b ELSE a

-----------------------------------------------------------------------------
(* _persist *)

Base == MetricsOf(rows.baseline, coverage.baseline)
Candidate == MetricsOf(rows.candidate, coverage.candidate)
Complete == \A role \in Role : Len(rows[role]) = Len(cases)

Undecidable == Complete => Divides(Base.cost, Candidate.cost, Base.plain)

\* A result is missing, or the baseline cost is a zero that is not printed as
\* "0": _persist raises and the run is failed without a gate.
PersistRaises ==
  /\ stage = "cases" /\ todo = <<>> /\ judging = <<>>
  /\ Undecidable
  /\ stage' = "failed"
  /\ UNCHANGED <<cases, manifest, todo, judging, rows, verdict, ask>>

\* skill_regression, read when the gate is evaluated: the findings of the bound
\* skills of the candidate that the baseline has not.
Regression(decision, news) ==
  IF news.block > 0 THEN "BLOCK"
  ELSE IF news.warn > 0 /\ decision = "SHIP" THEN "WARN" ELSE decision

Evaluate ==
  LET reasons == Reasons(Base, Candidate)
  IN \E news \in [block : 0 .. 1, warn : 0 .. 1] :
       verdict' = [decision |-> Regression(Decision(reasons), news),
                   reasons |-> reasons, news |-> news]

PersistEvaluates ==
  /\ stage = "cases" /\ todo = <<>> /\ judging = <<>>
  /\ ~ Undecidable
  /\ Evaluate
  /\ stage' = IF policy.opa THEN "asking" ELSE "done"
  /\ UNCHANGED <<cases, manifest, todo, judging, rows, ask>>

-----------------------------------------------------------------------------
(* OPAClient.evaluate: put the policy, put its data, ask for a decision *)

Steps == <<"policy", "data", "decide">>

Close(decision, valid) ==
  /\ verdict' = [verdict EXCEPT !.decision = Worst(@, decision)]
  /\ ask' = [ask EXCEPT !.valid = valid]
  /\ stage' = "done"

EngineAccepts ==
  /\ stage = "asking" /\ Steps[ask.step] # "decide"
  /\ ask' = [ask EXCEPT !.step = @ + 1, !.tries = 0]
  /\ UNCHANGED <<cases, manifest, todo, judging, rows, verdict, stage>>

EngineDecides ==
  /\ stage = "asking" /\ Steps[ask.step] = "decide"
  /\ \E d \in DOMAIN Rank : Close(d, TRUE)
  /\ UNCHANGED <<cases, manifest, todo, judging, rows>>

\* One request is repeated once after a refused connection.
EngineRefuses ==
  /\ stage = "asking"
  /\ IF ask.tries = 0
       THEN ask' = [ask EXCEPT !.tries = 1] /\ UNCHANGED <<verdict, stage>>
       ELSE Close("BLOCK", FALSE)
  /\ UNCHANGED <<cases, manifest, todo, judging, rows>>

\* A timeout, another status, a body that is no valid decision.
FailsClosed == "BLOCK"

EngineFails ==
  /\ stage = "asking"
  /\ Close(FailsClosed, FALSE)
  /\ UNCHANGED <<cases, manifest, todo, judging, rows>>

\* A decision whose body is a JSON list has no get: AttributeError escapes.
EngineEscapes ==
  /\ stage = "asking" /\ Steps[ask.step] = "decide"
  /\ stage' = "failed"
  /\ UNCHANGED <<cases, manifest, todo, judging, rows, verdict, ask>>

-----------------------------------------------------------------------------
GateInit ==
  /\ cases \in Datasets /\ manifest \in Manifests
  /\ todo = Plan(cases) /\ judging = <<>>
  /\ rows = [role \in Role |-> <<>>]
  /\ verdict = [decision |-> "none", reasons |-> {}, news |-> [block |-> 0, warn |-> 0]]
  /\ ask = [step |-> 1, tries |-> 0, valid |-> FALSE]
  /\ stage = "cases"

GateNext ==
  \/ TargetAnswers \/ TargetFails \/ JudgeAnswers \/ JudgeUnknown \/ JudgeEscapes
  \/ PersistRaises \/ PersistEvaluates
  \/ EngineAccepts \/ EngineDecides \/ EngineRefuses \/ EngineFails \/ EngineEscapes

GateSpec == GateInit /\ [][GateNext]_gateVars

-----------------------------------------------------------------------------
(* Properties *)

\* What an answer is worth, read from the telemetry and not from the rules: the
\* events of an invocation are three, in order.
Orderly(events) == \A inv \in {v.inv : v \in Range(events)} :
  \E i, j, k \in DOMAIN events :
    /\ i < j /\ j < k /\ {l \in DOMAIN events : events[l].inv = inv} = {i, j, k}
    /\ events[i].type = "skill.selected" /\ events[j].type = "skill.started"
    /\ events[k].type \in Terminal
Genuine(events, bound) ==
  \A v \in Range(events) : v.name \in DOMAIN bound /\ bound[v.name] = v.sha
Chosen(events, wanted) == \A k \in wanted : \E v \in Selections(events) : v.name = k
Supported(claims, allowed) ==
  \A claim \in Range(claims) : claim.refs # {} /\ claim.refs \subseteq allowed
Claimed(claims, wanted) == \A q \in wanted : \E claim \in Range(claims) : claim.id = q.id

Trustworthy(role, row) ==
  LET e == Expected[row.case]
      r == row.answer
  IN /\ row.failure = "none"
     /\ r.text \cap e.unsafe = {}
     /\ r.skills # <<>> /\ Orderly(r.skills) /\ Genuine(r.skills, Bound[role])
     /\ Chosen(r.skills, e.skills.required)
     /\ \A s \in e.evidence : Supported(r.claims, s.allowed) /\ Claimed(r.claims, s.required)
     /\ \A s \in e.scenario :
          /\ r.nodes # {}
          /\ \A n \in s.required : <<n, "completed">> \in r.nodes
          /\ \A n \in s.forbidden : <<n, "completed">> \notin r.nodes
          /\ \A x \in r.nodes : x[2] # "failed"
          /\ s.handoffs \subseteq r.handoffs

\* Every control is on, and asks for everything where it asks for a share.
Whole(x) == x.d > 0 /\ x.n >= x.d
Strict ==
  /\ \E c \in policy.skill : c.telemetry /\ c.unbound /\ c.lifecycle
  /\ \E c \in policy.evidence : c.invalidRefs /\ c.unsupported /\ Whole(c.coverage)
  /\ \E c \in policy.scenario : c.telemetry /\ c.lifecycle /\ c.handoffs /\ Whole(c.nodes)

\* A candidate passes a gate with all its controls on only if every answer is
\* one to be trusted and a policy engine that was to be asked gave a decision:
\* no average, early return or failure along the way hides a bad answer.
ShipTrusted ==
  stage = "done" /\ Strict /\ verdict.decision # "BLOCK" =>
    /\ \A row \in Range(rows.candidate) : Trustworthy("candidate", row)
    /\ policy.opa => ask.valid
    /\ verdict.news.block = 0

\* No limit asks for more than everything, or for a growth of the success rate.
AtMostAll(x) == x.n <= x.d
Attainable ==
  /\ policy.limits.drop >= 0 /\ AtMostAll(policy.limits.toolArguments)
  /\ \A c \in policy.skill : AtMostAll(c.accuracy) /\ AtMostAll(c.coverage)
  /\ \A c \in policy.evidence : AtMostAll(c.coverage)
  /\ \A c \in policy.scenario : AtMostAll(c.nodes)

\* The gate blocks for a reason: with a candidate whose answers are all to be
\* trusted and pass, no worse coverage and no new finding, it does not block.
Flawless(row) ==
  /\ Trustworthy("candidate", row)
  /\ \A x \in row.rules : x.passed \/ x.cat = "hallucination_judge"

CleanNotBlocked ==
  /\ stage = "done" /\ verdict.news.block = 0 /\ ~ policy.opa
  /\ Attainable
  /\ coverage.candidate.n = coverage.candidate.d
  /\ policy.judge = {} \/ Candidate.judge = "known"
  /\ policy.evidence = {} \/ Candidate.evidence.d # 0
  /\ policy.scenario = {} \/ Candidate.nodeSuccess.d # 0
  /\ \A row \in Range(rows.candidate) : Flawless(row)
  => verdict.decision # "BLOCK"

\* The causes for which a run ends without a gate: a result is missing, because
\* a judge's answer lost it; a baseline cost is a zero that prints otherwise; or
\* a policy engine that was asked for its decision answered with no JSON object.
\* The last one is what EngineFailsClosed denies: here it is named as a cause,
\* so that nothing else of the engine ends a run so.
FailedForCause ==
  stage = "failed" =>
    \/ \E role \in Role : Len(rows[role]) < Len(cases)
    \/ /\ \A row \in Range(rows.baseline) : row.cost # {}
       /\ Total(rows.baseline, Spent) = 0
       /\ \E row \in Range(rows.baseline) : \E c \in row.cost : ~ c.plain
    \/ policy.opa /\ Steps[ask.step] = "decide"

\* docs/engineering-details.md:44: an engine that times out, is unavailable, or
\* answers undefined or illegal output is uniformly BLOCK, so that a run whose
\* built-in rules have decided is never left without a gate by the engine.  The
\* code does otherwise where the body of the decision is a JSON list
\* (policy.py:124-134).
EngineFailsClosed == verdict.decision # "none" => stage # "failed"
=============================================================================
