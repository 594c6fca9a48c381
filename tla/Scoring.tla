------------------------------ MODULE Scoring ------------------------------
(***************************************************************************)
(* How one executed case is scored (evaluation/scoring.py): the rules a    *)
(* case's expectation asks for, applied to what the agent returned.        *)
(*                                                                         *)
(* A report is the set of its rules; the name and key of a rule tell it    *)
(* from the others.  An optional part of an expectation is a set with at   *)
(* most one element, an output a partial function from paths to numbers.   *)
(* Skill names, node ids, claims and references may be anything.           *)
(***************************************************************************)
EXTENDS Integers, Sequences, FiniteSets, SequencesExt

\* seen: what observed says where aggregate_metrics reads it; n: a count in it.
Rule(cat, id, key, ok, crit) ==
  [cat |-> cat, id |-> id, key |-> key, passed |-> ok, critical |-> crit,
   seen |-> "", n |-> 0]

Passed(rules) == \A x \in rules : x.critical => x.passed

NamesOf(calls) == {calls[i].name : i \in DOMAIN calls}
Sequence(calls) == [i \in DOMAIN calls |-> calls[i].name]
InOrder(names, wanted) == SelectSeq(names, LAMBDA x : x \in Range(wanted)) = wanted

-----------------------------------------------------------------------------
(* Assertions on the output *)

\* _lookup: the value at a path, as a sequence that is empty without one.
Lookup(output, path) == IF path \in DOMAIN output THEN <<output[path]>> ELSE <<>>

\* _compare, for numbers.
Compare(found, op, wanted) ==
  CASE op = "equals" -> found = <<wanted>>
    [] op = "not_equals" -> found # <<wanted>>
    [] op = "exists" -> found # <<>>
    [] op = "gte" -> found # <<>> /\ found[1] >= wanted
    [] op = "lte" -> found # <<>> /\ found[1] <= wanted

Asserted(cat, id, assertions, output) ==
  {Rule(cat, id, a, Compare(Lookup(output, a.path), a.op, a.value), a.critical) :
     a \in assertions}

FinalActionRules(e, r) ==
  IF e.actions = {} THEN {}
  ELSE {Rule("final_action", "final_action", 0, r.action \in e.actions, TRUE)}

\* A JSON schema is the set of the outputs it admits.
OutputRules(e, r) ==
  {Rule("output", "output.equals", 0, r.output = o, TRUE) : o \in e.equals}
  \cup Asserted("output", "output.assertion", e.assertions, r.output)
  \cup {Rule("schema", "output.json_schema", 0, r.output \in s, TRUE) : s \in e.schema}

BusinessRules(e, r) == Asserted("business", "business", e.business, r.output)

CitationRules(e, r) ==
  {Rule("citations", "citations.min_count", 0, r.citations >= c.minimum, c.critical) :
     c \in e.citations}

\* r.text: the patterns the output matches.
SafetyRules(e, r) ==
  {Rule("safety", "safety.forbidden_pattern", p, p \notin r.text, TRUE) : p \in e.unsafe}

-----------------------------------------------------------------------------
(* Tools *)

FirstCall(calls, name) == CHOOSE i \in DOMAIN calls :
  calls[i].name = name /\ \A j \in 1 .. i - 1 : calls[j].name # name

\* Only the first call of a tool has its arguments compared.
ToolRules(e, r) ==
  LET names == NamesOf(r.tools) IN
  UNION {
    {Rule("tool_required", "tools.required", t, t \in names, TRUE) : t \in s.required}
    \cup {Rule("tool_forbidden", "tools.forbidden", t, t \notin names, TRUE) : t \in s.forbidden}
    \cup {Rule("tool_order", "tools.order", 0, InOrder(Sequence(r.tools), o), TRUE) : o \in s.order}
    \cup {Rule("tool_arguments", "tools.arguments", a.name,
               a.name \in names /\ r.tools[FirstCall(r.tools, a.name)].args = a.args, TRUE) :
            a \in s.arguments}
    : s \in e.tools}

-----------------------------------------------------------------------------
(* Skills *)

SkillEventType == {"skill.selected", "skill.started", "skill.completed", "skill.failed"}
Terminal == {"skill.completed", "skill.failed"}

After(type) ==
  CASE type = "skill.selected" -> "selected"
    [] type = "skill.started" -> "started"
    [] OTHER -> "terminal"

\* What the lifecycle table says of an invocation before its event i, and at
\* the end of the events.
Earlier(events, inv, i) == {j \in 1 .. i - 1 : events[j].inv = inv}
Lifecycle(events, inv, i) ==
  IF Earlier(events, inv, i) = {} THEN "none"
  ELSE After(events[Max(Earlier(events, inv, i))].type)

TransitionMutant(previous, type) == After(type) # previous

Transition(previous, type) ==
  CASE type = "skill.selected" -> previous = "none"
    [] type = "skill.started" -> previous = "selected"
    [] type \in Terminal -> previous = "started"
    [] OTHER -> FALSE

Unfinished(events) ==
  {inv \in {events[i].inv : i \in DOMAIN events} :
     Lifecycle(events, inv, Len(events) + 1) # "terminal"}

OfType(events, types) == SelectSeq(events, LAMBDA v : v.type \in types)
Selections(events) == {v \in Range(events) : v.type = "skill.selected"}

\* Each event must name a bound skill, match its version and hash, and be the
\* next step of its invocation.
EventRules(events, bound) ==
  UNION {
    LET v == events[i]
        known == v.name \in DOMAIN bound
    IN {Rule("skill_identity", "skills.bound", i, known, TRUE),
        Rule("skill_identity", "skills.identity", i, known /\ v.sha = bound[v.name], TRUE),
        [Rule("skill_lifecycle", "skills.lifecycle", i,
              Transition(Lifecycle(events, v.inv, i), v.type), TRUE) EXCEPT !.seen = v.type]}
    : i \in DOMAIN events}

SelectionRules(s, events, selected) ==
  LET names == {v.name : v \in Selections(events)} IN
  {Rule("skill_selection", "skills.required", k, k \in names, TRUE) : k \in s.required}
  \cup (IF s.allowed = {} THEN {}
        ELSE {Rule("skill_selection", "skills.allowed", 0, names \subseteq s.allowed, TRUE)})
  \cup {Rule("skill_selection", "skills.forbidden", k, k \notin names, TRUE) : k \in s.forbidden}
  \cup {Rule("skill_selection", "skills.order", 0, InOrder(selected, o), TRUE) : o \in s.order}
  \cup {Rule("skill_selection", "skills.max_calls", 0, Len(selected) <= n, TRUE) : n \in s.maxCalls}

\* The arguments of some selection of the skill must hash to what is expected.
ArgumentRules(s, events) ==
  {Rule("skill_selection", "skills.arguments_sha256", h.name,
        \E v \in Selections(events) : v.name = h.name /\ v.args = h.args,
        TRUE) : h \in s.hashes}

\* _score_skills: with no skill event at all only the telemetry rule is there.
SkillRules(e, r, bound) ==
  LET s == e.skills
      events == r.skills
      selected == Sequence(OfType(events, {"skill.selected"}))
      repeated == Len(selected) - Cardinality(Range(selected))
  IN {[Rule("skill_telemetry", "skills.telemetry", 0,
            events # <<>> \/ ~ s.telemetry, s.telemetry)
         EXCEPT !.seen = IF events = <<>> THEN "unknown" ELSE "known"]}
     \cup IF events = <<>> THEN {} ELSE
       EventRules(events, bound)
       \cup {Rule("skill_lifecycle", "skills.lifecycle.complete", 0, Unfinished(events) = {}, TRUE)}
       \cup SelectionRules(s, events, selected) \cup ArgumentRules(s, events)
       \cup {[Rule("skill_redundancy", "skills.redundant_calls", 0,
                   s.repeats \/ repeated = 0, FALSE) EXCEPT !.n = repeated]}
       \cup {Rule("skill_identity", "skills.output_claim", 0,
                  c = Sequence(OfType(events, Terminal)), TRUE) : c \in r.claimed}

-----------------------------------------------------------------------------
(* Evidence *)

\* The last claim of an id is the one its requirement is checked against.
LastClaim(claims, id) == claims[Max({i \in DOMAIN claims : claims[i].id = id})]

MapsTo(claims, q) ==
  /\ \E i \in DOMAIN claims : claims[i].id = q.id
  /\ LastClaim(claims, q.id).refs # {}
  /\ LastClaim(claims, q.id).refs \subseteq q.allowed

\* The references of claims that are not allowed, and the claims without any.
Foreign(claims, allowed) ==
  {p \in (DOMAIN claims) \X UNION {claims[i].refs : i \in DOMAIN claims} :
     p[2] \in claims[p[1]].refs \ allowed}
Bare(claims) == {i \in DOMAIN claims : claims[i].refs = {}}

InvalidRule(claims, allowed) ==
  [Rule("evidence_invalid_ref", "evidence.invalid_refs", 0, Foreign(claims, allowed) = {}, TRUE)
     EXCEPT !.n = Cardinality(Foreign(claims, allowed))]
BareRule(claims) ==
  [Rule("evidence_unsupported_claim", "evidence.unsupported_claims", 0, Bare(claims) = {}, TRUE)
     EXCEPT !.n = Cardinality(Bare(claims))]

ClaimRules(s, claims) ==
  LET covered == {q \in s.required : MapsTo(claims, q)}
      reaches == IF s.required # {}
                   THEN 100 * Cardinality(covered) >= s.minimum * Cardinality(s.required)
                   ELSE claims # <<>> \/ s.minimum = 0
  IN {InvalidRule(claims, s.allowed), BareRule(claims),
      Rule("evidence_coverage", "evidence.coverage", 0,
           reaches /\ (claims # <<>> \/ ~ s.must), s.must)}
     \cup {Rule("evidence_claim", "evidence.claim", q.id, q \in covered, TRUE) : q \in s.required}

EvidenceRules(e, r) == UNION {ClaimRules(s, r.claims) : s \in e.evidence}

-----------------------------------------------------------------------------
(* Scenarios *)

NodeRules(s, r) ==
  {[Rule("scenario_telemetry", "scenario.telemetry", 0, r.nodes # {} \/ ~ s.telemetry, s.telemetry)
      EXCEPT !.seen = IF r.nodes = {} THEN "unknown" ELSE "known"],
   Rule("scenario_node", "scenario.forbidden", 0,
        \A n \in s.forbidden : <<n, "completed">> \notin r.nodes, TRUE),
   Rule("scenario_lifecycle", "scenario.failures", 0, \A x \in r.nodes : x[2] # "failed", TRUE),
   Rule("scenario_handoff", "scenario.handoffs", 0, s.handoffs \subseteq r.handoffs, TRUE)}
  \cup {Rule("scenario_node", "scenario.required", n, <<n, "completed">> \in r.nodes, TRUE) :
          n \in s.required}

ScenarioRules(e, r) == UNION {NodeRules(s, r) : s \in e.scenario}

-----------------------------------------------------------------------------
\* score_agent_result
Score(e, r, bound) ==
  FinalActionRules(e, r) \cup OutputRules(e, r) \cup ToolRules(e, r)
  \cup SkillRules(e, r, bound) \cup CitationRules(e, r) \cup EvidenceRules(e, r)
  \cup SafetyRules(e, r) \cup BusinessRules(e, r) \cup ScenarioRules(e, r)
=============================================================================
