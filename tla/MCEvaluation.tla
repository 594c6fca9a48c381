---------------------------- MODULE MCEvaluation ----------------------------
(***************************************************************************)
(* From the target to the decision and what the decision admits, one part  *)
(* at a time: the event streams of AG-UI (AgUi); targets that work on      *)
(* their own (RemoteTasks); the scores, gate and policy of a run           *)
(* (ReleaseGate), with three datasets, one case whose skill transcript is  *)
(* anything short, one whose other evidence varies, and two cases whose    *)
(* results are averaged; and scenario runs (ScenarioRuntime), with bodies  *)
(* of both modes, one that is refused and two that differ in their limits  *)
(* only, and a gate that authorises a pilot or is of another graph.  The   *)
(* four share no state, so a run chooses one and the others stay as they   *)
(* began.                                                                  *)
(***************************************************************************)
EXTENDS ReleaseGate, AgUi, RemoteTasks, ScenarioRuntime

VARIABLE part

evaluationVars == <<gateVars, agUiVars, taskVars, runtimeVars, part>>

MCRun == {"run.started", "run.finished"}
MCTopics ==
  [s1 |-> {MCRun \cup {"other", "invalid", "run.error"},
           MCRun \cup TextNew \cup TextMore \cup TextLast,
           MCRun \cup {"tool.start", "tool.chunk", "tool.args", "tool.end", "tool.result"},
           MCRun \cup {"tool.name", "tool.args", "tool.part", "tool.end", "tool.result"},
           MCRun \cup Thought \cup {"reasoning.start", "thinking.start", "reasoning.end"}},
   s2 |-> {MCRun}]
MCMaxEvents == [s1 |-> 5, s2 |-> 0]

Ratio1(n, d) == [n |-> n, d |-> d]
MCBound == [role \in Role |-> [k \in {"K"} |-> "sha"]]

Said(type, inv, name, sha) ==
  [type |-> type, inv |-> inv, name |-> name, sha |-> sha, args |-> "a"]
Letters == {Said(t, i, "K", "sha") : t \in SkillEventType, i \in 1 .. 2}
Chain(inv, last) == <<Said("skill.selected", inv, "K", "sha"),
                      Said("skill.started", inv, "K", "sha"), Said(last, inv, "K", "sha")>>
Good == Chain(1, "skill.completed")
Forged == {Said("skill.started", 1, "U", "sha"), Said("skill.started", 1, "K", "old")}
Transcripts ==
  UNION {[1 .. n -> Letters] : n \in 0 .. 2} \cup [1 .. 3 -> {x \in Letters : x.inv = 1}]
  \cup {<<Good[1], f, Good[3]>> : f \in Forged}
  \cup {Good \o Chain(2, "skill.failed"),
        <<Good[1], Chain(2, "skill.completed")[1], Good[2], Good[3],
          Chain(2, "skill.completed")[2], Chain(2, "skill.completed")[3]>>}

Skills == [telemetry |-> TRUE, required |-> {"K"}, allowed |-> {"K"}, forbidden |-> {"U"},
           order |-> {}, maxCalls |-> {}, repeats |-> TRUE,
           hashes |-> {[name |-> "K", args |-> "a"]}]
Evidence == [allowed |-> {"r"}, required |-> {[id |-> "c", allowed |-> {"r"}]},
             minimum |-> 100, must |-> TRUE]
Nodes == [telemetry |-> TRUE, required |-> {"m"}, forbidden |-> {"f"}, handoffs |-> {"h"}]
Full == [actions |-> {"done"}, equals |-> {}, schema |-> {},
         assertions |-> {[path |-> "x", op |-> "gte", value |-> 1, critical |-> TRUE]},
         business |-> {[path |-> "x", op |-> "lte", value |-> 2, critical |-> FALSE]},
         citations |-> {[minimum |-> 1, critical |-> TRUE]}, unsafe |-> {"leak"},
         tools |-> {[required |-> {"t"}, forbidden |-> {"u"}, order |-> {<<"t">>},
                     arguments |-> {[name |-> "t", args |-> 1]}]},
         skills |-> Skills, evidence |-> {Evidence}, scenario |-> {Nodes}, judge |-> {}]

MCExpected == [skills |-> Full, mixed |-> [Full EXCEPT !.judge = {70}],
               first |-> Full, second |-> Full]

Fine == [action |-> "done", output |-> [x |-> 1], tools |-> <<[name |-> "t", args |-> 1]>>,
         skills |-> Good, claimed |-> {<<"K">>}, citations |-> 1,
         claims |-> <<[id |-> "c", refs |-> {"r"}]>>, text |-> {},
         nodes |-> {<<"m", "completed">>}, handoffs |-> {"h"}, latency |-> 10,
         usage |-> [f \in {"input_tokens"} |-> 1], cost |-> {}]
Bad ==
  {[Fine EXCEPT !.text = {"leak"}], [Fine EXCEPT !.claims = <<>>],
   [Fine EXCEPT !.claims = <<[id |-> "c", refs |-> {}]>>],
   [Fine EXCEPT !.claims = <<[id |-> "c", refs |-> {"z"}], [id |-> "c", refs |-> {"r"}]>>],
   [Fine EXCEPT !.nodes = {<<"m", "failed">>}],
   [Fine EXCEPT !.nodes = {<<"m", "completed">>, <<"f", "completed">>}],
   [Fine EXCEPT !.nodes = {}], [Fine EXCEPT !.handoffs = {}], [Fine EXCEPT !.action = "other"],
   [Fine EXCEPT !.citations = 0], [Fine EXCEPT !.output = [x |-> 3]],
   [Fine EXCEPT !.tools = <<[name |-> "u", args |-> 1]>>], [Fine EXCEPT !.latency = 30],
   [Fine EXCEPT !.usage = [f \in {"input_tokens"} |-> 9]], [Fine EXCEPT !.skills = <<>>]}

MCAnswers ==
  [baseline |-> [skills |-> {Fine},
                 mixed |-> {Fine, [Fine EXCEPT !.usage = [f \in {"input_tokens"} |-> 0]]},
                 first |-> {Fine}, second |-> {Fine, [Fine EXCEPT !.action = "other"]}],
   candidate |-> [skills |-> {[Fine EXCEPT !.skills = t, !.claimed = {}] : t \in Transcripts},
                  mixed |-> Bad \cup {Fine},
                  first |-> {x \in Bad : x.handoffs = Fine.handoffs /\ x.nodes = Fine.nodes},
                  second |-> {Fine, [Fine EXCEPT !.action = "other"]}]]

MCVerdicts == {[verdict |-> "supported", confidence |-> 80, tokens |-> {1}],
               [verdict |-> "unsupported", confidence |-> 90, tokens |-> {}]}
One == Ratio1(1, 1)
Limits == [drop |-> 3, toolArguments |-> Ratio1(19, 20), latencyGrowth |-> Ratio1(1, 5),
           costGrowth |-> Ratio1(1, 5)]
Lax == [limits |-> Limits, skill |-> {}, evidence |-> {}, judge |-> {}, scenario |-> {},
        opa |-> FALSE]
Tight ==
  [Lax EXCEPT
     !.skill = {[telemetry |-> TRUE, unbound |-> TRUE, lifecycle |-> TRUE, accuracy |-> One,
                 coverage |-> One, growth |-> Ratio1(1, 5)]},
     !.evidence = {[invalidRefs |-> TRUE, unsupported |-> TRUE, coverage |-> One]},
     !.scenario = {[telemetry |-> TRUE, lifecycle |-> TRUE, handoffs |-> TRUE, nodes |-> One]}]
Price(amount, plain) == [amount |-> amount, plain |-> plain]
Priced(plain) == {[input_tokens |-> Price(1, plain), judge_tokens |-> Price(0, plain)]}
All == [baseline |-> Unknown, candidate |-> One]
Manifest(p, prices_, covered) == [policy |-> p, prices |-> prices_, coverage |-> covered]
MCManifests ==
  {Manifest(Lax, {}, All), Manifest(Tight, Priced(TRUE), All),
   Manifest(Tight, {}, [baseline |-> One, candidate |-> Ratio1(1, 2)]),
   Manifest([Tight EXCEPT !.opa = TRUE], {}, All),
   Manifest([Tight EXCEPT !.judge = {[required |-> TRUE, supported |-> One, maximum |-> 0]}],
            Priced(FALSE), All)}
MCDatasets == {<<"skills">>, <<"mixed">>, <<"first", "second">>}
MCOneCase == {<<"mixed">>}

MCEffects == [reader |-> {"none"}, mailer |-> {"none", "idempotent"}]
Shadow == [version |-> "reader", mode |-> "shadow", limits |-> FALSE]
Capped == [Shadow EXCEPT !.limits = TRUE]
Mailer == [version |-> "mailer", mode |-> "shadow", limits |-> FALSE]
Pilot == [version |-> "mailer", mode |-> "pilot", limits |-> TRUE]
MCBody == {Shadow, Capped, Mailer, Pilot}
MCGateRow ==
  {[decision |-> "SHIP", sameSha |-> TRUE, opaShip |-> TRUE],
   [decision |-> "SHIP", sameSha |-> FALSE, opaShip |-> TRUE]}

\* The first state of each part the run does not choose is one and the same.
EvaluationInit ==
  /\ part \in {"ag_ui", "tasks", "release", "runtime"}
  /\ part # "ag_ui" =>
       /\ key = [s \in Sample |-> "r1"] /\ topic = [s \in Sample |-> CHOOSE t \in MCTopics[s] : TRUE]
  /\ part # "tasks" => protocol = "call" /\ wait = [s \in Caller |-> TRUE]
  /\ part # "release" =>
       cases = <<"mixed">> /\ manifest = CHOOSE m \in MCManifests : m.policy = Lax
  /\ AgUiInit /\ TaskInit /\ GateInit /\ RuntimeInit

EvaluationNext ==
  \/ part = "ag_ui" /\ AgUiNext /\ UNCHANGED <<taskVars, gateVars, runtimeVars, part>>
  \/ part = "tasks" /\ TaskNext /\ UNCHANGED <<agUiVars, gateVars, runtimeVars, part>>
  \/ part = "release" /\ GateNext /\ UNCHANGED <<agUiVars, taskVars, runtimeVars, part>>
  \/ part = "runtime" /\ RuntimeNext /\ UNCHANGED <<agUiVars, taskVars, gateVars, part>>

EvaluationSpec == EvaluationInit /\ [][EvaluationNext]_evaluationVars
=============================================================================
