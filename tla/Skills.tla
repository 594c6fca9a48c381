------------------------------- MODULE Skills -------------------------------
(***************************************************************************)
(* Skill versions, their scans, and the skills bound to agent versions     *)
(* (skills.py, api/security_routes.py), with the requests that freeze them *)
(* in an evaluation run (create_eval_run in services.py).                  *)
(*                                                                         *)
(* A skill version is <<name, number>> and its content is what its digest  *)
(* covers.  A request reads without a lock and commits later.              *)
(***************************************************************************)
EXTENDS Naturals, FiniteSets

CONSTANTS
  AgentVersion,
  Uploads,      \* the imports somebody sends: [skill, content, secret]
  Cases,        \* the skill rules of the dataset: [required, forbidden, order]
  Editor,      \* requests under way
  MaxSkills,      \* bound on the skill versions
  MaxEdits,     \* bound on the committed replacements of bindings
  MaxRuns       \* bound on the evaluation runs

VARIABLES
  catalog,      \* the frozen skill versions: a partial function to contents
  scanned,      \* the skill versions that have a scan
  bound,        \* agent_version_skills
  torn,         \* the agent versions whose rows are of two replacements
  runs,         \* the evaluation runs, in the order of their ids
  pending,     \* Editor -> what it is doing
  edits

skillVars == <<catalog, scanned, bound, torn, runs, pending, edits>>

Skill == {u.skill : u \in Uploads}

-----------------------------------------------------------------------------
(* The scanner.  A content has the traits its files and its manifest show;   *)
(* each is found once.                                                       *)

Blocking ==
  {"unrestricted_network", "unrestricted_filesystem_write", "high_risk_execution"}
Heuristic == {"unknown_file_type", "instruction_override", "unpinned_dependency"}

Warnings(content) ==
  (content.traits \cap Heuristic)
    \cup (IF "uses_network" \in content.traits /\ ~ content.network
            THEN {"undeclared_network"} ELSE {})
    \cup (IF "uses_shell" \in content.traits /\ ~ content.shell THEN {"undeclared_shell"} ELSE {})
    \cup (IF "uses_shell" \notin content.traits /\ content.shell
            THEN {"unused_shell_permission"} ELSE {})

Blocks(content) == content.traits \cap Blocking

Verdict(content) ==
  IF Blocks(content) # {} THEN "block" ELSE IF Warnings(content) # {} THEN "warn" ELSE "pass"

-----------------------------------------------------------------------------
(* Which skills may be bound together.  Each rule is over the contents of    *)
(* the bound skills.                                                         *)

\* validate_skill_manifest
WellFormed(content) ==
  /\ content.schema
  /\ content.intents # {}
  /\ \A d \in content.needs : d.number # 0 \/ d.sha # "any"

Names(skills) == {s[1] : s \in skills}

\* Two of the skills, and what must not be shared between them.
Disjoint(skills, store) ==
  \A s, t \in skills : s # t =>
    /\ s[1] # t[1]
    /\ store[s].group = "none" \/ store[s].group # store[t].group
    /\ store[s].intents \cap store[t].intents = {}

Satisfied(d, skills, store) ==
  \E t \in skills : /\ t[1] = d.name
                    /\ d.number = 0 \/ t[2] = d.number
                    /\ d.sha = "any" \/ store[t].sha = d.sha

Coherent(skills, store) ==
  /\ Cardinality(skills) > 1 => \A s \in skills : WellFormed(store[s])
  /\ Disjoint(skills, store)
  /\ \A s \in skills : /\ store[s].conflicts \cap Names(skills) = {}
                       /\ \A d \in store[s].needs : Satisfied(d, skills, store)

CleanMutant(skills) == \A s \in skills \cap scanned : Verdict(catalog[s]) # "block"

\* Each skill has a scan and its latest one does not block.  A scan is a
\* function of the frozen content, so that all scans of a version agree.
Clean(skills) == \A s \in skills : s \in scanned /\ Verdict(catalog[s]) # "block"

FrozenMutant(v) == \E r \in DOMAIN runs : runs[r].candidate = v

\* An evaluation run refers to the agent version.
Frozen(v) == \E r \in DOMAIN runs : v \in {runs[r].baseline, runs[r].candidate}

Acceptable(v, skills) ==
  /\ skills \subseteq DOMAIN catalog
  /\ ~ Frozen(v)
  /\ Coherent(skills, catalog)
  /\ Clean(skills)

-----------------------------------------------------------------------------
(* What a run freezes and what is computed from it *)

\* _version_skill_snapshot
Snapshot(v) ==
  {[skill |-> s, sha |-> catalog[s].sha,
    scan |-> IF s \in scanned THEN Verdict(catalog[s]) ELSE "none"] : s \in bound[v]}

\* Rows come ordered by number, and a dict keeps the last of a name.
LastOfName(skills) == {s \in skills : \A t \in skills : t[1] = s[1] => t[2] <= s[2]}

Requirements(skills) ==
  {<<side, s>> : side \in {"required", "forbidden"}, s \in skills}
    \cup UNION {{<<"dependency", s[1], d.name>> : d \in catalog[s].needs} : s \in LastOfName(skills)}
    \cup UNION {{<<"conflict", {s[1], n}>> : n \in catalog[s].conflicts} : s \in LastOfName(skills)}

\* _case_has_skill_order: order is a function from names to positions.
InOrder(case, first, second) ==
  {first, second} \subseteq DOMAIN case.order /\ case.order[first] <= case.order[second]

Covered(q) ==
  \E case \in Cases :
    \/ q[1] \in {"required", "forbidden"} /\ q[2][1] \in case[q[1]]
    \/ q[1] = "dependency" /\ InOrder(case, q[3], q[2])
    \/ /\ q[1] = "conflict"
       /\ \E a \in q[2] : a \in case.required /\ q[2] \ {a} \subseteq case.forbidden
                           /\ (q[2] = {a} => a \in case.forbidden)

\* skill_coverage, the ratio as a pair
Coverage(skills) ==
  LET all == Requirements(skills) IN <<Cardinality({q \in all : Covered(q)}), Cardinality(all)>>

\* skill_regression: findings of a package of the candidate that the package
\* of the same name did not have in the baseline.
Findings(s, level) ==
  IF s \notin scanned THEN {}
  ELSE IF level = "block" THEN Blocks(catalog[s]) ELSE Warnings(catalog[s])

Before(s, baseline, level) ==
  UNION {Findings(t, level) : t \in {u \in LastOfName(baseline) : u[1] = s[1]}}

Grown(candidate, baseline, level) ==
  {s \in candidate :
     Cardinality(Findings(s, level)) > Cardinality(Before(s, baseline, level))}

Regression(baseline, candidate) ==
  [block |-> Grown(candidate, baseline, "block"), warn |-> Grown(candidate, baseline, "warn")]

-----------------------------------------------------------------------------
SkillsInit ==
  /\ catalog = [s \in {} |-> {}]
  /\ scanned = {}
  /\ bound = [v \in AgentVersion |-> {}]
  /\ torn = {}
  /\ runs = [r \in {} |-> {}]
  /\ pending = [c \in Editor |-> [pc |-> "idle"]]
  /\ edits = 0

Becomes(c, r) == pending' = [pending EXCEPT ![c] = r]

\* import_skill and its unique constraints: a package holds a number once and a
\* content once.  Secrets are refused; the same upload again changes nothing.
Import(u) ==
  /\ Cardinality(DOMAIN catalog) < MaxSkills
  /\ ~ u.secret
  /\ \A s \in DOMAIN catalog :
       s[1] = u.skill[1] => s[2] # u.skill[2] /\ catalog[s].sha # u.content.sha
  /\ catalog' = [s \in DOMAIN catalog \cup {u.skill} |->
                   IF s = u.skill THEN u.content ELSE catalog[s]]
  /\ UNCHANGED <<scanned, bound, torn, runs, pending, edits>>

\* post_skill_scan
Scan(s) ==
  /\ s \in DOMAIN catalog
  /\ scanned' = scanned \cup {s}
  /\ UNCHANGED <<catalog, bound, torn, runs, pending, edits>>

-----------------------------------------------------------------------------
(* put_skill_bindings and put_version_skill *)

Asks(c, v, wanted) ==
  /\ pending[c].pc = "idle" /\ edits < MaxEdits
  /\ Becomes(c, [pc |-> "asked", of |-> v, wanted |-> wanted, seen |-> {}])
  /\ UNCHANGED <<catalog, scanned, bound, torn, runs, edits>>

PutBindings(c, v) == \E wanted \in SUBSET DOMAIN catalog : Asks(c, v, wanted)

\* attach_skill_version adds to the bindings it reads.
Attach(c, v) == \E s \in DOMAIN catalog : Asks(c, v, bound[v] \cup {s})

Validates(c) ==
  /\ pending[c].pc = "asked"
  /\ IF Acceptable(pending[c].of, pending[c].wanted)
       THEN Becomes(c, [pending[c] EXCEPT !.pc = "validated"])
       ELSE Becomes(c, [pc |-> "idle"])
  /\ UNCHANGED <<catalog, scanned, bound, torn, runs, edits>>

\* The DELETE removes the rows it sees, when the transaction commits.
Deletes(c) ==
  /\ pending[c].pc = "validated"
  /\ Becomes(c, [pending[c] EXCEPT !.pc = "deleted", !.seen = bound[pending[c].of]])
  /\ UNCHANGED <<catalog, scanned, bound, torn, runs, edits>>

Kept(c) == bound[pending[c].of] \ pending[c].seen

Reading == {"read", "covered"}

EditCommits(c) ==
  /\ pending[c].pc = "deleted" /\ edits < MaxEdits
  /\ pending[c].wanted \cap Kept(c) = {}
  /\ LET v == pending[c].of IN
       /\ bound' = [bound EXCEPT ![v] = Kept(c) \cup pending[c].wanted]
       /\ torn' = IF Kept(c) = {} THEN torn \ {v} ELSE torn \cup {v}
       /\ pending' = [d \in Editor |->
            IF d = c THEN [pc |-> "idle"]
            ELSE IF pending[d].pc \in Reading /\ v \in pending[d].of
                   THEN [pending[d] EXCEPT !.crossed = TRUE]
                   ELSE pending[d]]
  /\ edits' = edits + 1
  /\ UNCHANGED <<catalog, scanned, runs>>

\* A row that a concurrent replacement has inserted violates the primary key;
\* no handler expects it, and the transaction is rolled back.
EditFails(c) ==
  /\ pending[c].pc = "deleted"
  /\ pending[c].wanted \cap Kept(c) # {}
  /\ Becomes(c, [pc |-> "idle"])
  /\ UNCHANGED <<catalog, scanned, bound, torn, runs, edits>>

-----------------------------------------------------------------------------
(* create_eval_run and the evaluation *)

\* The manifest: the snapshots, then the coverage, each with its own SELECTs.
RunReads(c, b, v) ==
  /\ pending[c].pc = "idle" /\ Cardinality(DOMAIN runs) < MaxRuns
  /\ b # v
  /\ Becomes(c, [pc |-> "read", of |-> {b, v}, baseline |-> b, candidate |-> v,
                 before |-> Snapshot(b), after |-> Snapshot(v),
                 coverage |-> <<0, 0>>, crossed |-> FALSE])
  /\ UNCHANGED <<catalog, scanned, bound, torn, runs, edits>>

RunCovers(c) ==
  /\ pending[c].pc = "read"
  /\ Becomes(c, [pending[c] EXCEPT !.pc = "covered",
                                   !.coverage = Coverage(bound[pending[c].candidate])])
  /\ UNCHANGED <<catalog, scanned, bound, torn, runs, edits>>

\* Replacements of the run's versions that are past their validation.
Pending(versions) ==
  {d \in Editor : pending[d].pc \in {"validated", "deleted"} /\ pending[d].of \in versions}

RunCommits(c) ==
  /\ pending[c].pc = "covered" /\ Cardinality(DOMAIN runs) < MaxRuns
  /\ LET q == pending[c]
         row == [baseline |-> q.baseline, candidate |-> q.candidate, before |-> q.before,
                 after |-> q.after, coverage |-> q.coverage, regression |-> {},
                 crossed |-> q.crossed \/ Pending(q.of) # {}]
         id == Cardinality(DOMAIN runs) + 1
     IN  runs' = [r \in DOMAIN runs \cup {id} |-> IF r = id THEN row ELSE runs[r]]
  /\ Becomes(c, [pc |-> "idle"])
  /\ UNCHANGED <<catalog, scanned, bound, torn, edits>>

\* The regression _persist feeds to the gate is of the rows there are then.
Judge(r) ==
  /\ runs[r].regression = {}
  /\ runs' = [runs EXCEPT
       ![r].regression = {Regression(bound[runs[r].baseline], bound[runs[r].candidate])}]
  /\ UNCHANGED <<catalog, scanned, bound, torn, pending, edits>>

SkillsNext ==
  \/ \E u \in Uploads : Import(u)
  \/ \E s \in Skill : Scan(s)
  \/ \E c \in Editor :
       \/ \E v \in AgentVersion : PutBindings(c, v) \/ Attach(c, v)
       \/ Validates(c) \/ Deletes(c) \/ EditCommits(c) \/ EditFails(c)
       \/ \E b, v \in AgentVersion : RunReads(c, b, v)
       \/ RunCovers(c) \/ RunCommits(c)
  \/ \E r \in DOMAIN runs : Judge(r)

SkillsSpec == SkillsInit /\ [][SkillsNext]_skillVars

-----------------------------------------------------------------------------
(* Properties *)

\* Whatever replacements overlap, nothing is bound that was not scanned or that
\* blocks, so that the gate never sees a skill that blocks newly; and what is
\* bound satisfies every rule, unless its rows are of two replacements.
BoundFit ==
  /\ \A v \in AgentVersion :
       Clean(bound[v]) /\ (v \in torn \/ Coherent(bound[v], catalog))
  /\ \A r \in DOMAIN runs : \A g \in runs[r].regression : g.block = {}

\* A run is evaluated with the skills, the coverage and the regressions its
\* manifest was frozen with, unless a replacement of the bindings overlapped
\* its creation.  The exception is where the code falls short of
\* docs/engineering-details.md:42, by which an AgentVersion some EvalRun refers
\* to cannot change its bindings at all: a replacement that was validated before
\* the run's commit commits after it, and the bindings of a version with a run
\* change (skills.py:414-428, :546-575).  What is claimed here is that no later request
\* changes them.
EvidenceFrozen ==
  \A r \in DOMAIN runs : LET run == runs[r] IN
    \/ run.crossed
    \/ /\ run.before = Snapshot(run.baseline) /\ run.after = Snapshot(run.candidate)
       /\ run.coverage = Coverage({e.skill : e \in run.after})
       /\ run.regression \subseteq
            {Regression({e.skill : e \in run.before}, {e.skill : e \in run.after})}
=============================================================================
