-------------------------- MODULE ScenarioRuntime --------------------------
(***************************************************************************)
(* Scenario runs: the requests that create one under an idempotency key    *)
(* (create_scenario_run, post_scenario_run), the release gates a pilot is  *)
(* authorised by, the cancel request, and the executions by worker         *)
(* processes (ScenarioRuntimeExecutor).  What an execution does with the   *)
(* graph is ScenarioDag's business: here it returns or raises.             *)
(*                                                                         *)
(* As in EvalRun, a session that reads a row without a lock and commits    *)
(* later is two steps, and any pushed id may be handed to any idle worker  *)
(* at any time.  The key of a request stands for the run it names.         *)
(***************************************************************************)
EXTENDS Naturals, Sequences

CONSTANTS
  Key,        \* idempotency keys of one organization
  Runner,     \* worker processes
  Call,       \* POST /scenario-runs requests that may be open at a time
  NoKey, NoRunner,
  Effects,    \* the scenario versions, with an input each, and the side effects
              \* of their tools
  Body,       \* request bodies: version, mode, whether they set limits
  GateRow,    \* GateResults of the scenario version's completed runs
  MaxClaim,   \* bound on the claims of one run
  MaxGate     \* bound on the number of gate results

SideEffect == {"none", "idempotent", "unknown"}
BodyType == [version : DOMAIN Effects, mode : {"shadow", "pilot"}, limits : BOOLEAN]
GateType == [decision : {"SHIP", "WARN", "BLOCK"}, sameSha : BOOLEAN, opaShip : BOOLEAN]

ASSUME RuntimeAssumption ==
  /\ NoKey \notin Key
  /\ NoRunner \notin Runner
  /\ \A v \in DOMAIN Effects : Effects[v] \subseteq SideEffect
  /\ Body \subseteq BodyType
  /\ Body # {}
  /\ GateRow \subseteq GateType
  /\ MaxClaim \in Nat
  /\ MaxGate \in Nat

VARIABLES
  row,      \* row[k]: the columns of scenario_runs
  nodes,    \* nodes[k][a]: which claim wrote the scenario_node_runs labelled
            \* with attempt a, or 0
  gates,    \* the gate results, oldest first
  pushed,   \* pushed[k]: how often the id of k's run was enqueued
  call,     \* call[q]: where a request stands, with its key and body
  answered, \* history: the (key, request) pairs answered with 202
  stopping, \* stopping[k]: a cancel request has read the row and will commit
  job       \* job[w]: where worker w stands in execute, with its locals

runtimeVars == <<row, nodes, gates, pushed, call, answered, stopping, job>>

-----------------------------------------------------------------------------
(* Types *)

Final == {"COMPLETED", "CANCELLED", "FAILED"}
RunState == {"ABSENT", "QUEUED", "RUNNING", "CANCEL_REQUESTED"} \cup Final
Claims == 0 .. MaxClaim

RunRow == [status : RunState, owner : Runner \cup {NoRunner},
        lease : {"none", "live", "expired"}, attempt : Claims,
        body : Body, output : Claims]
CallType == [at : {"idle", "insert", "enqueue"}, key : Key \cup {NoKey}, body : Body]
JobType == [at : {"idle", "run", "beat", "persist", "store", "cancel", "drop", "fail", "close"},
            key : Key \cup {NoKey}, claim : Claims,
            saw : [status : RunState, lease : {"none", "live", "expired"}, attempt : Claims]]

\* What a key stands for.  The limits are no part of it: asked again with other
\* ones, the key is answered with the run it has.
Request(b) == <<b.version, b.mode>>

RuntimeTypeOK ==
  /\ row \in [Key -> RunRow]
  /\ nodes \in [Key -> [1 .. MaxClaim -> Claims]]
  /\ gates \in Seq(GateRow) /\ Len(gates) <= MaxGate
  /\ pushed \in [Key -> Nat]
  /\ call \in [Call -> CallType]
  /\ answered \subseteq Key \X {Request(b) : b \in Body}
  /\ stopping \in [Key -> BOOLEAN]
  /\ job \in [Runner -> JobType]

NoBody == CHOOSE b \in Body : TRUE
NoCall == [at |-> "idle", key |-> NoKey, body |-> NoBody]
NoSight == [status |-> "ABSENT", lease |-> "none", attempt |-> 0]
NoJob == [at |-> "idle", key |-> NoKey, claim |-> 0, saw |-> NoSight]

RuntimeInit ==
  /\ row = [k \in Key |-> [status |-> "ABSENT", owner |-> NoRunner, lease |-> "none",
                           attempt |-> 0, body |-> NoBody, output |-> 0]]
  /\ nodes = [k \in Key |-> [a \in 1 .. MaxClaim |-> 0]]
  /\ gates = <<>>
  /\ pushed = [k \in Key |-> 0]
  /\ call = [q \in Call |-> NoCall]
  /\ answered = {}
  /\ stopping = [k \in Key |-> FALSE]
  /\ job = [w \in Runner |-> NoJob]

-----------------------------------------------------------------------------
(* POST /scenario-runs *)

\* An evaluation run of the version ends with a gate decision.
Decide ==
  /\ Len(gates) < MaxGate
  /\ \E g \in GateRow : gates' = Append(gates, g)
  /\ UNCHANGED <<row, nodes, pushed, call, answered, stopping, job>>

\* _validate_side_effects.
Harmless(b) == Effects[b.version] \subseteq
  IF b.mode = "shadow" THEN {"none"} ELSE {"none", "idempotent"}

\* _pilot_gate: the newest of the SHIP gates must match.
PilotGate ==
  LET ships == SelectSeq(gates, LAMBDA g : g.decision = "SHIP")
      newest == ships[Len(ships)]
  IN ships # <<>> /\ newest.sameSha /\ newest.opaShip

Admitted(b) == Harmless(b) /\ (b.mode = "pilot" => b.limits /\ PilotGate)

SameRequestMutant(k, b) == TRUE

\* The key names a run already: is it one of the same request?
SameRequest(k, b) == Request(row[k].body) = Request(b)

\* create_scenario_run up to its INSERT.  A replay of the request is answered
\* with the row, anything else the checks refuse leaves no trace.
PostReads(q) ==
  /\ call[q].at = "idle"
  /\ \E k \in Key, b \in Body :
       \/ /\ row[k].status # "ABSENT"
          /\ SameRequest(k, b)
          /\ answered' = answered \cup {<<k, Request(b)>>}
          /\ UNCHANGED call
       \/ /\ row[k].status = "ABSENT"
          /\ Admitted(b)
          /\ call' = [call EXCEPT ![q] = [at |-> "insert", key |-> k, body |-> b]]
          /\ UNCHANGED answered
  /\ UNCHANGED <<row, nodes, gates, pushed, stopping, job>>

InsertMutant(q) ==
  row' = [row EXCEPT ![call[q].key].status = "QUEUED", ![call[q].key].body = call[q].body]

\* uq_scenario_runs_org_idempotency lets the first of two inserts commit.
Insert(q) ==
  /\ row[call[q].key].status = "ABSENT"
  /\ row' = [row EXCEPT ![call[q].key].status = "QUEUED", ![call[q].key].body = call[q].body]

PostCommits(q) ==
  /\ call[q].at = "insert"
  /\ Insert(q)
  /\ call' = [call EXCEPT ![q].at = "enqueue"]
  /\ UNCHANGED <<nodes, gates, pushed, answered, stopping, job>>

Push(q) == pushed' = [pushed EXCEPT ![call[q].key] = @ + 1]

PostAnswers(q) ==
  /\ call[q].at = "enqueue"
  /\ Push(q)
  /\ answered' = answered \cup {<<call[q].key, Request(call[q].body)>>}
  /\ call' = [call EXCEPT ![q] = NoCall]
  /\ UNCHANGED <<row, nodes, gates, stopping, job>>

\* The insert hits the constraint, enqueue or the audit commit raises, or the
\* API process dies; the id may have been pushed by then.
PostFailsOver(q) ==
  /\ call[q].at # "idle"
  /\ call' = [call EXCEPT ![q] = NoCall]
  /\ \/ call[q].at = "enqueue" /\ Push(q)
     \/ UNCHANGED pushed
  /\ UNCHANGED <<row, nodes, gates, answered, stopping, job>>

\* cancel_scenario_run reads the row, and commits.
StopReads(k) ==
  /\ ~ stopping[k]
  /\ row[k].status \in {"QUEUED", "RUNNING"}
  /\ stopping' = [stopping EXCEPT ![k] = TRUE]
  /\ UNCHANGED <<row, nodes, gates, pushed, call, answered, job>>

StopCommits(k) ==
  /\ stopping[k]
  /\ row' = [row EXCEPT ![k].status = "CANCEL_REQUESTED"]
  /\ stopping' = [stopping EXCEPT ![k] = FALSE]
  /\ UNCHANGED <<nodes, gates, pushed, call, answered, job>>

-----------------------------------------------------------------------------
(* ScenarioRuntimeExecutor *)

rest == <<gates, pushed, call, answered, stopping>>

Sight(k) == [status |-> row[k].status, lease |-> row[k].lease, attempt |-> row[k].attempt]
At(w, l) == job' = [job EXCEPT ![w].at = l]

\* A session writes only the columns that differ from what it loaded.
Written(old, new, current) == IF new = old THEN current ELSE new

\* The row after worker w's session has closed it with status st.
Closed(w, st) ==
  LET k == job[w].key IN
  [row[k] EXCEPT !.status = Written(job[w].saw.status, st, @),
                 !.lease = Written(job[w].saw.lease, "none", @)]

TakeableMutant(k) ==
  \/ row[k].status \in {"QUEUED", "CANCEL_REQUESTED"}
  \/ row[k].status = "RUNNING" /\ row[k].lease # "live"

Takeable(k) ==
  \/ row[k].status = "QUEUED"
  \/ row[k].status = "RUNNING" /\ row[k].lease # "live"

TakenMutant(w, k) ==
  [row[k] EXCEPT !.status = "RUNNING", !.lease = "live", !.attempt = @ + 1,
                 !.owner = IF @ = NoRunner THEN w ELSE @]

Taken(w, k) ==
  [row[k] EXCEPT !.status = "RUNNING", !.lease = "live", !.attempt = @ + 1, !.owner = w]

\* _claim, under FOR UPDATE.
Claim(w, k) ==
  /\ job[w].at = "idle"
  /\ pushed[k] > 0
  /\ Takeable(k)
  /\ row[k].attempt < MaxClaim
  /\ row' = [row EXCEPT ![k] = Taken(w, k)]
  /\ job' = [job EXCEPT ![w] =
       [at |-> "run", key |-> k, claim |-> row[k].attempt + 1, saw |-> NoSight]]
  /\ UNCHANGED <<nodes, rest>>

ClaimStops(w, k) ==
  /\ job[w].at = "idle"
  /\ pushed[k] > 0
  /\ row[k].status = "CANCEL_REQUESTED"
  /\ row' = [row EXCEPT ![k].status = "CANCELLED"]
  /\ UNCHANGED <<nodes, rest, job>>

\* execute_scenario returns, or raises what is no cancellation.
Return(w) ==
  /\ job[w].at = "run"
  /\ At(w, "persist") \/ At(w, "fail")
  /\ UNCHANGED <<row, nodes, rest>>

\* _heartbeat: the row is still w's and nobody wants it stopped.
Holds(w) ==
  /\ row[job[w].key].owner = w
  /\ row[job[w].key].status # "CANCEL_REQUESTED"

BeatReads(w) ==
  /\ job[w].at = "run"
  /\ At(w, IF Holds(w) THEN "beat" ELSE "cancel")
  /\ UNCHANGED <<row, nodes, rest>>

BeatCommits(w) ==
  /\ job[w].at = "beat"
  /\ row' = [row EXCEPT ![job[w].key].lease = "live"]
  /\ At(w, "run")
  /\ UNCHANGED <<nodes, rest>>

\* _persist_success, _mark_cancelled and _mark_failed load the row without a
\* lock ...
CloseReads(w) ==
  /\ job[w].at \in {"persist", "cancel", "fail"}
  /\ job' = [job EXCEPT ![w].saw = Sight(job[w].key),
       ![w].at = CASE @ = "persist" -> "store" [] @ = "cancel" -> "drop" [] OTHER -> "close"]
  /\ UNCHANGED <<row, nodes, rest>>

StoreMutant(w, over) ==
  LET k == job[w].key
      a == job[w].saw.attempt
  IN /\ row' = [row EXCEPT ![k] =
          [Closed(w, IF over THEN "FAILED" ELSE "COMPLETED") EXCEPT !.output = job[w].claim]]
     /\ nodes' = [nodes EXCEPT ![k][a] = IF @ = 0 THEN job[w].claim ELSE @]

\* The node runs carry the attempt the row shows now, and with a row of that
\* label there already (uq_scenario_node_runs_attempt) nothing is stored.
\* over: the usage is unknown or exceeds the limits.
Store(w, over) ==
  LET k == job[w].key
      a == job[w].saw.attempt
  IN /\ nodes[k][a] = 0
     /\ row' = [row EXCEPT ![k] =
          [Closed(w, IF over THEN "FAILED" ELSE "COMPLETED") EXCEPT !.output = job[w].claim]]
     /\ nodes' = [nodes EXCEPT ![k][a] = job[w].claim]

PersistSuccess(w) ==
  /\ job[w].at = "store"
  /\ \E over \in BOOLEAN :
       /\ over => row[job[w].key].body.limits
       /\ Store(w, over)
  /\ job' = [job EXCEPT ![w] = NoJob]
  /\ UNCHANGED rest

PersistFails(w) ==
  /\ job[w].at = "store"
  /\ job' = [job EXCEPT ![w].at = "fail", ![w].saw = NoSight]
  /\ UNCHANGED <<row, nodes, rest>>

EndStatus(w) == IF job[w].at = "drop" THEN "CANCELLED" ELSE "FAILED"

\* ... and commit.
MarkEnded(w) ==
  /\ job[w].at \in {"drop", "close"}
  /\ row' = [row EXCEPT ![job[w].key] = Closed(w, EndStatus(w))]
  /\ job' = [job EXCEPT ![w] = NoJob]
  /\ UNCHANGED <<nodes, rest>>

\* The process dies, or _mark_cancelled or _mark_failed raises.
Dies(w) ==
  /\ job[w].at # "idle"
  /\ job' = [job EXCEPT ![w] = NoJob]
  /\ UNCHANGED <<row, nodes, rest>>

LeaseEnds(k) ==
  /\ row[k].lease = "live"
  /\ row' = [row EXCEPT ![k].lease = "expired"]
  /\ UNCHANGED <<nodes, rest, job>>

-----------------------------------------------------------------------------
RuntimeNext ==
  \/ Decide
  \/ \E q \in Call : PostReads(q) \/ PostCommits(q) \/ PostAnswers(q) \/ PostFailsOver(q)
  \/ \E k \in Key :
       \/ StopReads(k) \/ StopCommits(k) \/ LeaseEnds(k)
       \/ \E w \in Runner : Claim(w, k) \/ ClaimStops(w, k)
  \/ \E w \in Runner :
       \/ Return(w) \/ BeatReads(w) \/ BeatCommits(w)
       \/ CloseReads(w) \/ PersistSuccess(w) \/ PersistFails(w) \/ MarkEnded(w)
       \/ Dies(w)

RuntimeSpec == RuntimeInit /\ [][RuntimeNext]_runtimeVars

-----------------------------------------------------------------------------
(* Safety *)

\* An idempotency key starts one run however often, and however concurrently,
\* requests are sent under it: the id is enqueued at most once, and whoever is
\* answered 202 asked for the version, the input and the mode of the run the key
\* names, although others may have asked for other ones at the same time.  The
\* limits are those of the request that inserted the row and need not be those
\* of the one that is answered (scenario_routes.py:86-143).
OneRunPerKey ==
  /\ \A k \in Key : pushed[k] <= 1
  /\ \A x \in answered : row[x[1]].status # "ABSENT" /\ Request(row[x[1]].body) = x[2]

\* The output of a run and its node runs come from one execution, however many
\* workers, stale or not, persist it: the claim whose output the row holds has
\* its node runs stored, under its own attempt number or a later one.
OutputHasNodes ==
  \A k \in Key :
    /\ row[k].status = "COMPLETED" => row[k].output # 0
    /\ row[k].output # 0 =>
         \E a \in row[k].output .. MaxClaim : nodes[k][a] = row[k].output

\* No two executions of a run in progress share a claim number, and the worker
\* the row names executes the latest.
ClaimsFenced ==
  \A w \in Runner : job[w].at # "idle" =>
    /\ row[job[w].key].owner = w => job[w].claim = row[job[w].key].attempt
    /\ \A v \in Runner \ {w} :
         job[v].at # "idle" /\ job[v].key = job[w].key => job[v].claim # job[w].claim

\* A run that has ended, or that somebody asked to cancel, is never waiting or
\* running again, although workers that lost it and cancel requests that read
\* it earlier still commit.
EndedForGood ==
  [][\A k \in Key :
       row[k].status \in Final \cup {"CANCEL_REQUESTED"} =>
         row'[k].status \in Final \cup {"CANCEL_REQUESTED"}]_runtimeVars
=============================================================================
