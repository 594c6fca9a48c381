# Verification of the Agent Quality Harness

TLA+ modules, TLC configurations and TLAPS proofs about `agent_quality_harness`, the
program under `src/src/agent_quality_harness/` (paths below are relative to it unless
they begin with `docs/`, `progress.md` and the like, which are relative to `src/`).

The program evaluates agents. A user asks for an *evaluation run* of a Candidate
version, usually against a Baseline version, on a frozen dataset. A worker process
executes every case against the agents, stores one result per (version, case), and a
release gate turns the results into SHIP, HOLD or BLOCK. Everything is in PostgreSQL;
Redis or Kafka carries the ids of waiting runs to the workers.

What can go wrong is not in any one function: rows are read without locks and written
later, leases expire under a working process, workers and publishers die between two
steps, events are delivered twice, and a stale worker does not know that it is stale.
The project models these parts first, in full control detail, and abstracts data (scores,
texts, costs, timestamps) to what the properties tell apart.

## 1. Inventory of the system

### Evaluation run execution: `execution.py`, `domain/models.py`, `core/database.py`

- **State**: a row of `eval_runs` (status, worker_id, lease_expires_at, attempt), rows of
  `case_results` (unique per run, case, version and attempt number, but the attempt column
  keeps its default), one `gate_results` row; in a worker the locals of `execute`.
- **Operations**: `_claim` (under FOR UPDATE SKIP LOCKED), copy of a recorded Baseline,
  batches beside a heartbeat loop, a cancellation check between batches and in the loop,
  `_persist` (results, status and gate in one transaction), `_mark_failed`.
- **Hard**: `_persist`, `_mark_failed`, `_heartbeat` and the cancel request read the row
  without a lock and commit later; SQLAlchemy writes only columns that differ from what
  the session loaded; a lease may run out at any time; the process may die anywhere.
- **Correct when**: evidence is complete and from a single attempt, is never overwritten,
  the gate decision rests on it, a worker that lost its run is fenced off.

### Run requests: `api/routes.py`, `services.py`

- **State**: the rows they insert, an open session that still holds the row.
- **Operations**: `create_eval_run` (row, and an outbox event under Kafka), enqueue after
  the commit, the error path that sets FAILED when enqueue raises, `replay_eval_run`,
  `cancel_eval_run`; validation, imports, policies, comparison and event streams.
- **Hard**: commit and enqueue are two steps; a cancel request races the worker.
- **Correct when**: a run that was accepted gets to a worker, and a final status stays.

### Redis dispatch: `queue.py`, `worker.py`

- **State**: the lists *ready* and *processing*, the id in the worker's hand.
- **Operations**: LPUSH, BRPOPLPUSH, ack (LREM), requeue (LREM and LPUSH in one MULTI),
  recovery of the processing list once, when a worker starts.
- **Hard**: replies are lost after the server acted; the worker dies with an id in hand;
  recovery depends on leases that may still be live.
- **Correct when**: no id of a run in progress is lost or multiplied, and runs end.

### Kafka dispatch: `kafka_queue.py`, `outbox_publisher.py`, `kafka_worker.py`, `outbox_queue.py`

- **State**: `outbox_events` (status, available_at, attempts), the topic, the group's
  offset, a consumer's position, `kafka_inbox`, `kafka_dlq`, the dead letter topic.
- **Operations**: publishers claim an event under a lease, send, mark it; consumers fetch,
  look into the inbox, execute, count failures or mark processed, commit or seek back.
- **Hard**: several publishers (leases run out), several consumers (the deployment scales
  them up to four), rebalances in the middle of an execution, duplicates, every step may
  raise.
- **Correct when**: no event is lost between outbox and topic, the offset never passes an
  unhandled record, the inbox only swallows what has been taken care of.

### Scenario runtime: `scenario_runtime.py`, `api/scenario_routes.py`

- **State**: `scenario_runs` (status, lease, idempotency key, budget), its node results.
- **Operations**: create with an idempotency key, pilot gate, claim, heartbeat, persist,
  cancel, fail; enqueued like an evaluation run.
- **Hard**: the same read-then-commit sessions as above; create, enqueue and the client's
  retry are three steps; node results are inserted per attempt and not replaced.
- **Correct when**: a run that ended stays ended, the stored output belongs to stored nodes, a
  key starts one run and answers only for its version, input and mode.

### Scenario graph: `adapters/scenario.py`

- **State**: of one execution: pending nodes, outcomes, outputs, the coroutines of the batch
  under `asyncio.gather`, their invocation tasks, the cancellation event.
- **Operations**: validation (dependencies known and acyclic), batches of ready nodes, one
  coroutine per node that waits for its invocation, its timeout or the event, the fold over
  the results, cancellation through the event or of the whole task.
- **Hard**: nodes of a batch finish, fail, time out and are cancelled in any order.
- **Correct when**: validation agrees with execution, execution is deterministic, a required
  node's failure fails the scenario, a scenario ends and takes its invocations with it.

### Protocol adapters: `adapters/`

- **State**: AG-UI (`ag_ui.py`): per stream what the protocol has open, a registry of active
  runs shared with the thread that cancels. Tasks (`a2a.py`, `mcp.py`,
  `document_autoflow.py`): what the target does, what was read of it, a budget shared by the
  samples of a batch.
- **Operations**: one event after the other and the verdict at the end of a stream;
  registration, cancellation from another thread; send, poll, time out, stop, cancel; the
  check of the budget before a run and the count after it.
- **Hard**: a remote sends whatever it wants in any order, works on after a timeout or an
  acknowledged cancel, and ends between a poll and a cancellation; the loop of a stream closes under the canceller.
- **Correct when**: a result comes of a stream that was in order, says what became of the
  work, and the budget holds with samples side by side.

### Harness, scoring, gate and policy: `evaluation/`, `judging.py`, `pricing.py`, `gates.py`, `policy.py`

- **State**: the captured results of a run, the decision, the requests to the policy engine.
- **Operations**: score a result by the rules its case asks for, ask a judge, price it, aggregate, apply
  the gate's thresholds and controls, fold in the regression of skills, ask OPA three times.
- **Hard**: missing, unknown and zero values; failures of the target, the judge and the engine
  on the way; rules that are only evaluated when something was reported.
- **Correct when**: a bad answer does not ship, a good one is not blocked, and a run with all
  its results gets a decision.

### Skills and bindings: `skills.py`, `api/security_routes.py`

- **State**: frozen skill versions, their scans, the bindings of agent versions, what the
  manifest of a run has frozen of them.
- **Operations**: import, scan, replace or extend bindings after a validation, freeze a run
  with a snapshot and a coverage, compute the regression when the run is judged.
- **Hard**: a replacement is a validation, a DELETE and INSERTs of one transaction without a
  lock; freezing, covering and judging read the bindings at three times.
- **Correct when**: nothing is bound that was not scanned or that blocks, and a run is judged
  with what it froze.

### Sessions and roles: `security.py`, `api/auth_routes.py`, `administration.py`, `api/admin_routes.py`

- **State**: `auth_sessions` (family, revoked, replaced by), the browser's cookie;
  organizations, roles, memberships, API keys, settings.
- **Operations**: login, rotation with detection of reuse, logout, expiry, revocation, password
  change; provisioning, members, roles, keys, settings.
- **Hard**: two tabs share one cookie; an UPDATE over a family does not see a session that is
  being inserted; an answer is lost; an update of roles is a DELETE and INSERTs; every handler
  must look rows up in the organization of the request.
- **Correct when**: a family has one live session, tenants stay apart, a member has the roles
  the last update gave.

### Console, fakes, telemetry, command line, deployment

No state of the system's own.

### Interactions

```
 client --HTTP--> API --commit--> PostgreSQL (eval_runs, outbox_events)
                   |                   ^         |
                   | LPUSH             |         | claim, mark
                   v                   |         v
                 Redis          read / commit   publisher --send--> Kafka topic
                   |                   |                              |
                   | BRPOPLPUSH        |                              | fetch, commit
                   v                   |                              v
              Redis worker --execute-->+<--execute-- Kafka consumer (inbox, dlq)
                                       |
                  gate, comparison, replay, recorded Baselines read the evidence
```

The executor is the same object under both dispatchers, and neither passes anything to it
but the id. So `EvalRun` lets any idle worker be handed any id at any time, and each
dispatch module restricts that.

## 2. The modules

| module | models | builds on |
| --- | --- | --- |
| `ReleaseEvidence` | abstract: what a run promises to those who read its results | |
| `EvalRun` | `execution.py`, the requests that touch a run's row | implements `ReleaseEvidence` |
| `RedisDispatch` | `queue.py`, `worker.py`, enqueueing | extends `EvalRun`, implements it |
| `KafkaDispatch` | `kafka_queue.py`, outbox rows, consumer group | extends `EvalRun`, implements it |
| `ScenarioDag` | `adapters/scenario.py` | |
| `ScenarioRuntime` | `scenario_runtime.py`, `api/scenario_routes.py` | |
| `AgUi` | `adapters/ag_ui.py`: the event protocol and its cancellation | |
| `RemoteTasks` | `a2a.py`, `mcp.py`, `document_autoflow.py` and the one-call adapters | |
| `Scoring` | `evaluation/scoring.py`, as operators | |
| `ReleaseGate` | `inspect_harness.py`, `judging.py`, `pricing.py`, `gates.py`, `policy.py`, the end of `_persist` | extends `Scoring` |
| `Sessions` | refresh sessions: `security.py`, `auth_routes.py`, the tabs of a browser | |
| `Access` | organizations, members, roles, keys: `dependencies.py`, `admin_routes.py` | |
| `Skills` | `skills.py`, `security_routes.py`, what a run freezes | |
| `EvalRunProofs`, `RedisProofs`, `KafkaProofs`, `ScenarioProofs`, `ScenarioRuntimeProofs` | theorems and proofs | the module of that name |
| `EvaluationProofs` | theorems and proofs | `AgUi`, `RemoteTasks`, `ReleaseGate` |
| `AccountProofs` | theorems and proofs | `Sessions`, `Access`, `Skills` |
| `Induction` | lemmas: induction over numbers and finite sets, iteration, sums | cited by `ScenarioProofs`, `EvaluationProofs` |
| `MCEvalRun`, `MCRedis`, `MCKafka`, `MCScenario` | constants for TLC | the module of that name |
| `MCAccounts` | constants, and the choice of a part | `Access`, `Sessions`, `Skills` |
| `MCEvaluation` | constants, and the choice of a part | `AgUi`, `RemoteTasks`, `ReleaseGate`, `ScenarioRuntime` |

`MCAccounts` and `MCEvaluation` hold parts that share no state in the code either. Their
variable `part` chooses one of them in the initial state and the others stay as they began, so
that a run explores each part completely and never their product.

### How the code became actions

- **A session that reads without a lock is two actions**, a read and a commit
  (`PersistRead`/`PersistCommit`, `FailRead`/`FailCommit`, `HeartbeatRead`/`RenewDuring` or
  `RenewAfter`, `CancelRead`/`CancelCommit`, `MarkRead`/`MarkPublished` or `MarkError`,
  `FailureRead`/`FailureCommit`). PostgreSQL runs at READ COMMITTED, so anything may happen
  in between. A session under FOR UPDATE (`_claim` of the executor and of the publisher) is
  one action.
- **Dirty columns**: a commit writes only columns whose value differs from the one loaded.
  `Flushed(old, new, current)` says so, and `sawStatus`, `sawLease`, `sawEvent`, `sawSends`
  are the loaded values. A stale session that sets FAILED on a row it loaded as FAILED
  overwrites nothing.
- **Results**: a `CaseResult` is the number of the attempt that wrote it (0: none). The
  unique constraint is `Unwritten`: its violation rolls the whole transaction back and
  leads to `_mark_failed`.
- **Time**: a lease is `none`, `live` or `expired`; `LeaseExpires` may happen at any time,
  also under a worker that goes on. An event's `available_at` is the boolean `due`.
- **Crashes**: a process that dies loses its locals (`Leave`) and its open transactions, and
  leaves every row as it was. Restarted processes have new worker ids, but nothing of the
  old one's execution is left, so the model uses the name again.
- **Faults** are a constant set in the dispatch modules, so that a configuration says which
  failures it has and a theorem covers every set.
- **The row of an event** is known by its run, since only one is ever written for a run.
- **One partition**: the key of a record is its event id, so all copies of an event are in
  one partition and different partitions share nothing but the database rows.

- **Coroutines** run to their next `await` undisturbed. In `ScenarioDag` the fold over a
  batch, the test of the event and the start of the next batch are therefore one step, and a
  node's coroutine has a step for each await: it is gathered, invokes, returns or is
  interrupted, and unwinds after the cancelled invocation has ended.
- **A cancelled task** (`Abort`) takes its coroutines along but not the invocations they wait
  for: `asyncio.wait` does not cancel what it waits for. They stay `inFlight`.

- **Statements that see and commit** (`Sessions`, `Access`, `Skills`): an UPDATE or DELETE over
  several rows is two actions. It executes over the rows committed by then, which it remembers
  (`scope`, `seen`, `reset`), and when its transaction commits it changes those and no others.
  Rows inserted in between survive it. The roles of a member and the permissions of a role are
  both replaced so (`PatchRolesExecutes`, `PatchRoleExecutes` and their commits); of two that give
  the same thing the second INSERT fails. `stray`, `raced` and `torn` record that this happened,
  and `crossed` that two requests overlapped; no guard reads them.
- **Threads** (`AgUi`): the canceller copies the registry under its lock, then closes one
  response after the other, each on the loop of its sample. A loop that is closed by then
  raises.
- **What a target does** (`RemoteTasks`) is a variable of its own, `remote`, which no adapter
  reads but through a poll: a result can be compared with it. A cancel that is answered with 200,
  202 or 204 changes nothing in it: Document Autoflow works on until its activity returns
  (`findings.md:89`, `:110`, `:175`), and may end as completed, failed or cancelled later. A limit
  of the budget that is 0 or not given is no limit.
- **What an idempotency key stands for** (`ScenarioRuntime`) is version, input and mode
  (`scenario_runtime.py:54-58`), the operator `Request`. The limits of a request are not compared:
  with other ones the key is answered with the run it has.
- **Numbers** (`ReleaseGate`): rates, coverages and growths are fractions `[n, d]`, and d = 0 is
  None. Scores of rules are what the rules test, texts are sets of the patterns they match,
  skill transcripts are sequences of events with names, hashes and invocations.

`PROJECT.json` names the source lines of every definition.

## 3. What the runs check

| run | configuration and bounds | properties |
| --- | --- | --- |
| `eval_run` | 1 run, 2 workers, 4 slots (a recorded one, a batch of two, a batch of one), 3 claims | types; `VerdictComplete`, `CompletedWhole`, `AttemptFence`, `StrayBound`, `ResultsWriteOnce`, `ImplementsContract` |
| `redis` | 2 runs, 1 worker, 2 crashes, enqueue, API, reply and ack faults | `Tracked`, `OneCopy`, `RestrictsEvalRun` |
| `redis_live` | 2 runs, 1 worker, 2 crashes or escapes, fairness, late restarts | `PushedEnds` |
| `kafka` | 2 runs, 2 consumers, 1 publisher, 2 copies of an event, 2 rebalances, crashes or escapes, commit and database faults, no successful claim | `OffsetSafe`, `RestrictsEvalRun` |
| `kafka_live` | 1 run, 2 consumers, 2 claims, a rebalance, fairness | `ProcessedIsHandled`, `EventEnds` |
| `outbox` | 2 publishers, 4 claims of an event, 2 crashes, send faults, a replay that is cancelled, fairness | `OutboxKeeps`, `EventLeaves` |
| `scenario` | 4 nodes, all 65,536 wirings, 2 side by side; sparse graphs with unknown ids, width 1 and 3; fairness | `ValidationExact`, `Lockstep`, `RequiredDone`, `CancelExplained`, `NodesStopped`, `ScenarioEnds` |
| `accounts` | `Access`: 2 organizations, 2 requests, 3 changes. `Sessions`: 2 tabs, 3 sessions, an expiry, revocation or password change. `Skills`: 2 skill versions of 7 uploads, 2 replacements, 1 run | `RolesAsAsked`, `TenantsApart`; `FamilyAccounted`, `CookieCurrent`; `BoundFit`, `EvidenceFrozen` |
| `evaluation` | `AgUi`: 2 samples, streams of 5 events. `RemoteTasks`: 3 samples, 2 requests, 3 tokens. `ReleaseGate`: 3 datasets, 5 manifests. `ScenarioRuntime`: 1 key, 2 workers, 2 requests, 2 claims, 1 gate decision, 4 bodies | `ResultInOrder`, `CancelReaches`; `ResultTrue`, `BudgetKept`; `ShipTrusted`, `CleanNotBlocked`, `FailedForCause`; `OneRunPerKey`, `OutputHasNodes`, `ClaimsFenced`, `EndedForGood` |
| `owner_closes` | as `eval_run` | violated: `OwnerCloses` |
| `kafka_replay` | a run and its replay | violated: `QueuedAtomically` |
| `engine_answer` | the module of `evaluation`, 1 dataset of one case, the other parts at their least | violated: `EngineFailsClosed` |

**Why the bounds are enough.** Two workers and three claims allow the owner to lose a run,
another to take it over and a third attempt to meet the remains of both; a batch of two
slots can be cut short by a cancellation; runs share no row, so one is enough for
`EvalRun`. In the dispatch modules two runs are needed for order on a list or a partition.
There a run has one batch of one case: a worker can die or stop before, in and after it,
and the dispatch does not look inside. The kafka runs need two consumers for a
rebalance, and two copies of an event for the inbox. In `kafka` executions fail in their
claim (`MaxAttempt = 0`): the consumer learns only that `execute` returned or raised, and
both happen; the states this saves pay for two disruptions, which an event needs to become
a dead letter and a partition to come back to a consumer that lost it. `kafka_live` has the
claims. `outbox` has no consumers at all:
publishers must do their work while every consumer is down, and no consumer touches the
outbox. Its bound `MaxSend` on the claims of an event is one above what two crashes, two
publishers and `MaxTries` need; without crashes bounded, an event that kills every
publisher that claims it stays the oldest and keeps the younger ones waiting. `scenario`
takes every graph of four nodes, not a sample: four are enough for a batch that leaves a ready
node behind, a diamond, and a cycle behind an acyclic part.

In `accounts` three sessions are a family that was rotated twice, or one that was rotated and one beside it; one act from outside is enough for every property,
since two of them do not interact; the two skill versions may be two numbers of one package or
a package and one that needs it, conflicts with it or shares its intent. In `evaluation` one AG-UI
sample receives every stream of up to five events out of five families of events (runs,
messages, tool calls begun at once or piece by piece, thoughts and reasoning), long enough to
open, use and close something within a run; the second one is there for the registry and the cancellation. Three samples are
one more than the requests the budget allows; that a limit of 0 is none is left to the proof, which
covers every budget. Scenario runs have one key, since they share nothing but the gate decisions,
and two claims, so that a stale worker meets its successor; the bodies are a shadow run, the same
with other limits, one whose tools have side effects and a pilot, and the one gate decision is of
their graph or of another. The transcripts of skills are all of up to two
events, those of three events of one invocation, forged ones, and two invocations
side by side; datasets of two cases are there for what an average could hide. The safety
properties marked in section 4 are proved without any of these bounds.

`CHECK_DEADLOCK FALSE` is set everywhere: once all runs have ended the bounded system has
nothing left to do.

**Fairness.** `RedisSpec` and `KafkaSpec` assume: an operator starts a worker that is down;
event loops go on, and Redis, Kafka and PostgreSQL answer (weak fairness of a process's
steps); a batch ends although heartbeats interrupt the wait for it again and again (strong
fairness of `FinishBatch` alone: the harness limits the time of every case); time passes,
i.e. the lease of a run nobody executes runs out and `available_at` comes; a partition
without a consumer is given to a running one. Nothing is assumed of clients, of
cancellations, or of the lease of a run that is being executed: it may run out or not.

`ScenarioDag` assumes that its event loop goes on, that the timeout of a node passes and that
an invocation that is cancelled ends. It does not assume that an agent or a tool ever
answers.

`LateRestart` is an assumption of `redis_live` only: after a crash the worker comes back when
the leases it held have run out. The code does not ensure it: a worker that restarts earlier
skips the run, and nobody looks at its id again before the next restart.

`ProcessedIsHandled` and `EventEnds` are about rebalances, and are checked (the first also proved) for
groups no member of which dies and no execution of which raises: when a consumer dies in an
execution, its successor finds the lease live, is refused, marks the event processed, and
the run stays RUNNING. The Redis worker has a recovery for such runs; the Kafka worker has
none.

### Where the code and its documents differ

- **`OwnerCloses`**: `findings.md:105` says the executor "aborts if database lease ownership
  is lost". The abort is `_mark_failed`, which closes the run its new owner is executing:
  it does not look at `worker_id`, nor does `_persist`. What the unique constraint saves is
  proved: the evidence is never mixed (`VerdictComplete`, `CompletedWhole`).
- **`QueuedAtomically`**: `outbox_queue.py:7` says runs are "queued atomically through
  PostgreSQL Outbox"; `replay_eval_run` writes no outbox event and its `enqueue` does nothing,
  so under Kafka a replay is never executed.
- **`EngineFailsClosed`**: `docs/engineering-details.md:44` says that an engine which times out, is
  unavailable, or answers undefined or illegal output uniformly fails closed as `BLOCK /
  policy_engine_error`. Where the body of the decision is JSON but no object, `payload.get` raises
  an `AttributeError` that `policy.py:134` does not catch, and the run is FAILED without a gate.
  `FailedForCause` names this as one of the causes for which a run may end so, and says that there is
  no other of the engine's.

The following disagreements are in the models too. The first three are exemptions of a property,
each under a name of its own: the property says what holds beside it, and not that the document
is right.

- **Reuse of a session** (`FamilyAccounted`, `stray`): `findings.md:78` says that a refresh token
  "rotates on every use; reuse revokes the whole session family", without a condition. Two uses of
  one token that overlap both read it unrevoked, both rotate it, and none of them is a reuse; and a
  rotation that commits after the UPDATE of a reuse leaves a live session in a closed family
  (`security.py:159-193`). The property says that every second or surviving session is of
  this kind.
- **Frozen bindings** (`EvidenceFrozen`, `crossed`): `docs/engineering-details.md:42` says that an
  AgentVersion cannot change its skill bindings once an EvalRun refers to it. A replacement that
  was validated before the run's commit may commit after it (`skills.py:414-428`, `:546-575`). The
  property says that no request that began later changes what the run was created with.
- **Atomic conflict checks** (`BoundFit`, `torn`): `docs/engineering-details.md:17` names an atomic
  check of conflicts between bound skills. Two replacements that overlap leave rows of both, which
  neither has validated together.
- **The gate of a pilot** (`PilotGate`): `docs/engineering-details.md:69` asks that the newest gate
  of the same SHA be SHIP. The query takes the newest among the SHIPs, whatever was decided since
  (`scenario_runtime.py:109-116`). No property repeats the guard.

The models have more that no document speaks of, so that no property says otherwise; each is
a hazard with a note in `PROJECT.json`: a cancellation that is read at RUNNING and committed after
COMPLETED leaves CANCEL_REQUESTED for good (`api/routes.py:501`); a retry of a scenario request
whose enqueue was lost finds the row and does not enqueue it (`api/scenario_routes.py:129`), and
one with other limits gets the run with the old ones (`scenario_runtime.py:54-58`); the invocations
of an aborted scenario go on (`adapters/scenario.py:427`).

## 4. What is proved

All theorems hold for every value of the constants that satisfies the assumptions of the
module: any sets of runs, workers, publishers, slots and batches (`EvalRunAssumption`: every slot
is recorded or in some batch), any faults and bounds (`RedisAssumption`, `KafkaAssumption`), any
number of nodes and any documents over them (`ScenarioAssumption`), any keys, bodies, calls and
gate decisions (`RuntimeAssumption`), any samples and budget (`TaskAssumption`,
`AgUiAssumption`), any organizations and persons (`HomeAssumption`: the home organization and the
first administrator are among them), and, with no assumption, any tabs, sessions, skill versions and
requests. `GateAssumption` says that datasets are lists of cases, that the adjustable numbers of a
manifest are fractions, and that what a target reports is a finite report: lists of events and claims
with finitely many references, and finitely many rules. It assumes nothing of what is in a report, not
even that reported costs are positive, since the code validates none of it.

| theorem | states | proved by |
| --- | --- | --- |
| `TypeCorrect` | `TypeOK` | `IInv` |
| `VerdictsComplete` | a gate decision rests on a full set of results of its own attempt | `IInv` |
| `CompletedIsWhole` | COMPLETED means full results of one attempt, and the gate | `IInv` |
| `AttemptsFenced` | `worker_id` tells the attempts of a run apart | `IInv` |
| `StrayBounded` | a worker that lost its run begins at most one more batch | `IInv` |
| `WrittenOnce` | results and gates are never overwritten (an action property) | `IInv` |
| `Implements` | `EvalRun` implements `ReleaseEvidence` | `IInv` and the refinement mapping |
| `DispatchRestricts`, `RedisTypes` | `RedisDispatch` implements `EvalRun`; its types | `HandInv` |
| `NoRunLost` | `Tracked`, with one worker process at a time | `TrackInv` |
| `HandedOutOnce` | `OneCopy`: an id is in one place, with one worker process at a time | `TrackInv` |
| `DispatchedVerdicts`, `DispatchedContract` | the above, of runs under Redis | `DispatchRestricts` |
| `KafkaRestricts`, `KafkaTypes` | `KafkaDispatch` implements `EvalRun`; its types | `KInv` |
| `OffsetsSafe` | the offset never passes an unhandled record | `KInv` |
| `OutboxKept` | the outbox loses no event | `KInv` |
| `ProcessedHandled` | without crashes and escapes, the run of a processed event has ended or has a worker | `RowInv`, `WorkInv`, `KnownInv` |
| `KafkaVerdicts`, `KafkaContract` | the above, of runs under Kafka | `KafkaRestricts` |
| `ScenarioTypes` | the types of `ScenarioDag` | `DagInv` |
| `CompletionSound` | no scenario completes over a failed required node | `DagInv` |
| `CancellationsExplained` | none is reported as cancelled that nobody cancelled | `DagInv` |
| `NoInvocationLeft` | an execution that ends by itself leaves no invocation running | `DagInv` |
| `HandoffsInOrder` | a node starts when every node it depends on has an outcome | `DagInv` |
| `ValidationDecides` | the validation accepts exactly the sound graphs | `Peeled` is derived, then `SoundPeelsOff` and `KnotStays` |
| `Deterministic` | every execution of a document goes through the same batches | `StageInv` |
| `RuntimeTypes` | the types of `ScenarioRuntime` | `RuntimeInv` |
| `OneRun` | a key starts one run, and answers only for its version, input and mode | `RuntimeInv` |
| `ClaimsAreFenced` | a row names the worker of its latest claim; no two claims are the same | `RuntimeInv` |
| `OutputsHaveNodes` | the execution a stored output names has stored its nodes | `RuntimeInv` |
| `EndsForGood` | a scenario run that ended or was cancelled never runs again (an action property) | `RuntimeInv` |
| `ResultsTrue` | completed, failed and cancelled are the target's own last word; work goes on only under a result that says it was left | `TaskInv` |
| `BudgetsKept` | samples side by side start no more runs, and report no more tokens, than the budget allows where it sets a limit | `RequestInv`, `TokenInv` |
| `CancellationReaches` | a cancellation closes the stream of every sample with a run id of its own | `CancelInv` |
| `ProtocolKept` | a result is only of a stream that kept the protocol, start to end | `ProtocolInv` |
| `TrustedShips` | with every control on, nothing passes the gate but answers to be trusted | `GateInv` |
| `CleanIsNotBlocked` | a candidate whose answers are to be trusted and pass is not blocked | `GateInv` |
| `RunsFailForCause` | a run with all its results fails only over a baseline of zero cost or an engine's answer that is no object | `GateInv` |
| `FamiliesAccounted` | a family has one live session at most, none after it was closed, or a stray one | `SessionsInv` |
| `CookieKeepsUp` | a browser that lost no answer and asked one thing at a time holds the last session | `CookieInv` |
| `RolesKept` | a member holds the roles it was last given, of its own organization | `AccessInv` |
| `TenantsStayApart` | what an organization owns changes only by a request bound to it (an action property) | `AccessInv` |
| `BindingsFit` | nothing is bound that was not scanned, blocks, or breaks a rule outside a torn binding | `SkillsInv` |
| `EvidenceKept` | what a run was created with stays true of its versions, unless a replacement overlapped | `FrozenInv` |

**`IInv`.** None of the safety properties of `EvalRun` is inductive. That a second `_persist`
cannot complete the results of a first one needs `FreshInv` (no result carries the number of
an attempt that has still to persist) and `AttemptFence` (two executions of a run never
share a number). That `StrayBound` holds needs `StrayInv`: a batch is begun astray only
after the row has come to name another worker, and no heartbeat succeeds from then on.
`PlaceInv` ties an execution's place to its locals, for instance that an execution at its
commit is cancelled or has captured every slot. `AttemptFence` carries the argument that
`worker_id` is a fencing token although it names a process: the row names `w` only if `w`
made the latest claim, and `w` executes one run at a time.

**`Implements`.** The mapping takes `attempt` as the number of attempts begun, `Evidence(r)`
(the attempt that wrote all slots, or 0) as the published evidence and `gate` as the verdict.
Claims map to `Begin`, the `_persist` that completes the slots to `Publish`, everything else
to a stutter.

**`KInv`.** `OffsetInv`: all records below a consumer's record are handled, and so, the record
itself aside, is everything up to the position of the consumer that has the partition; a
record is handled before its offset is committed. The interesting steps are the commit and
the seek of a consumer that lost the partition and got it back while it handled a record:
the commit takes the new position, not the record's, and the seek moves back to a record
the group may already have passed. Both keep `OffsetInv`, because handled records stay in the
inbox or in the dead letters. `OutboxInv`: what a publisher is about to mark has happened.
A stale publisher may turn `published` into `failed` or `pending`, but an event that is `failed`
has its row in `kafka_dlq`, whoever marked it.

**`RowInv`, `WorkInv`, `KnownInv`.** An event is marked when `execute` returned, which it also does when the
claim was refused. That this loses nothing needs three things: a RUNNING run has a
worker, since whoever leaves it has closed it or found it closed, also when its own commit flushed
nothing because the status it loaded was final already; a refusal is of a run that was begun, since no
event is older than its run; and a run that was begun is never QUEUED again. The hypothesis, `Faults`
without `crash` and `escape`, is needed: of a consumer that died the row stays RUNNING, and the next
one marks the event of a lease that is still live.

**`TrackInv`.** Where the ids are follows from what one process does to two lists: the snapshot it
recovers from is still on the processing list, the id in its hand is too, and it drops an id only of
a run that is over. An exception that escapes `execute` puts the run back on the ready list
with its lease live, and the next claim would be refused and the id acknowledged; so the theorems
assume that with `escape` among the faults the process stays down until the lease ran out
(`RestartsLate`), and that there is one process (`OneWorker`). Both hypotheses are needed.

**`DagInv`.** `FlightInv` says that the invocations in flight are those some coroutine waits
for, `BatchInv` that an unsettled coroutine is in the batch under way, `OutcomeInv` that what
has an outcome is settled and, unless the scenario has failed, well if it is required. The
step that needs all three is the top of the loop (`AdvanceKeeps`): whatever was begun is
settled, so nothing is in flight when the execution ends or the next batch starts.

**Rounds and stages.** `Peeled(d)` and `Stages(d)` are recursive functions of the number of
rounds. `PeeledRounds` derives their equations from `Iterates`; then `KnotStays` says that no
round peels a node of a knot, and `SoundPeelsOff` that a sound graph loses a node in every
round, so that as many rounds as nodes decide. `StageInv` ties an execution to a stage: what has
an outcome when a batch starts is `Stages(plan)[k]` for some `k`, and the batch is the next greedy
choice; the order in which a batch settles is forgotten when the loop comes round.

**`Induction`.** The library's induction theorems take a predicate as a parameter, which no
installed prover instantiates. `Induction` states them for a set instead (`FiniteInduction`,
`NatInductionOn`) and derives them from the least counterexample under inclusion, with the
library's theorem that strict inclusion of finite sets is well founded. From these
come that a function can be iterated (`Iterates`) and what `SumFunction` adds up to
(`SumOfNaturals`, `SumChange`, `SumOfZeros`, `SumOfCounts`, `SumOrder`, `SumIsZero`).

**`RuntimeInv`.** An id is pushed by the one request that inserted its row (`PushInv`), an
answer is of the request (version, input, mode) of the row (`AnswerInv`), and an execution knows an attempt no younger
than that of its row (`ClaimInv`). The step that needs them is the commit of a stale worker: it may
overwrite the status and the output of a run that another one has claimed, but it stores the
nodes of the execution its output names in the same transaction, and never over stored ones.

**`TaskInv`, `RequestInv`, `TokenInv`, `CancelInv`.** A target works on its own, so `TaskInv` says what a poll may
still be relied on for: a settled status stays true, a pause is never followed by more work. Of a stop
it knows only its reason, since no answer to the cancel says what the target does; so the
result of a stopped run is that reason, and never `cancelled`. `RequestInv` bounds the runs that are started or about to be by the
number counted: the adapter checks and counts a run without an `await` in between, before it
sends anything. `TokenInv` bounds the sum of what the results report by what was counted, which
never falls, also when the result it was counted for is thrown away. Both say nothing where there is no limit. `CancelInv` follows the canceller's copy of
the registry: whoever registered before the copy is in it, closed or about to be closed.

**`ProtocolInv`.** The parser keeps sets of open messages, tools and thoughts and a mood; the
property speaks of the events themselves. `ParseInv` relates the two: an event that uses a
message lies between its start and its end, what is open was started and not ended since, and the
first and last events frame the others. Every accepted event (`AcceptedStep`) keeps
each of them.

**`SessionsInv`.** A request that is about to rotate a session saw it unrevoked, and rows only
change in three ways: sessions are revoked alone, a family is closed (and what was inserted
beside the statement is stray), or a session is replaced by a new one of its family. The hard
step is the rotation, which commits on what it read: if another tab rotated the same session, or
its family was closed in between, the new session is a second live one, and the invariant has to
know of the request's read that it is stray.

**`CookieInv`.** While no answer is lost and one tab asks at a time, at most one request is under
way, and the id it will be answered with (`Promised`) or the cookie is that of a session that was
not rotated. Sessions may expire, be revoked or closed meanwhile, which leaves the browser with a
session that is of no use but is the last one.

**`AccessInv`.** A request that is about to replace roles read members of its organization and roles
of it, because the handler looks both up in the organization of the session; the same holds of the
role whose permissions a request is about to replace. `TenantsApart`
then needs `RowsApart`: an update of rows that all belong to one organization leaves the
rows of every other one equal as functions, not only row by row.

**`SkillsInv`.** The bindings satisfy the rules because what a request is about to bind has been
validated and contents and scans only grow: `FitsStay` says that neither can spoil what fits. A
replacement that keeps rows of another one is `torn`, and of its rows only the scans are
promised, row by row. `NothingBlocks` carries this to the gate: if no bound skill has a finding
that blocks, no baseline can make one new.

**`FrozenInv`.** A run is created in several steps, snapshot, coverage and regression, and each
reads the bindings anew. Until a replacement crosses it, what it has read is what is bound now, and
no validated replacement is under way for its versions, so none can commit unseen. Uploads
and scans go on meanwhile: they change no bound skill, because what is bound was stored and scanned.

**`GateInv`.** `RowsFit`: the rules of a captured result are those `Score` gives for what was reported,
and at most the judge's rule beside them, which is not critical. `Progress`: what is still to do is a tail of the
plan, and no more is captured than was executed. `Staged`: a verdict that does not block was reached
without a reason to block and, if the engine was to be asked, with a decision of it. The invariant is
short; the theorems are about what its operators compute, in two directions.

`TrustedShips` reads the gate backwards. If there is no reason to block, then the counts the controls
look at are zero and the shares they look at are whole (`Spotless`). A sum of natural numbers is zero only if each of
them is (`FailuresTell`, `SeenTells`, `ItemsTell`), and a quotient of passes is whole only if
every rule passed (`PassRatioTells`, `NotBelowWhole`), so no average hides a result: every rule of
every result is `Blameless`. What remains is that passing rules mean what the property says of the telemetry
itself. The hard one is `LifecycleIsStory`: the code looks at one event at a time, with a table of what
came last in its invocation, and tests once at the end that every invocation is over. By `StepFollows` the event
before a terminal one is a start, and the one before it a selection with none before, so an
invocation has three events, in order.

`CleanIsNotBlocked` goes forwards. Every rule has a category, and `RulesKind` says which ones `Score` can
give for which expectation; from rules that pass follow the counts (`Clear`), and from those that no
reason blocks. It needs that a share of everything is not below any share one may ask for
(`AllIsNotBelow`) and that the success rate cannot drop below the baseline's (`NoDrop`). A threshold above
one blocks everything, which the code allows; `Attainable` excludes it.

`RunsFailForCause` counts: if the execution is over, and was not short of results, the only steps left that end it
as failed are the division by an average of zero that `_growth_rule` does not recognise, and
an answer of the engine that is no object.

**Only model-checked**: liveness under fairness (`PushedEnds`, `EventLeaves`, `EventEnds`,
`ScenarioEnds`), which is out of TLAPS's reach. Every other property of a passing run is stated
by a theorem.

## 5. Plan

Done: the modules of section 2, their runs, and the proofs of section 4. Open, in this order:

1. `ScenarioDag`: the references of input maps, so that a node that reads one it does not
   depend on can be told apart.
2. `ScenarioRuntime` under each dispatcher, as `EvalRun` has it. Its `execute` has the interface
   of the evaluation executor, and the dispatch passes it ids only.
3. The operations of the MCP adapter that are no tasks.

## 6. What is not modelled, and why

- **Contents**: texts, tokens, manifests, documents and prompts, beyond what the rules of
  `Scoring`, the scanner and the validation of bindings tell apart in them.
- **Validation of requests and imports of datasets**: one transaction each, no protocol. The
  scanner is modelled by the traits it finds; paths, archives and their limits are not.
- **Malformed records and records of other types** on the Kafka topic: publishers write none.
  By the code such a record is sought back for ever and blocks its partition.
- **Two Redis workers at once**: the dispatch model and its refinement proof allow any number,
  `Tracked` and `OneCopy` are stated for one, which is what `docker-compose.yml` runs. With two
  the ack of a stale worker removes the entry of the one that took the run over.
- **Shape of a scenario document**: ids, kinds, limits and sensitive keys. The model begins
  with a document whose dependencies are still to be validated; references are abstracted to
  whether they resolve.
- **Adapters**: the mapping of payloads, authentication, discovery, and the MCP operations that
  are no tasks are functions of one message. `cancel` of the AG-UI adapter is modelled with a
  caller in another thread, for which it is written.
- **Accounts**: password hashing, access tokens, audit rows and lists for the console.
- **Policy bundles**: activation is one row; the engine's answers are modelled as any answer.
- **Comparison and event streams** only read.
- **Brokers**: Redis, Kafka and PostgreSQL do not lose what they have acknowledged.
- **Console, fakes, telemetry, command line, deployment** have no state of the system's own.
