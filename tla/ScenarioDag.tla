---------------------------- MODULE ScenarioDag ----------------------------
(***************************************************************************)
(* One execution of a scenario: the validation of its node graph and       *)
(* execute_scenario in adapters/scenario.py, which runs the graph's nodes  *)
(* in batches.  The nodes of a batch are coroutines under asyncio.gather,  *)
(* each of which starts its invocation of an agent or a tool as a task and *)
(* waits for it, for its timeout and for the cancellation event.           *)
(*                                                                         *)
(* asyncio runs a coroutine up to its next await without interruption.  So *)
(* the fold over a batch's results, the test of the event and the start of *)
(* the next batch are one step (Collect): there is no await between them.  *)
(***************************************************************************)
EXTENDS Naturals, FiniteSets

CONSTANTS
  NodeCount,    \* nodes are numbered in the order of the document
  Ghost,        \* an id in a depends_on list that no node has
  Documents     \* the graphs somebody may submit

Node == 1 .. NodeCount

ASSUME ScenarioAssumption ==
  /\ NodeCount \in Nat \ {0}
  /\ Ghost \notin Node
  /\ Documents \subseteq [dependsOn : [Node -> SUBSET (Node \cup {Ghost})],
                          required : SUBSET Node,
                          parallel : 1 .. 4]

VARIABLES
  plan,       \* the submitted document
  phase,      \* where validation and execute_scenario stand
  node,       \* node[n]: the coroutine _run_node of n, and its result
  inFlight,   \* the nodes whose invocation task is not over
  batch,      \* the nodes under the current gather
  outcomes,   \* the nodes that have an outcome; the others are pending
  cancelled   \* the event cancel, cancel_active or a lost lease sets

vars == <<plan, phase, node, inFlight, batch, outcomes, cancelled>>

-----------------------------------------------------------------------------
(* Types *)

\* "unresolved" is the branch of execute_scenario that finds no ready node;
\* "aborted" the execution whose own task somebody cancelled.
Ended == {"rejected", "completed", "failed", "cancelled", "unresolved", "aborted"}

\* What _run_node returned or raised: "stopped" is ScenarioCancelled, "severed"
\* asyncio's CancelledError out of an adapter, "failed" any other exception.
Settled == {"completed", "failed", "stopped", "severed"}

Coroutine == {"pending", "gathered", "invoked", "interrupted"} \cup Settled

ScenarioTypeOK ==
  /\ plan \in Documents
  /\ phase \in {"submitted", "accepted", "gather"} \cup Ended
  /\ node \in [Node -> Coroutine]
  /\ inFlight \subseteq Node
  /\ batch \subseteq Node
  /\ outcomes \subseteq Node
  /\ cancelled \in BOOLEAN

Init ==
  /\ plan \in Documents
  /\ phase = "submitted"
  /\ node = [n \in Node |-> "pending"]
  /\ inFlight = {}
  /\ batch = {}
  /\ outcomes = {}
  /\ cancelled = FALSE

-----------------------------------------------------------------------------
(* Validation *)

\* No dependency on itself or on an id that no node has.
Known(d) == \A n \in Node : d.dependsOn[n] \subseteq Node \ {n}

\* Peeled(d)[k]: what k rounds of _validate_dag take out of remaining.
Peeled(d) ==
  LET taken[k \in 0 .. NodeCount] ==
        IF k = 0 THEN {}
        ELSE {n \in Node : d.dependsOn[n] \subseteq taken[k - 1]}
  IN  taken

PeelsOffMutant(d) == Peeled(d)[1] # {}

\* The rounds stop when nothing is left or nothing is taken.
PeelsOff(d) == Peeled(d)[NodeCount] = Node

Validate ==
  /\ phase = "submitted"
  /\ phase' = IF Known(plan) /\ PeelsOff(plan) THEN "accepted" ELSE "rejected"
  /\ UNCHANGED <<plan, node, inFlight, batch, outcomes, cancelled>>

-----------------------------------------------------------------------------
(* The loop over batches *)

\* Pending nodes whose dependencies have an outcome, good or bad.
Ready(done) == {n \in Node \ done : plan.dependsOn[n] \subseteq done}

NextBatchMutant(done) ==
  LET ready == Ready(done)
  IN  {n \in ready : Cardinality({m \in ready : m < n}) <= plan.parallel}

\* ready[: max_parallel_nodes], in the order of the document.
NextBatch(done) ==
  LET ready == Ready(done)
  IN  {n \in ready : Cardinality({m \in ready : m < n}) < plan.parallel}

\* From the top of the while loop, with outcomes for done.  Behind the loop the
\* output reference is resolved, which raises when its path is missing.
Advance(done) ==
  /\ outcomes' = done
  /\ \/ /\ done = Node
        /\ phase' \in {"completed", "failed"}
        /\ batch' = {}
        /\ UNCHANGED node
     \/ /\ done # Node
        /\ cancelled \/ Ready(done) = {}
        /\ phase' = IF cancelled THEN "cancelled" ELSE "unresolved"
        /\ batch' = {}
        /\ UNCHANGED node
     \/ /\ done # Node
        /\ ~ cancelled
        /\ Ready(done) # {}
        /\ phase' = "gather"
        /\ batch' = NextBatch(done)
        /\ node' = [n \in Node |-> IF n \in NextBatch(done) THEN "gathered" ELSE node[n]]

Start ==
  /\ phase = "accepted"
  /\ Advance({})
  /\ UNCHANGED <<plan, inFlight, cancelled>>

\* execute_scenario finds a sensitive key in the input.
RefuseInput ==
  /\ phase = "accepted"
  /\ phase' = "failed"
  /\ UNCHANGED <<plan, node, inFlight, batch, outcomes, cancelled>>

-----------------------------------------------------------------------------
(* _run_node *)

Becomes(n, s) == node' = [node EXCEPT ![n] = s]

\* A reference has no value, a destination collides, or no adapter can be made.
InputMissing(n) ==
  /\ phase = "gather"
  /\ node[n] = "gathered"
  /\ Becomes(n, "failed")
  /\ UNCHANGED <<plan, phase, inFlight, batch, outcomes, cancelled>>

\* Under the semaphore of max_parallel_nodes: the invocation task is created,
\* unless the event is set.
Holders == {n \in batch : node[n] \in {"invoked", "interrupted"}}

Invoke(n) ==
  /\ phase = "gather"
  /\ node[n] = "gathered"
  /\ Cardinality(Holders) < plan.parallel
  /\ IF cancelled
       THEN Becomes(n, "stopped") /\ UNCHANGED inFlight
       ELSE Becomes(n, "invoked") /\ inFlight' = inFlight \cup {n}
  /\ UNCHANGED <<plan, phase, batch, outcomes, cancelled>>

\* The invocation is over before its timeout: a result, or what it raised.
Return(n) ==
  /\ phase = "gather"
  /\ node[n] = "invoked"
  /\ \E result \in {"completed", "failed", "severed"} : Becomes(n, result)
  /\ inFlight' = inFlight \ {n}
  /\ UNCHANGED <<plan, phase, batch, outcomes, cancelled>>

InterruptibleMutant(n) == node[n] = "invoked" /\ cancelled

\* asyncio.wait comes back without the invocation: timeout_seconds have passed
\* or the event is set.
Interruptible(n) == node[n] = "invoked"

Interrupt(n) ==
  /\ phase = "gather"
  /\ Interruptible(n)
  /\ Becomes(n, "interrupted")
  /\ UNCHANGED <<plan, phase, inFlight, batch, outcomes, cancelled>>

UnwoundMutantAlways(n) == "stopped"

\* What is raised after the cancelled invocation has ended: the event is looked
\* at again, whatever ended the wait.
Unwound(n) == IF cancelled THEN "stopped" ELSE "failed"

Unwind(n) ==
  /\ phase = "gather"
  /\ node[n] = "interrupted"
  /\ Becomes(n, Unwound(n))
  /\ inFlight' = inFlight \ {n}
  /\ UNCHANGED <<plan, phase, batch, outcomes, cancelled>>

-----------------------------------------------------------------------------
(* The end of a batch *)

GatheredMutant ==
  \/ \A n \in batch : node[n] \in Settled
  \/ \E n \in batch : node[n] \in {"failed", "stopped"} /\ n \in plan.required

\* gather with return_exceptions waits for every coroutine of the batch.
Gathered == \A n \in batch : node[n] \in Settled

RequiredFailureMutant(n) == n \in plan.required /\ node[n] = "failed"

\* Only an Exception counts, and CancelledError is none.
RequiredFailure(n) == n \in plan.required /\ node[n] \in {"failed", "stopped"}

\* The exception of the last required node that has one is raised.
Collect ==
  /\ phase = "gather"
  /\ Gathered
  /\ LET failures == {n \in batch : RequiredFailure(n)}
         Last(n) == n \in failures /\ \A m \in failures : m <= n
     IN  \/ \E n \in failures :
              /\ Last(n)
              /\ phase' = IF node[n] = "stopped" THEN "cancelled" ELSE "failed"
              /\ outcomes' = outcomes \cup batch
              /\ batch' = {}
              /\ UNCHANGED node
         \/ /\ failures = {}
            /\ Advance(outcomes \cup batch)
  /\ UNCHANGED <<plan, inFlight, cancelled>>

-----------------------------------------------------------------------------
(* The outside *)

\* cancel, cancel_active, or a heartbeat that lost its run.
Cancel ==
  /\ phase \in {"accepted", "gather"}
  /\ ~ cancelled
  /\ cancelled' = TRUE
  /\ UNCHANGED <<plan, phase, node, inFlight, batch, outcomes>>

\* The task of execute_scenario is cancelled: wait_for has timed out, or the
\* heartbeat goes on to task.cancel().  The coroutines of the batch are
\* cancelled at their awaits; asyncio.wait leaves the invocations running.
Abort ==
  /\ phase \in {"accepted", "gather"}
  /\ phase' = "aborted"
  /\ UNCHANGED <<plan, node, inFlight, batch, outcomes, cancelled>>

OrphanEnds(n) ==
  /\ phase = "aborted"
  /\ n \in inFlight
  /\ inFlight' = inFlight \ {n}
  /\ UNCHANGED <<plan, phase, node, batch, outcomes, cancelled>>

RunNode(n) ==
  \/ InputMissing(n)
  \/ Invoke(n)
  \/ Return(n)
  \/ Interrupt(n)
  \/ Unwind(n)

Next ==
  \/ Validate
  \/ Start
  \/ RefuseInput
  \/ \E n \in Node : RunNode(n)
  \/ Collect
  \/ Cancel
  \/ Abort
  \/ \E n \in Node : OrphanEnds(n)

\* The event loop goes on, a node's timeout passes, and an invocation that is
\* cancelled ends.  That an agent or a tool ever answers is not assumed.
Fairness ==
  /\ WF_vars(Validate)
  /\ WF_vars(Start)
  /\ WF_vars(Collect)
  /\ \A n \in Node : WF_vars(Invoke(n)) /\ WF_vars(Interrupt(n)) /\ WF_vars(Unwind(n))

Spec == Init /\ [][Next]_vars
FairSpec == Spec /\ Fairness

-----------------------------------------------------------------------------
(* Properties *)

\* Every set of nodes has one that depends on none of the set, and no
\* dependency is unknown.
Sound(d) ==
  /\ \A n \in Node : Ghost \notin d.dependsOn[n]
  /\ \A knot \in SUBSET Node :
       knot # {} => \E n \in knot : d.dependsOn[n] \cap knot = {}

\* A graph is accepted exactly when it has no unknown dependency and no cycle,
\* i.e. no set of nodes each of which depends on another one of the set, and
\* then execution never finds itself without a ready node (_validate_dag and
\* the check in execute_scenario's loop agree).
ValidationExact ==
  /\ phase # "submitted" => (phase = "rejected" <=> ~ Sound(plan))
  /\ phase # "unresolved"

\* The first nodes that nothing holds back, as many as fit side by side.
Greedy(d, done) ==
  LET free == {n \in Node \ done : d.dependsOn[n] \ done = {}}
  IN  {n \in free : \E few \in SUBSET free :
         /\ n \in few
         /\ Cardinality(few) <= d.parallel
         /\ \A m \in free : m < n => m \in few}

\* Stages(d)[k]: the nodes of the first k batches of the graph.
Stages(d) ==
  LET stage[k \in 0 .. NodeCount] ==
        IF k = 0 THEN {} ELSE stage[k - 1] \cup Greedy(d, stage[k - 1])
  IN  stage

\* Execution is deterministic: which nodes run side by side, and so whose
\* outputs a node may read, depends on the graph alone, never on how long
\* nodes take, which optional nodes fail or when a cancellation comes.
Lockstep ==
  phase = "gather" =>
    \E k \in 0 .. NodeCount :
      outcomes = Stages(plan)[k] /\ batch = Greedy(plan, Stages(plan)[k])

\* A scenario completes only when every node has an outcome and no required
\* node was interrupted or raised an exception.
RequiredDone ==
  phase = "completed" =>
    /\ outcomes = Node
    /\ \A n \in Node : node[n] \in Settled
    /\ \A n \in plan.required : node[n] \in {"completed", "severed"}

\* An execution that ends as cancelled was cancelled by somebody: the timeout
\* of a node is never taken for a cancellation.
CancelExplained ==
  /\ phase = "cancelled" => cancelled
  /\ \A n \in Node : node[n] = "stopped" => cancelled

\* When execute_scenario ends by itself, completed, failed or cancelled through
\* the event, none of its invocations is still running.
NodesStopped == phase \in Ended \ {"aborted"} => inFlight = {}

\* Every submitted scenario ends, even if no agent or tool ever answers.
ScenarioEnds == <>(phase \in Ended)
=============================================================================
