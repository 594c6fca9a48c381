--------------------------- MODULE ScenarioProofs ---------------------------
(***************************************************************************)
(* Theorems about ScenarioDag, for every number of nodes and every set of  *)
(* documents.                                                              *)
(*                                                                         *)
(* The invariant DagInv says where a coroutine's result may be while its   *)
(* batch is under way: the invocations in flight are those of coroutines   *)
(* that are invoked or interrupted, those are in the batch, and what has   *)
(* an outcome is settled and, if required, well.                           *)
(*                                                                         *)
(* The second half is about recursive functions, the rounds of the         *)
(* validation and the stages of a graph: their equations are derived with  *)
(* the lemmas of Induction, and what follows holds for every graph.        *)
(***************************************************************************)
EXTENDS ScenarioDag, Induction

Awaiting == {"invoked", "interrupted"}
Fine == {"completed", "severed"}

\* The invocations of an execution that nobody aborted are those its coroutines
\* wait for.
FlightInv == phase # "aborted" => inFlight = {n \in Node : node[n] \in Awaiting}

\* A coroutine that is not settled belongs to the batch under way.
BatchInv ==
  /\ phase = "gather" => batch \cap outcomes = {}
  /\ phase \notin {"gather", "aborted"} => batch = {}
  /\ \A n \in Node : node[n] \notin Settled \cup {"pending"} => n \in batch
  /\ \A n \in Node : n \in batch => node[n] # "pending"
  /\ \A n \in Node : node[n] # "pending" => n \in outcomes \cup batch

OutcomeInv ==
  /\ phase \in {"submitted", "accepted"} => outcomes = {}
  /\ \A n \in outcomes : node[n] \in Settled
  /\ phase \in {"submitted", "accepted", "gather", "completed"} =>
       \A n \in outcomes : n \in plan.required => node[n] \in Fine
  /\ phase = "completed" => outcomes = Node

\* A node is begun when all the nodes it depends on have an outcome, and these
\* outcomes stay: a handoff never goes from a node that is still at work.
DependenciesFirst ==
  \A n \in Node : node[n] # "pending" => plan.dependsOn[n] \subseteq outcomes

DagInv ==
  /\ ScenarioTypeOK
  /\ FlightInv
  /\ BatchInv
  /\ OutcomeInv
  /\ CancelExplained
  /\ DependenciesFirst

-----------------------------------------------------------------------------
(* The steps *)

LEMMA DagInit == Init => DagInv
BY DEF Init, DagInv, ScenarioTypeOK, FlightInv, BatchInv, OutcomeInv,
       CancelExplained, DependenciesFirst, Awaiting, Coroutine, Settled, Ended

LEMMA NextBatchReady ==
  ASSUME NEW done \in SUBSET Node
  PROVE  /\ NextBatch(done) \subseteq Node \ done
         /\ \A n \in NextBatch(done) : plan.dependsOn[n] \subseteq done
BY DEF NextBatch, Ready

\* The top of the loop, when everything begun so far is settled and well.
LEMMA AdvanceKeeps ==
  ASSUME DagInv,
         NEW done \in SUBSET Node,
         phase \in {"accepted", "gather"},
         done = outcomes \cup batch,
         \A n \in done : node[n] \in Settled /\ (n \in plan.required => node[n] \in Fine),
         Advance(done),
         UNCHANGED <<plan, inFlight, cancelled>>
  PROVE  DagInv'
<1> DEFINE Next1 == NextBatch(done)
<1>1. /\ Next1 \subseteq Node \ done
      /\ \A n \in Next1 : plan.dependsOn[n] \subseteq done
  BY NextBatchReady
<1>2. inFlight = {} /\ \A n \in Node : node[n] \notin Awaiting
  BY DEF DagInv, FlightInv, BatchInv, Awaiting, Settled
<1>3. \A n \in Node : node[n] # "pending" <=> n \in done
  BY DEF DagInv, BatchInv, Settled
<1>4. CASE UNCHANGED node /\ batch' = {} /\ phase' \in Ended \ {"rejected", "aborted"}
  <2>1. phase' = "completed" => done = Node
    BY <1>4 DEF Advance
  <2>2. phase' = "cancelled" => cancelled
    BY <1>4 DEF Advance
  <2> QED
    BY <1>2, <1>3, <1>4, <2>1, <2>2
    DEF DagInv, ScenarioTypeOK, FlightInv, BatchInv, OutcomeInv, CancelExplained,
        DependenciesFirst, Advance, Ended
<1>5. CASE /\ phase' = "gather"
           /\ batch' = Next1
           /\ node' = [n \in Node |-> IF n \in Next1 THEN "gathered" ELSE node[n]]
  <2> outcomes' = done
    BY DEF Advance
  <2>1. ScenarioTypeOK'
    BY <1>1, <1>5 DEF DagInv, ScenarioTypeOK, Coroutine
  <2>2. FlightInv'
    BY <1>2, <1>5 DEF FlightInv, Awaiting
  <2>3. BatchInv'
    BY <1>1, <1>3, <1>5 DEF BatchInv, Settled, DagInv
  <2>4. OutcomeInv'
    BY <1>1, <1>5 DEF OutcomeInv
  <2>5. CancelExplained'
    BY <1>5 DEF CancelExplained, DagInv
  <2>6. DependenciesFirst'
    BY <1>1, <1>3, <1>5 DEF DependenciesFirst, DagInv
  <2> QED
    BY <2>1, <2>2, <2>3, <2>4, <2>5, <2>6 DEF DagInv
<1> QED
  BY <1>4, <1>5 DEF Advance, Ended

\* A coroutine's step changes its own state and its own invocation.
LEMMA CoroutineKeeps ==
  ASSUME DagInv, NEW n \in Node, RunNode(n)
  PROVE  DagInv'
<1> USE DEF Becomes
<1>1. PICK s \in {"invoked", "interrupted"} \cup Settled :
        /\ phase = "gather"
        /\ node[n] \in {"gathered", "invoked", "interrupted"}
        /\ node' = [node EXCEPT ![n] = s]
        /\ inFlight' = IF s \in Awaiting THEN inFlight \cup {n} ELSE inFlight \ {n}
        /\ s = "stopped" => cancelled
        /\ UNCHANGED <<plan, phase, batch, outcomes, cancelled>>
  BY DEF RunNode, InputMissing, Invoke, Return, Interrupt, Interruptible, Unwind, Unwound,
         DagInv, ScenarioTypeOK, FlightInv, Awaiting, Settled
<1>2. n \in batch /\ n \notin outcomes
  BY <1>1 DEF DagInv, BatchInv, Settled
<1>3. ScenarioTypeOK'
  BY <1>1 DEF DagInv, ScenarioTypeOK, Coroutine, Awaiting
<1>4. FlightInv'
  BY <1>1 DEF DagInv, ScenarioTypeOK, FlightInv, Awaiting
<1>5. BatchInv'
  BY <1>1, <1>2 DEF DagInv, ScenarioTypeOK, BatchInv, Settled
<1>6. OutcomeInv'
  BY <1>1, <1>2 DEF DagInv, ScenarioTypeOK, OutcomeInv
<1>7. CancelExplained'
  BY <1>1 DEF DagInv, ScenarioTypeOK, CancelExplained
<1>8. DependenciesFirst'
  BY <1>1 DEF DagInv, ScenarioTypeOK, DependenciesFirst
<1> QED
  BY <1>3, <1>4, <1>5, <1>6, <1>7, <1>8 DEF DagInv

LEMMA CollectKeeps ==
  ASSUME DagInv, Collect
  PROVE  DagInv'
<1> DEFINE failures == {n \in batch : RequiredFailure(n)}
           done == outcomes \cup batch
<1>1. /\ phase = "gather"
      /\ \A n \in batch : node[n] \in Settled
      /\ UNCHANGED <<plan, inFlight, cancelled>>
  BY DEF Collect, Gathered
<1>2. done \in SUBSET Node /\ \A n \in done : node[n] \in Settled
  BY <1>1 DEF DagInv, ScenarioTypeOK, OutcomeInv
<1>3. CASE failures = {} /\ Advance(done)
  <2>1. \A n \in done : n \in plan.required => node[n] \in Fine
    BY <1>1, <1>3 DEF DagInv, OutcomeInv, RequiredFailure, Fine, Settled
  <2> QED
    BY <1>1, <1>2, <1>3, <2>1, AdvanceKeeps
<1>4. ASSUME NEW n \in failures,
             phase' = IF node[n] = "stopped" THEN "cancelled" ELSE "failed",
             outcomes' = done, batch' = {}, UNCHANGED node
      PROVE  DagInv'
  <2>1. \A m \in Node : node[m] \notin Awaiting
    BY <1>1 DEF DagInv, BatchInv, Awaiting, Settled
  <2>2. n \in Node
    BY DEF DagInv, ScenarioTypeOK
  <2> QED
    BY <1>1, <1>2, <1>4, <2>1, <2>2
    DEF DagInv, ScenarioTypeOK, FlightInv, BatchInv, OutcomeInv, CancelExplained,
        DependenciesFirst, Ended
<1> QED
  BY <1>3, <1>4 DEF Collect

LEMMA DagStep ==
  ASSUME DagInv, [Next]_vars
  PROVE  DagInv'
<1> USE DEF DagInv, ScenarioTypeOK, FlightInv, BatchInv, OutcomeInv, CancelExplained,
            DependenciesFirst
<1>1. CASE Validate \/ RefuseInput
  BY <1>1 DEF Validate, RefuseInput, Ended
<1>2. CASE Start
  <2>1. outcomes = {} /\ batch = {} /\ phase = "accepted"
    BY <1>2 DEF Start
  <2> QED
    BY <1>2, <2>1, AdvanceKeeps DEF Start
<1>3. ASSUME NEW n \in Node, RunNode(n) PROVE DagInv'
  BY <1>3, CoroutineKeeps
<1>4. CASE Collect
  BY <1>4, CollectKeeps
<1>5. CASE Cancel
  BY <1>5 DEF Cancel
<1>6. CASE Abort
  BY <1>6 DEF Abort, Ended
<1>7. ASSUME NEW n \in Node, OrphanEnds(n) PROVE DagInv'
  BY <1>7 DEF OrphanEnds
<1>8. CASE UNCHANGED vars
  BY <1>8 DEF vars
<1> QED
  BY <1>1, <1>2, <1>3, <1>4, <1>5, <1>6, <1>7, <1>8 DEF Next

THEOREM DagInvariance == Spec => []DagInv
BY DagInit, DagStep, PTL DEF Spec

-----------------------------------------------------------------------------
(* The theorems *)

\* Every variable of an execution keeps its type.
THEOREM ScenarioTypes == Spec => []ScenarioTypeOK
<1> DagInv => ScenarioTypeOK
  BY DEF DagInv
<1> QED
  BY DagInvariance, PTL

\* A node starts only behind all the nodes it depends on.
THEOREM HandoffsInOrder == Spec => []DependenciesFirst
<1> DagInv => DependenciesFirst
  BY DEF DagInv
<1> QED
  BY DagInvariance, PTL

\* A scenario that completes has an outcome of every node, and no required node
\* failed or was stopped.
THEOREM CompletionSound == Spec => []RequiredDone
<1> DagInv => RequiredDone
  BY ScenarioAssumption DEF DagInv, OutcomeInv, ScenarioTypeOK, RequiredDone, Fine
<1> QED
  BY DagInvariance, PTL

\* An execution is reported as cancelled only if somebody cancelled it.
THEOREM CancellationsExplained == Spec => []CancelExplained
<1> DagInv => CancelExplained
  BY DEF DagInv
<1> QED
  BY DagInvariance, PTL

\* An execution that ends by itself leaves no invocation running.
THEOREM NoInvocationLeft == Spec => []NodesStopped
<1> DagInv => NodesStopped
  BY DEF DagInv, FlightInv, BatchInv, NodesStopped, Ended, Awaiting, Settled
<1> QED
  BY DagInvariance, PTL

-----------------------------------------------------------------------------
(* Validation: the rounds of _validate_dag against the definition of a graph *)
(* without cycles.                                                           *)

LEMMA NodesFinite ==
  /\ IsFiniteSet(Node) /\ Cardinality(Node) = NodeCount
  /\ \A S \in SUBSET Node : IsFiniteSet(S) /\ Cardinality(S) \in Nat
<1>1. IsFiniteSet(Node) /\ Cardinality(Node) = NodeCount
  BY FS_Interval, ScenarioAssumption DEF Node
<1>2. \A S \in SUBSET Node : IsFiniteSet(S) /\ Cardinality(S) \in Nat
  BY <1>1, FS_Subset, FS_CardinalityType
<1> QED BY <1>1, <1>2

\* What one more round takes, as a function of what is taken.
Round(d) == [T \in SUBSET Node |-> {n \in Node : d.dependsOn[n] \subseteq T}]

LEMMA PeeledRounds ==
  ASSUME NEW d
  PROVE  /\ Peeled(d)[0] = {}
         /\ \A k \in 1 .. NodeCount :
              Peeled(d)[k] = {n \in Node : d.dependsOn[n] \subseteq Peeled(d)[k - 1]}
         /\ \A k \in 0 .. NodeCount : Peeled(d)[k] \in SUBSET Node
<1> DEFINE R(f) == [k \in 0 .. NodeCount |->
                      IF k = 0 THEN {} ELSE {n \in Node : d.dependsOn[n] \subseteq f[k - 1]}]
<1>1. \E f : f = R(f)
  <2>1. StepsIn(Round(d), SUBSET Node, {}, NodeCount)
    BY ScenarioAssumption DEF Round, StepsIn
  <2>2. PICK g : Repeats(g, Round(d), SUBSET Node, {}, NodeCount)
    BY <2>1, Iterates
  <2>3. \A k \in 1 .. NodeCount : k - 1 \in 0 .. NodeCount /\ k \in 0 .. NodeCount
    BY ScenarioAssumption
  <2>4. \A k \in 1 .. NodeCount : g[k] = {n \in Node : d.dependsOn[n] \subseteq g[k - 1]}
    BY <2>2, <2>3 DEF Round, Repeats
  <2>5. g = R(g)
    BY <2>2, <2>4 DEF Repeats
  <2> QED BY <2>5
<1>2. Peeled(d) = CHOOSE f : f = R(f)
  BY DEF Peeled
<1>3. Peeled(d) = R(Peeled(d))
  BY <1>1, <1>2
<1> DEFINE p == Peeled(d)
<1> HIDE DEF p
<1>4. p = [k \in 0 .. NodeCount |->
             IF k = 0 THEN {} ELSE {n \in Node : d.dependsOn[n] \subseteq p[k - 1]}]
  BY <1>3 DEF p
<1>5. 0 \in 0 .. NodeCount /\ \A k \in 1 .. NodeCount : k \in 0 .. NodeCount /\ k # 0
  BY ScenarioAssumption
<1>6. p[0] = {} /\ \A k \in 1 .. NodeCount : p[k] = {n \in Node : d.dependsOn[n] \subseteq p[k - 1]}
  BY <1>4, <1>5
<1>7. \A k \in 0 .. NodeCount : p[k] \in SUBSET Node
  <2>1. \A k \in 0 .. NodeCount : k = 0 \/ k \in 1 .. NodeCount
    BY ScenarioAssumption
  <2> QED BY <1>6, <2>1
<1> QED BY <1>6, <1>7 DEF p

\* Nothing that is taken goes back, and a graph that is not peeled off yet loses
\* a node in every round when it is sound.
LEMMA PeelingGrows ==
  ASSUME NEW d
  PROVE  \A k \in 0 .. NodeCount : k # NodeCount => Peeled(d)[k] \subseteq Peeled(d)[k + 1]
<1> DEFINE p == Peeled(d)
           T == {k \in Nat : k < NodeCount => p[k] \subseteq p[k + 1]}
<1>1. /\ p[0] = {}
      /\ \A k \in 1 .. NodeCount : p[k] = {n \in Node : d.dependsOn[n] \subseteq p[k - 1]}
  BY PeeledRounds
<1> HIDE DEF p
<1>2. 0 \in T
  BY <1>1
<1>3. ASSUME NEW k \in Nat, k \in T PROVE k + 1 \in T
  <2> SUFFICES ASSUME k + 1 < NodeCount PROVE p[k + 1] \subseteq p[k + 1 + 1]
    OBVIOUS
  <2>1. k + 1 \in 1 .. NodeCount /\ k + 2 \in 1 .. NodeCount /\ k < NodeCount
    BY ScenarioAssumption
  <2>2. /\ p[k + 1] = {n \in Node : d.dependsOn[n] \subseteq p[k]}
        /\ p[k + 2] = {n \in Node : d.dependsOn[n] \subseteq p[k + 1]}
    <3>1. (k + 1) - 1 = k /\ (k + 2) - 1 = k + 1
      OBVIOUS
    <3> QED BY <1>1, <2>1, <3>1
  <2>3. p[k] \subseteq p[k + 1]
    BY <1>3, <2>1
  <2>4. k + 1 + 1 = k + 2
    OBVIOUS
  <2> QED BY <2>2, <2>3, <2>4
<1> HIDE DEF T
<1>4. \A k \in Nat : k \in T
  BY <1>2, <1>3, NatInductionOn
<1>5. \A k \in 0 .. NodeCount : k # NodeCount => p[k] \subseteq p[k + 1]
  BY <1>4, ScenarioAssumption DEF T
<1> QED BY <1>5 DEF p

LEMMA SoundPeelsOff ==
  ASSUME NEW d \in Documents, Sound(d)
  PROVE  PeelsOff(d)
<1> DEFINE p == Peeled(d)
           T == {k \in Nat : k <= NodeCount => p[k] = Node \/ Cardinality(p[k]) >= k}
<1>1. /\ p[0] = {}
      /\ \A k \in 1 .. NodeCount : p[k] = {n \in Node : d.dependsOn[n] \subseteq p[k - 1]}
      /\ \A k \in 0 .. NodeCount : p[k] \in SUBSET Node
      /\ \A k \in 0 .. NodeCount : k # NodeCount => p[k] \subseteq p[k + 1]
  BY PeeledRounds, PeelingGrows
<1> HIDE DEF p
<1>2. 0 \in T
  <2>1. Cardinality(p[0]) >= 0
    BY <1>1, FS_EmptySet
  <2> QED BY <2>1
<1>3. ASSUME NEW k \in Nat, k \in T PROVE k + 1 \in T
  <2> SUFFICES ASSUME k + 1 <= NodeCount
               PROVE  p[k + 1] = Node \/ Cardinality(p[k + 1]) >= k + 1
    OBVIOUS
  <2>1. k \in 0 .. NodeCount /\ k # NodeCount /\ k + 1 \in 1 .. NodeCount /\ k + 1 \in 0 .. NodeCount
    BY ScenarioAssumption
  <2>2. p[k] \subseteq p[k + 1] /\ p[k + 1] \subseteq Node
    BY <1>1, <2>1
  <2>3. p[k + 1] = {n \in Node : d.dependsOn[n] \subseteq p[k]}
    <3>1. (k + 1) - 1 = k
      OBVIOUS
    <3> QED BY <1>1, <2>1, <3>1
  <2>4. CASE p[k] = Node
    BY <2>2, <2>4
  <2>5. CASE p[k] # Node
    <3> DEFINE knot == Node \ p[k]
    <3>1. knot \in SUBSET Node /\ knot # {}
      BY <2>2, <2>5
    <3>2. PICK n \in knot : d.dependsOn[n] \cap knot = {}
      BY <3>1 DEF Sound
    <3>3. d.dependsOn[n] \subseteq p[k]
      <4>1. n \in Node
        OBVIOUS
      <4>2. d.dependsOn[n] \subseteq Node \cup {Ghost} /\ Ghost \notin d.dependsOn[n]
        BY <4>1, ScenarioAssumption DEF Sound
      <4> QED BY <3>2, <4>2
    <3>4. n \in p[k + 1] /\ n \notin p[k]
      BY <2>3, <3>2, <3>3
    <3>5. IsFiniteSet(p[k + 1]) /\ Cardinality(p[k]) \in Nat /\ Cardinality(p[k + 1]) \in Nat
      BY <2>2, NodesFinite
    <3>6. /\ Cardinality(p[k]) <= Cardinality(p[k + 1])
          /\ Cardinality(p[k]) # Cardinality(p[k + 1])
      BY <2>2, <3>4, <3>5, FS_Subset
    <3>7. Cardinality(p[k]) >= k
      BY <1>3, <2>1, <2>5
    <3> QED BY <3>5, <3>6, <3>7
  <2> QED BY <2>4, <2>5
<1> HIDE DEF T
<1>4. NodeCount \in T
  BY <1>2, <1>3, NatInductionOn, ScenarioAssumption
<1>5. p[NodeCount] \subseteq Node
  BY <1>1, ScenarioAssumption
<1>6. p[NodeCount] = Node \/ Cardinality(p[NodeCount]) >= NodeCount
  BY <1>4, ScenarioAssumption DEF T
<1>7. p[NodeCount] = Node
  BY <1>5, <1>6, NodesFinite, FS_Subset, ScenarioAssumption
<1> QED BY <1>7 DEF p, PeelsOff

\* No round takes a node of a knot.
LEMMA KnotStays ==
  ASSUME NEW d, NEW knot \in SUBSET Node,
         \A n \in knot : d.dependsOn[n] \cap knot # {}
  PROVE  \A k \in 0 .. NodeCount : Peeled(d)[k] \cap knot = {}
<1> DEFINE p == Peeled(d)
           T == {k \in Nat : k <= NodeCount => p[k] \cap knot = {}}
<1>1. /\ p[0] = {}
      /\ \A k \in 1 .. NodeCount : p[k] = {n \in Node : d.dependsOn[n] \subseteq p[k - 1]}
  BY PeeledRounds
<1> HIDE DEF p
<1>2. 0 \in T
  BY <1>1
<1>3. ASSUME NEW k \in Nat, k \in T PROVE k + 1 \in T
  <2> SUFFICES ASSUME k + 1 <= NodeCount PROVE p[k + 1] \cap knot = {}
    OBVIOUS
  <2>1. k + 1 \in 1 .. NodeCount /\ (k + 1) - 1 = k /\ k <= NodeCount
    BY ScenarioAssumption
  <2>2. p[k + 1] = {n \in Node : d.dependsOn[n] \subseteq p[k]}
    BY <1>1, <2>1
  <2>3. p[k] \cap knot = {}
    BY <1>3, <2>1
  <2> QED BY <2>2, <2>3
<1> HIDE DEF T
<1>4. \A k \in Nat : k \in T
  BY <1>2, <1>3, NatInductionOn
<1>5. \A k \in 0 .. NodeCount : p[k] \cap knot = {}
  BY <1>4, ScenarioAssumption DEF T
<1> QED BY <1>5 DEF p

\* The validation accepts exactly the sound graphs.
LEMMA AcceptsSound ==
  ASSUME NEW d \in Documents
  PROVE  Known(d) /\ PeelsOff(d) <=> Sound(d)
<1>1. ASSUME Sound(d) PROVE Known(d) /\ PeelsOff(d)
  <2>1. ASSUME NEW n \in Node PROVE d.dependsOn[n] \subseteq Node \ {n}
    <3>1. {n} \in SUBSET Node /\ {n} # {}
      OBVIOUS
    <3>2. d.dependsOn[n] \cap {n} = {}
      BY <1>1, <3>1 DEF Sound
    <3>3. Ghost \notin d.dependsOn[n] /\ d.dependsOn[n] \subseteq Node \cup {Ghost}
      BY <1>1, ScenarioAssumption DEF Sound
    <3> QED BY <3>2, <3>3
  <2> QED BY <1>1, <2>1, SoundPeelsOff DEF Known
<1>2. ASSUME Known(d), PeelsOff(d) PROVE Sound(d)
  <2>1. ASSUME NEW knot \in SUBSET Node, knot # {}
        PROVE  \E n \in knot : d.dependsOn[n] \cap knot = {}
    <3> SUFFICES ASSUME \A n \in knot : d.dependsOn[n] \cap knot # {} PROVE FALSE
      OBVIOUS
    <3>1. Peeled(d)[NodeCount] \cap knot = {}
      BY KnotStays, ScenarioAssumption
    <3> QED BY <1>2, <2>1, <3>1 DEF PeelsOff
  <2>2. \A n \in Node : Ghost \notin d.dependsOn[n]
    BY <1>2, ScenarioAssumption DEF Known
  <2> QED BY <2>1, <2>2 DEF Sound
<1> QED BY <1>1, <1>2

\* The loop never finds itself without a ready node.
LEMMA SoundAdvances ==
  ASSUME Sound(plan), plan \in Documents, NEW done \in SUBSET Node, done # Node
  PROVE  Ready(done) # {}
<1> DEFINE knot == Node \ done
<1>1. knot \in SUBSET Node /\ knot # {}
  OBVIOUS
<1>2. PICK n \in knot : plan.dependsOn[n] \cap knot = {}
  BY <1>1 DEF Sound
<1>3. plan.dependsOn[n] \subseteq Node \cup {Ghost} /\ Ghost \notin plan.dependsOn[n]
  BY <1>2, ScenarioAssumption DEF Sound
<1>4. n \in Ready(done)
  BY <1>2, <1>3 DEF Ready
<1> QED BY <1>4

LEMMA DecidedStep ==
  ASSUME DagInv, ValidationExact, [Next]_vars
  PROVE  ValidationExact'
<1>1. plan \in Documents /\ plan' = plan
  BY DEF DagInv, ScenarioTypeOK, Next, Validate, Start, RefuseInput, RunNode, InputMissing,
         Invoke, Return, Interrupt, Unwind, Collect, Cancel, Abort, OrphanEnds, vars
<1>2. Sound(plan)' <=> Sound(plan)
  BY <1>1 DEF Sound
<1>3. CASE Validate
  <2>1. phase = "submitted"
        /\ phase' = IF Known(plan) /\ PeelsOff(plan) THEN "accepted" ELSE "rejected"
    BY <1>3 DEF Validate
  <2>2. Known(plan) /\ PeelsOff(plan) <=> Sound(plan)
    BY <1>1, AcceptsSound
  <2> HIDE DEF Sound
  <2> QED BY <1>2, <2>1, <2>2 DEF ValidationExact
<1>4. ASSUME NEW done \in SUBSET Node, Advance(done), phase \in {"accepted", "gather"}
      PROVE  ValidationExact'
  <2>1. Sound(plan)
    BY <1>4 DEF ValidationExact
  <2>2. done # Node => Ready(done) # {}
    BY <1>1, <2>1, SoundAdvances
  <2>3. phase' \in {"completed", "failed", "cancelled", "gather"}
    BY <1>4, <2>2 DEF Advance
  <2> QED BY <1>2, <2>1, <2>3 DEF ValidationExact
<1>5. CASE Start
  BY <1>4, <1>5 DEF Start
<1>6. CASE Collect
  <2>1. outcomes \cup batch \in SUBSET Node /\ phase = "gather"
    BY <1>6 DEF Collect, DagInv, ScenarioTypeOK
  <2>2. CASE Advance(outcomes \cup batch)
    BY <1>4, <2>1, <2>2
  <2>3. CASE phase' \in {"cancelled", "failed"}
    BY <1>2, <2>1, <2>3 DEF ValidationExact
  <2> QED BY <1>6, <2>2, <2>3 DEF Collect
<1>7. CASE RefuseInput \/ Abort
  BY <1>2, <1>7 DEF ValidationExact, RefuseInput, Abort
<1>8. CASE Cancel \/ UNCHANGED vars \/ \E n \in Node : RunNode(n) \/ OrphanEnds(n)
  <2>1. phase' = phase
    BY <1>8 DEF RunNode, InputMissing, Invoke, Return, Interrupt, Unwind, Cancel, OrphanEnds, vars
  <2> QED BY <1>2, <2>1 DEF ValidationExact
<1> QED BY <1>3, <1>5, <1>6, <1>7, <1>8 DEF Next

\* A graph is accepted exactly when it has no unknown dependency and no cycle,
\* and execution never finds itself without a ready node.
THEOREM ValidationDecides == Spec => []ValidationExact
<1>1. Init => ValidationExact
  BY DEF Init, ValidationExact
<1>2. DagInv /\ ValidationExact /\ [Next]_vars => ValidationExact'
  BY DecidedStep
<1> QED BY <1>1, <1>2, DagInvariance, PTL DEF Spec

-----------------------------------------------------------------------------
(* The batches against their definition by the graph alone                   *)

\* The slice of the ready list takes the first nodes that nothing holds back.
LEMMA BatchGreedy ==
  ASSUME plan \in Documents, NEW done
  PROVE  NextBatch(done) = Greedy(plan, done)
<1> DEFINE ready == Ready(done)
           Below(n) == {m \in ready : m < n}
           Fit(n) == \E few \in SUBSET ready :
                       /\ n \in few
                       /\ Cardinality(few) <= plan.parallel
                       /\ \A m \in ready : m < n => m \in few
<1>1. ready = {n \in Node \ done : plan.dependsOn[n] \ done = {}}
  BY DEF Ready
<1>2. ready \subseteq Node /\ Node \subseteq Nat /\ plan.parallel \in Nat
  BY ScenarioAssumption DEF Ready, Node
<1>3. NextBatch(done) = {n \in ready : Cardinality(Below(n)) < plan.parallel}
  BY DEF NextBatch
<1>4. Greedy(plan, done) = {n \in ready : Fit(n)}
  BY <1>1 DEF Greedy
<1> HIDE DEF ready
<1>5. ASSUME NEW n \in ready PROVE Cardinality(Below(n)) < plan.parallel <=> Fit(n)
  <2>1. Below(n) \in SUBSET Node /\ n \notin Below(n)
    <3>1. n \in Nat /\ ~ (n < n)
      BY <1>2
    <3> QED BY <1>2, <3>1
  <2>2. IsFiniteSet(Below(n)) /\ Cardinality(Below(n)) \in Nat
    BY <2>1, NodesFinite
  <2>3. Cardinality(Below(n) \cup {n}) = Cardinality(Below(n)) + 1
    BY <2>1, <2>2, FS_AddElement
  <2>4. ASSUME Cardinality(Below(n)) < plan.parallel PROVE Fit(n)
    <3>1. Below(n) \cup {n} \in SUBSET ready
      OBVIOUS
    <3>2. Cardinality(Below(n) \cup {n}) <= plan.parallel
      BY <1>2, <2>2, <2>3, <2>4
    <3> QED BY <3>1, <3>2
  <2>5. ASSUME Fit(n) PROVE Cardinality(Below(n)) < plan.parallel
    <3>1. PICK few \in SUBSET ready :
            n \in few /\ Cardinality(few) <= plan.parallel /\ \A m \in ready : m < n => m \in few
      BY <2>5
    <3>2. Below(n) \cup {n} \in SUBSET few
      BY <3>1
    <3>3. IsFiniteSet(few) /\ Cardinality(few) \in Nat
      BY <1>2, NodesFinite
    <3>4. Cardinality(Below(n) \cup {n}) <= Cardinality(few)
      BY <3>2, <3>3, FS_Subset
    <3> QED BY <1>2, <2>2, <2>3, <3>1, <3>3, <3>4
  <2> QED BY <2>4, <2>5
<1> QED BY <1>3, <1>4, <1>5

\* A batch is never empty: the first ready node is in it.
LEMMA BatchNonempty ==
  ASSUME plan \in Documents, NEW done, Ready(done) # {}
  PROVE  NextBatch(done) # {}
<1>1. Ready(done) \in SUBSET Nat /\ plan.parallel \in Nat \ {0}
  BY ScenarioAssumption DEF Ready, Node
<1>2. PICK n \in Ready(done) : \A m \in Ready(done) : n <= m
  BY <1>1, LeastNumber
<1>3. {m \in Ready(done) : m < n} = {}
  BY <1>1, <1>2
<1>4. Cardinality({m \in Ready(done) : m < n}) < plan.parallel
  BY <1>1, <1>3, FS_EmptySet
<1> QED BY <1>4 DEF NextBatch

LEMMA StageByStage ==
  ASSUME NEW d
  PROVE  /\ Stages(d)[0] = {}
         /\ \A k \in 1 .. NodeCount :
              Stages(d)[k] = Stages(d)[k - 1] \cup Greedy(d, Stages(d)[k - 1])
<1> DEFINE R(f) == [k \in 0 .. NodeCount |->
                      IF k = 0 THEN {} ELSE f[k - 1] \cup Greedy(d, f[k - 1])]
           F == [T \in SUBSET Node |-> T \cup Greedy(d, T)]
<1>1. \E f : f = R(f)
  <2>1. StepsIn(F, SUBSET Node, {}, NodeCount)
    <3>1. \A T : Greedy(d, T) \subseteq Node
      BY DEF Greedy
    <3> QED BY <3>1, ScenarioAssumption DEF StepsIn
  <2> HIDE DEF F
  <2>2. PICK g : Repeats(g, F, SUBSET Node, {}, NodeCount)
    BY <2>1, Iterates
  <2>3. \A k \in 1 .. NodeCount : k - 1 \in 0 .. NodeCount /\ k \in 0 .. NodeCount
    BY ScenarioAssumption
  <2>4. \A k \in 1 .. NodeCount : g[k] = g[k - 1] \cup Greedy(d, g[k - 1])
    BY <2>2, <2>3 DEF F, Repeats
  <2>5. g = R(g)
    BY <2>2, <2>4 DEF Repeats
  <2> QED BY <2>5
<1>2. Stages(d) = CHOOSE f : f = R(f)
  BY DEF Stages
<1>3. Stages(d) = R(Stages(d))
  BY <1>1, <1>2
<1> DEFINE p == Stages(d)
<1> HIDE DEF p
<1>4. p = [k \in 0 .. NodeCount |->
             IF k = 0 THEN {} ELSE p[k - 1] \cup Greedy(d, p[k - 1])]
  BY <1>3 DEF p
<1>5. 0 \in 0 .. NodeCount /\ \A k \in 1 .. NodeCount : k \in 0 .. NodeCount /\ k # 0
  BY ScenarioAssumption
<1>6. p[0] = {} /\ \A k \in 1 .. NodeCount : p[k] = p[k - 1] \cup Greedy(d, p[k - 1])
  BY <1>4, <1>5
<1> QED BY <1>6 DEF p

\* Every batch adds a node at least, so the graph is exhausted before the
\* stages are.
StageInv ==
  phase = "gather" =>
    /\ batch # {}
    /\ \E k \in 0 .. NodeCount :
         /\ k <= Cardinality(outcomes)
         /\ outcomes = Stages(plan)[k]
         /\ batch = Greedy(plan, Stages(plan)[k])

\* The next stage, when the loop goes on with the nodes of the first k.
LEMMA StageAdvances ==
  ASSUME plan \in Documents, plan' = plan, NEW done \in SUBSET Node, Advance(done),
         NEW k \in Nat, k <= Cardinality(done), k <= NodeCount, done = Stages(plan)[k]
  PROVE  StageInv'
<1> SUFFICES ASSUME phase' = "gather" PROVE StageInv'
  BY DEF StageInv
<1>1. /\ outcomes' = done /\ done # Node /\ Ready(done) # {}
      /\ batch' = NextBatch(done)
  BY DEF Advance
<1>2. NextBatch(done) # {} /\ NextBatch(done) = Greedy(plan, done)
  BY <1>1, BatchGreedy, BatchNonempty
<1>3. k \in 0 .. NodeCount
  BY ScenarioAssumption
<1>4. /\ outcomes' = Stages(plan)[k]
      /\ batch' = Greedy(plan, Stages(plan)[k])
      /\ k <= Cardinality(outcomes')
  BY <1>1, <1>2
<1>5. Stages(plan)' = Stages(plan) /\ \A T : Greedy(plan, T)' = Greedy(plan, T)
  BY DEF Stages, Greedy
<1> QED BY <1>1, <1>2, <1>3, <1>4, <1>5 DEF StageInv

LEMMA StageStep ==
  ASSUME DagInv, StageInv, [Next]_vars
  PROVE  StageInv'
<1>1. plan \in Documents /\ plan' = plan
  BY DEF DagInv, ScenarioTypeOK, Next, Validate, Start, RefuseInput, RunNode, InputMissing,
         Invoke, Return, Interrupt, Unwind, Collect, Cancel, Abort, OrphanEnds, vars
<1>2. CASE Start
  <2>1. Cardinality({}) = 0 /\ {} = Stages(plan)[0]
    BY FS_EmptySet, StageByStage
  <2>2. Advance({})
    BY <1>2 DEF Start
  <2>3. 0 \in Nat /\ 0 <= Cardinality({}) /\ 0 <= NodeCount
    BY <2>1, ScenarioAssumption
  <2> QED BY <1>1, <2>1, <2>2, <2>3, StageAdvances
<1>3. CASE Collect
  <2> DEFINE done == outcomes \cup batch
  <2>1. phase = "gather" /\ done \in SUBSET Node /\ outcomes \in SUBSET Node
        /\ batch \cap outcomes = {}
    BY <1>3 DEF Collect, DagInv, ScenarioTypeOK, BatchInv
  <2>2. PICK k \in 0 .. NodeCount :
          /\ k <= Cardinality(outcomes)
          /\ outcomes = Stages(plan)[k]
          /\ batch = Greedy(plan, Stages(plan)[k])
    BY <2>1 DEF StageInv
  <2>3. IsFiniteSet(done) /\ Cardinality(done) \in Nat /\ Cardinality(outcomes) \in Nat
        /\ IsFiniteSet(Node) /\ Cardinality(Node) = NodeCount
    BY <2>1, NodesFinite
  <2>4. outcomes \in SUBSET done /\ outcomes # done
    BY <2>1 DEF StageInv
  <2>5. Cardinality(outcomes) <= Cardinality(done) /\ Cardinality(outcomes) # Cardinality(done)
    BY <2>3, <2>4, FS_Subset
  <2>6. Cardinality(done) <= NodeCount
    BY <2>1, <2>3, FS_Subset
  <2>7. k + 1 \in Nat /\ k + 1 <= Cardinality(done) /\ k + 1 <= NodeCount
    BY <2>2, <2>3, <2>5, <2>6, ScenarioAssumption
  <2>8. done = Stages(plan)[k + 1]
    <3>1. k + 1 \in 1 .. NodeCount /\ (k + 1) - 1 = k
      BY <2>7
    <3>2. Stages(plan)[k + 1] = Stages(plan)[k] \cup Greedy(plan, Stages(plan)[k])
      BY <3>1, StageByStage
    <3> QED BY <2>2, <3>2
  <2>9. CASE Advance(done)
    <3> HIDE DEF done
    <3> QED BY <1>1, <2>1, <2>7, <2>8, <2>9, StageAdvances
  <2>10. CASE phase' \in {"cancelled", "failed"}
    BY <2>10 DEF StageInv
  <2> QED BY <1>3, <2>9, <2>10 DEF Collect
<1>4. CASE Validate \/ RefuseInput \/ Abort
  BY <1>4 DEF Validate, RefuseInput, Abort, StageInv
<1>5. CASE Cancel \/ UNCHANGED vars \/ \E n \in Node : RunNode(n) \/ OrphanEnds(n)
  <2>1. UNCHANGED <<phase, outcomes, batch>>
    BY <1>5 DEF RunNode, InputMissing, Invoke, Return, Interrupt, Unwind, Cancel, OrphanEnds, vars
  <2>2. Stages(plan)' = Stages(plan) /\ \A T : Greedy(plan, T)' = Greedy(plan, T)
    BY <1>1 DEF Stages, Greedy
  <2> QED BY <2>1, <2>2 DEF StageInv
<1> QED BY <1>2, <1>3, <1>4, <1>5 DEF Next

\* Which nodes run side by side depends on the graph alone.
THEOREM Deterministic == Spec => []Lockstep
<1>1. Init => StageInv
  BY DEF Init, StageInv
<1>2. StageInv => Lockstep
  BY DEF StageInv, Lockstep
<1>3. DagInv /\ StageInv /\ [Next]_vars => StageInv'
  BY StageStep
<1> QED BY <1>1, <1>2, <1>3, DagInvariance, PTL DEF Spec
=============================================================================
