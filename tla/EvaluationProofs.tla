-------------------------- MODULE EvaluationProofs --------------------------
(***************************************************************************)
(* Theorems about one evaluation, from the adapters that call the target   *)
(* to the verdict on the version: what a result says of the remote task    *)
(* and how many runs the budget admits (RemoteTasks), whom a cancellation  *)
(* reaches, in which order the events lie of a stream that is read as      *)
(* completed (AgUi), and for which results the gate ships, blocks, or the  *)
(* run fails (ReleaseGate, over the rules of Scoring).                     *)
(***************************************************************************)
EXTENDS AgUi, RemoteTasks, ReleaseGate, Induction, SequenceTheorems

(* Remote tasks *)

Step == {"idle", "ready", "asked", "reading", "polling", "stopping", "result", "error"}
Remote == {"none", "working"} \cup Resting
Stop == {"none", "target_timeout", "reprocess"}
Action == {"none", "target_timeout", "reprocess", "answer", "task_created", "task_timeout"}
            \cup Resting

TaskTypeOK ==
  /\ step \in [Caller -> Step]
  /\ remote \in [Caller -> Remote]
  /\ seen \in [Caller -> Remote]
  /\ stop \in [Caller -> Stop]
  /\ action \in [Caller -> Action]
  /\ calls \in Nat

\* One sample: the adapter reads nothing before the target has the request, the
\* last word it read stays true, a pause is never followed by more work, a run
\* that is stopped has a reason to be, and what ResultTrue says.
Sound(st, r, v, x, a) ==
  /\ st \in {"idle", "ready"} => v = "none"
  /\ v \in Settled => r = v
  /\ v \in Paused => r \in Resting
  /\ st = "stopping" => x # "none"
  /\ st = "result" =>
       /\ a \in Settled => r = a
       /\ a = "answer" => r = "completed"
       /\ r = "working" => a \in LeftAtWork

TaskInv ==
  /\ TaskTypeOK
  /\ \A s \in Caller : Sound(step[s], remote[s], seen[s], stop[s], action[s])

LEMMA TaskInitInv == TaskInit => TaskInv
BY DEF TaskInit, TaskInv, TaskTypeOK, Sound, Step, Remote, Stop, Action, Settled, Paused, Resting

\* A step moves one sample, whose new values are st, r, v, x and a.
Moves(s, st, r, v, x, a) ==
  /\ step' = [step EXCEPT ![s] = st]
  /\ remote' = [remote EXCEPT ![s] = r]
  /\ seen' = [seen EXCEPT ![s] = v]
  /\ stop' = [stop EXCEPT ![s] = x]
  /\ action' = [action EXCEPT ![s] = a]

LEMMA MovesKeeps ==
  ASSUME TaskInv, calls' \in Nat, NEW s \in Caller,
         NEW st \in Step, NEW r \in Remote, NEW v \in Remote, NEW x \in Stop, NEW a \in Action,
         Moves(s, st, r, v, x, a), Sound(st, r, v, x, a)
  PROVE  TaskInv'
<1>1. TaskTypeOK'
  BY DEF TaskInv, TaskTypeOK, Moves
<1>2. ASSUME NEW t \in Caller
      PROVE  Sound(step'[t], remote'[t], seen'[t], stop'[t], action'[t])
  BY DEF TaskInv, TaskTypeOK, Moves
<1> QED
  BY <1>1, <1>2 DEF TaskInv

LEMMA TaskStep == TaskInv /\ TaskNext => TaskInv'
<1> SUFFICES ASSUME TaskInv, NEW s \in Caller,
                    \/ Begins(s) \/ Raises(s) \/ Arrives(s)
                    \/ \E status \in Resting : Works(s, status)
                    \/ CallAnswers(s) \/ TaskCreated(s) \/ RunCreated(s)
                    \/ MessageOnly(s) \/ Streams(s) \/ StreamOver(s)
                    \/ Polls(s) \/ Ends(s) \/ TaskTimesOut(s)
                    \/ \E why \in {"target_timeout", "reprocess"} : Stops(s, why)
                    \/ \E u \in Usage : RunEnds(s, u) \/ StopEnds(s, u)
             PROVE  TaskInv'
  BY DEF TaskNext
<1> DEFINE r == remote[s]
           v == seen[s]
           x == stop[s]
           a == action[s]
<1>t. /\ step[s] \in Step /\ r \in Remote /\ v \in Remote /\ x \in Stop /\ a \in Action
      /\ calls \in Nat
  BY DEF TaskInv, TaskTypeOK
<1>o. Sound(step[s], r, v, x, a)
  BY DEF TaskInv
<1>f. /\ step = [step EXCEPT ![s] = step[s]] /\ remote = [remote EXCEPT ![s] = r]
      /\ seen = [seen EXCEPT ![s] = v] /\ stop = [stop EXCEPT ![s] = x]
      /\ action = [action EXCEPT ![s] = a]
  BY DEF TaskInv, TaskTypeOK
<1> HIDE DEF r, v, x, a
<1>1. CASE Begins(s)
  <2>1. PICK st \in {"ready", "error"} : Moves(s, st, r, v, x, a)
    BY <1>1, <1>f DEF Begins, Goes, Moves
  <2>2. step[s] = "idle" /\ calls' \in Nat
    BY <1>1, <1>t DEF Begins
  <2> QED
    BY <2>1, <2>2, <1>t, <1>o, MovesKeeps DEF Sound, Step
<1>2. CASE Raises(s)
  <2>1. Moves(s, "error", r, v, x, a) /\ calls' \in Nat
    BY <1>2, <1>f, <1>t DEF Raises, Goes, Moves
  <2> QED
    BY <2>1, <1>t, <1>o, MovesKeeps DEF Sound, Step
<1>3. CASE Arrives(s)
  <2>1. Moves(s, "asked", "working", v, x, a) /\ step[s] = "ready" /\ calls' \in Nat
    BY <1>3, <1>f, <1>t DEF Arrives, Goes, Moves
  <2>2. Sound("asked", "working", v, x, a)
    BY <2>1, <1>o DEF Sound, Settled, Paused
  <2> QED
    BY <2>1, <2>2, <1>t, MovesKeeps DEF Step, Remote
<1>4. ASSUME NEW status \in Resting, Works(s, status) PROVE TaskInv'
  <2>1. Moves(s, step[s], status, v, x, a) /\ calls' \in Nat
    BY <1>4, <1>f, <1>t DEF Works, Moves
  <2>2. r = "working" \/ (r = "paused" /\ status \in Settled)
    BY <1>4 DEF Works, r
  <2>3. Sound(step[s], status, v, x, a)
    BY <2>2, <1>o DEF Sound, Settled, Paused, Resting
  <2> QED
    BY <2>1, <2>3, <1>t, MovesKeeps DEF Remote
<1>5. CASE CallAnswers(s)
  <2>1. calls' \in Nat
    BY <1>5, <1>t DEF CallAnswers
  <2>2. CASE remote[s] = "completed"
    <3>1. Moves(s, "result", r, r, x, "answer") /\ r = "completed"
      BY <1>5, <2>2, <1>f DEF CallAnswers, Over, Goes, Sees, Moves, r
    <3>2. Sound("result", r, r, x, "answer")
      BY <3>1 DEF Sound, Settled, Paused, Resting
    <3> QED
      BY <2>1, <3>1, <3>2, <1>t, MovesKeeps DEF Step, Action
  <2>3. CASE remote[s] # "completed"
    <3>1. Moves(s, "error", r, v, x, a)
      BY <1>5, <2>3, <1>f DEF CallAnswers, Goes, Moves
    <3> QED
      BY <2>1, <3>1, <1>t, <1>o, MovesKeeps DEF Sound, Step
  <2> QED
    BY <2>2, <2>3
<1>6. CASE TaskCreated(s)
  <2>1. calls' \in Nat
    BY <1>6, <1>t DEF TaskCreated
  <2>2. \/ Moves(s, "polling", r, "working", x, a)
        \/ Moves(s, "result", r, "working", x, "task_created")
    BY <1>6, <1>f DEF TaskCreated, Over, Goes, Moves
  <2>3. /\ Sound("polling", r, "working", x, a)
        /\ Sound("result", r, "working", x, "task_created")
    BY DEF Sound, Settled, Paused, LeftAtWork
  <2> QED
    BY <2>1, <2>2, <2>3, <1>t, MovesKeeps DEF Step, Remote, Action
<1>7. CASE RunCreated(s)
  <2>1. Moves(s, "polling", r, r, x, a) /\ calls' \in Nat
    BY <1>7, <1>f, <1>t DEF RunCreated, Goes, Sees, Moves, r
  <2>2. Sound("polling", r, r, x, a)
    BY DEF Sound, Resting
  <2> QED
    BY <2>1, <2>2, <1>t, MovesKeeps DEF Step
<1>8. CASE MessageOnly(s)
  <2>1. Moves(s, "result", r, v, x, "answer") /\ r = "completed" /\ calls' \in Nat
    BY <1>8, <1>f, <1>t DEF MessageOnly, Over, Goes, Moves, r
  <2>2. Sound("result", r, v, x, "answer")
    BY <2>1, <1>o DEF Sound, Settled
  <2> QED
    BY <2>1, <2>2, <1>t, MovesKeeps DEF Step, Action
<1>9. CASE Streams(s)
  <2>1. (Moves(s, "reading", r, r, x, a) \/ Moves(s, "reading", r, v, x, a)) /\ calls' \in Nat
    BY <1>9, <1>f, <1>t DEF Streams, Goes, Sees, Moves, r
  <2>2. Sound("reading", r, r, x, a) /\ Sound("reading", r, v, x, a)
    BY <1>o DEF Sound, Resting
  <2> QED
    BY <2>1, <2>2, <1>t, MovesKeeps DEF Step
<1>10. CASE StreamOver(s)
  <2>1. Moves(s, "polling", r, v, x, a) /\ calls' \in Nat
    BY <1>10, <1>f, <1>t DEF StreamOver, Goes, Moves
  <2> QED
    BY <2>1, <1>t, <1>o, MovesKeeps DEF Sound, Step
<1>11. CASE Polls(s)
  <2>1. Moves(s, "polling", r, r, x, a) /\ calls' \in Nat
    BY <1>11, <1>f, <1>t DEF Polls, Sees, Moves, r
  <2>2. Sound("polling", r, r, x, a)
    BY DEF Sound, Resting
  <2> QED
    BY <2>1, <2>2, <1>t, MovesKeeps DEF Step
<1>12. CASE Ends(s)
  <2>1. Moves(s, "result", r, v, x, v) /\ v \in Resting /\ calls' \in Nat
    BY <1>12, <1>f, <1>t DEF Ends, Concludes, Over, Goes, Moves, v
  <2>2. Sound("result", r, v, x, v)
    BY <2>1, <1>o DEF Sound, Settled, Paused, Resting
  <2> QED
    BY <2>1, <2>2, <1>t, MovesKeeps DEF Step, Action
<1>13. CASE TaskTimesOut(s)
  <2>1. Moves(s, "result", r, v, x, "task_timeout") /\ calls' \in Nat
    BY <1>13, <1>f, <1>t DEF TaskTimesOut, Over, Goes, Moves
  <2>2. Sound("result", r, v, x, "task_timeout")
    BY <1>o DEF Sound, Settled, LeftAtWork
  <2> QED
    BY <2>1, <2>2, <1>t, MovesKeeps DEF Step, Action
<1>14. ASSUME NEW why \in {"target_timeout", "reprocess"}, Stops(s, why) PROVE TaskInv'
  <2>1. Moves(s, "stopping", r, v, why, a) /\ calls' \in Nat
    BY <1>14, <1>f, <1>t DEF Stops, Goes, Moves
  <2>2. Sound("stopping", r, v, why, a)
    BY <1>o DEF Sound
  <2> QED
    BY <2>1, <2>2, <1>t, MovesKeeps DEF Step, Stop
<1>15. ASSUME NEW u \in Usage, RunEnds(s, u) PROVE TaskInv'
  <2>1. \/ Moves(s, "result", r, v, x, v)
        \/ Moves(s, "error", r, v, x, a)
    BY <1>15, <1>f DEF RunEnds, Records, Over, Goes, Moves, v
  <2>2. v \in Resting /\ calls' \in Nat
    BY <1>15, <1>t DEF RunEnds, Records, Concludes, v
  <2>3. Sound("result", r, v, x, v) /\ Sound("error", r, v, x, a)
    BY <2>2, <1>o DEF Sound, Settled, Paused, Resting
  <2> QED
    BY <2>1, <2>2, <2>3, <1>t, MovesKeeps DEF Step, Action
<1>16. ASSUME NEW u \in Usage, StopEnds(s, u) PROVE TaskInv'
  <2>1. \/ Moves(s, "result", r, v, x, x)
        \/ Moves(s, "error", r, v, x, a)
    BY <1>16, <1>f DEF StopEnds, Records, Over, Goes, Moves, x
  <2>2. step[s] = "stopping" /\ calls' \in Nat
    BY <1>16, <1>t DEF StopEnds, Records
  <2>3. x \in {"target_timeout", "reprocess"}
    BY <2>2, <1>o, <1>t DEF Sound, Stop
  <2>4. Sound("result", r, v, x, x) /\ Sound("error", r, v, x, a)
    BY <2>3, <1>o DEF Sound, Settled, LeftAtWork
  <2> QED
    BY <2>1, <2>2, <2>3, <2>4, <1>t, MovesKeeps DEF Step, Action
<1> QED
  BY <1>1, <1>2, <1>3, <1>4, <1>5, <1>6, <1>7, <1>8, <1>9, <1>10, <1>11, <1>12, <1>13, <1>14,
     <1>15, <1>16

\* a2a.py:77-90, mcp.py:206-222 and document_autoflow.py:84-126, 197-214: for
\* every batch, protocol and budget, a result never reports an end the target did
\* not come to, and leaves it at its work only where it says so; that a cancel was
\* accepted ends nothing.
THEOREM ResultsTrue == TaskSpec => []ResultTrue
<1>1. TaskInv /\ UNCHANGED taskVars => TaskInv'
  BY DEF TaskInv, TaskTypeOK, taskVars
<1>2. TaskInv => ResultTrue
  BY DEF TaskInv, Sound, ResultTrue
<1> QED
  BY <1>1, <1>2, TaskInitInv, TaskStep, PTL DEF TaskSpec

\* The runs of Document Autoflow that are started or about to be.
Admitted == {s \in Caller : remote[s] # "none" \/ step[s] = "ready"}

\* Every one of them was counted before it was admitted.
Counted == Cardinality(Admitted) <= calls /\ (MaxRequests # 0 => calls <= MaxRequests)

RequestInv ==
  /\ TaskTypeOK
  /\ protocol = "docflow" => Counted

LEMMA AdmittedFinite == IsFiniteSet(Admitted) /\ Cardinality(Admitted) \in Nat
BY TaskAssumption, FS_Subset, FS_CardinalityType DEF Admitted

LEMMA RequestInit == TaskInit => RequestInv
<1> SUFFICES ASSUME TaskInit PROVE RequestInv
  OBVIOUS
<1>1. TaskTypeOK
  BY TaskInitInv DEF TaskInv
<1>2. Admitted = {}
  BY DEF TaskInit, Admitted
<1>3. calls = 0
  BY DEF TaskInit
<1> QED
  BY <1>1, <1>2, <1>3, FS_EmptySet, TaskAssumption DEF RequestInv, Counted

LEMMA AdmittedStep ==
  ASSUME RequestInv, TaskTypeOK', TaskNext
  PROVE  RequestInv'
<1> SUFFICES ASSUME protocol' = "docflow" PROVE Counted'
  BY DEF RequestInv, Counted
<1>p. protocol = "docflow"
  BY DEF TaskNext, Begins, Raises, Arrives, Works, CallAnswers, TaskCreated, RunCreated,
         MessageOnly, Streams, StreamOver, Polls, Ends, TaskTimesOut, Stops, RunEnds, StopEnds,
         Records
<1>c. /\ calls \in Nat /\ MaxRequests \in Nat
      /\ Cardinality(Admitted) <= calls /\ (MaxRequests # 0 => calls <= MaxRequests)
  BY <1>p, TaskAssumption DEF RequestInv, Counted, TaskTypeOK
<1>f. IsFiniteSet(Admitted) /\ Cardinality(Admitted) \in Nat
  BY AdmittedFinite
<1>t. step \in [Caller -> Step] /\ remote \in [Caller -> Remote]
  BY DEF RequestInv, TaskTypeOK
<1>s. ASSUME Admitted' \subseteq Admitted, calls' = calls
      PROVE  Counted'
  <2>1. Cardinality(Admitted') <= Cardinality(Admitted) /\ Cardinality(Admitted') \in Nat
    BY <1>s, <1>f, FS_Subset, FS_CardinalityType
  <2> QED
    BY <2>1, <1>s, <1>c, <1>f DEF Counted
<1>1. ASSUME NEW s \in Caller, Begins(s)
      PROVE  Counted'
  <2>1. CASE MaxRequests = 0 \/ calls < MaxRequests
    <3>1. calls' = calls + 1 /\ step' = [step EXCEPT ![s] = "ready"] /\ remote' = remote
      BY <1>1, <1>p, <2>1 DEF Begins, Admits, Goes
    <3>2. Admitted' = Admitted \cup {s}
      BY <3>1, <1>t DEF Admitted
    <3>3. Cardinality(Admitted') <= Cardinality(Admitted) + 1 /\ Cardinality(Admitted') \in Nat
      <4>1. CASE s \in Admitted
        <5>1. Admitted' = Admitted
          BY <3>2, <4>1
        <5> QED
          BY <5>1, <1>f
      <4>2. CASE s \notin Admitted
        BY <3>2, <4>2, <1>f, FS_AddElement
      <4> QED
        BY <4>1, <4>2
    <3> QED
      BY <3>1, <3>3, <2>1, <1>c, <1>f DEF Counted
  <2>2. CASE ~ (MaxRequests = 0 \/ calls < MaxRequests)
    <3>1. calls' = calls /\ step' = [step EXCEPT ![s] = "error"] /\ remote' = remote
      BY <1>1, <1>p, <2>2 DEF Begins, Admits, Goes
    <3>2. Admitted' \subseteq Admitted
      BY <3>1, <1>t DEF Admitted
    <3> QED
      BY <3>1, <3>2, <1>s
  <2> QED
    BY <2>1, <2>2
<1>2. ASSUME NEW s \in Caller,
             step' = step \/ \E l \in Step \ {"ready"} : step' = [step EXCEPT ![s] = l],
             \/ remote' = remote
             \/ \E r \in Remote : remote[s] # "none" /\ remote' = [remote EXCEPT ![s] = r],
             calls' = calls
      PROVE  Counted'
  <2>1. Admitted' \subseteq Admitted
    BY <1>2, <1>t DEF Admitted, Step
  <2> QED
    BY <1>2, <2>1, <1>s
<1>3. ASSUME NEW s \in Caller, Arrives(s)
      PROVE  Counted'
  <2>1. /\ step[s] = "ready" /\ step' = [step EXCEPT ![s] = "asked"]
        /\ remote' = [remote EXCEPT ![s] = "working"] /\ calls' = calls
    BY <1>3 DEF Arrives, Goes
  <2>2. Admitted' \subseteq Admitted
    BY <2>1, <1>t DEF Admitted
  <2> QED
    BY <2>1, <2>2, <1>s
<1>4. ASSUME NEW s \in Caller, \E status \in Resting : Works(s, status)
      PROVE  Counted'
  <2>1. /\ step' = step /\ calls' = calls
        /\ \E r \in Remote : remote[s] # "none" /\ remote' = [remote EXCEPT ![s] = r]
    BY <1>4 DEF Works, Remote
  <2> QED
    BY <2>1, <1>2 DEF Step
<1>5. ASSUME NEW s \in Caller,
             \/ Raises(s) \/ CallAnswers(s) \/ TaskCreated(s) \/ RunCreated(s)
             \/ MessageOnly(s) \/ Streams(s) \/ StreamOver(s)
             \/ Polls(s) \/ Ends(s) \/ TaskTimesOut(s)
             \/ \E why \in {"target_timeout", "reprocess"} : Stops(s, why)
             \/ \E u \in Usage : RunEnds(s, u) \/ StopEnds(s, u)
      PROVE  Counted'
  <2>1. remote' = remote /\ calls' = calls
    BY <1>5
       DEF Raises, CallAnswers, TaskCreated, RunCreated, MessageOnly, Streams, StreamOver, Polls,
           Ends, TaskTimesOut, Stops, RunEnds, StopEnds, Records
  <2>2. \/ step' = step
        \/ \E l \in {"reading", "polling", "stopping", "result", "error"} :
             step' = [step EXCEPT ![s] = l]
    <3>1. CASE Raises(s) \/ CallAnswers(s) \/ TaskCreated(s) \/ RunCreated(s)
      BY <3>1 DEF Raises, CallAnswers, TaskCreated, RunCreated, Over, Goes
    <3>2. CASE MessageOnly(s) \/ Streams(s) \/ StreamOver(s)
      BY <3>2 DEF MessageOnly, Streams, StreamOver, Over, Goes
    <3>3. CASE Polls(s) \/ Ends(s) \/ TaskTimesOut(s)
      BY <3>3 DEF Polls, Ends, TaskTimesOut, Over, Goes
    <3>4. CASE \E why \in {"target_timeout", "reprocess"} : Stops(s, why)
      BY <3>4 DEF Stops, Goes
    <3>5. CASE \E u \in Usage : RunEnds(s, u) \/ StopEnds(s, u)
      BY <3>5 DEF RunEnds, StopEnds, Records, Over, Goes
    <3> QED
      BY <1>5, <3>1, <3>2, <3>3, <3>4, <3>5
  <2> QED
    BY <2>1, <2>2, <1>2 DEF Step
<1> QED
  BY <1>1, <1>3, <1>4, <1>5 DEF TaskNext

LEMMA RequestsWithin ==
  ASSUME RequestInv, protocol = "docflow", MaxRequests # 0
  PROVE  Cardinality({s \in Caller : remote[s] # "none"}) <= MaxRequests
<1> DEFINE Started == {s \in Caller : remote[s] # "none"}
<1>1. Started \subseteq Admitted
  BY DEF Admitted
<1>2. Cardinality(Started) <= Cardinality(Admitted) /\ Cardinality(Started) \in Nat
  BY <1>1, AdmittedFinite, FS_Subset, FS_CardinalityType
<1>3. Cardinality(Admitted) <= calls /\ calls <= MaxRequests /\ calls \in Nat
  BY DEF RequestInv, Counted, TaskTypeOK
<1> QED
  BY <1>2, <1>3, AdmittedFinite, TaskAssumption

\* What the results report was counted when it was recorded, and was within the
\* limit, where there is one, together with all that was counted before.
TokenInv ==
  /\ usage \in [Caller -> Nat] /\ tokens \in Nat
  /\ SumFunction(usage) <= tokens
  /\ MaxTokens # 0 => SumFunction(usage) <= MaxTokens

LEMMA TokenInit == TaskInit => TokenInv
<1> SUFFICES ASSUME TaskInit PROVE TokenInv
  OBVIOUS
<1>1. usage \in [Caller -> Nat] /\ (\A s \in Caller : usage[s] = 0) /\ tokens = 0
  BY DEF TaskInit
<1>2. SumFunction(usage) = 0
  BY <1>1, TaskAssumption, SumOfZeros
<1> QED
  BY <1>1, <1>2, TaskAssumption DEF TokenInv

LEMMA TokenStep == TokenInv /\ [TaskNext]_taskVars => TokenInv'
<1> SUFFICES ASSUME TokenInv, [TaskNext]_taskVars PROVE TokenInv'
  OBVIOUS
<1>1. /\ usage \in [Caller -> Nat] /\ tokens \in Nat /\ MaxTokens \in Nat
      /\ SumFunction(usage) \in Nat
      /\ SumFunction(usage) <= tokens /\ (MaxTokens # 0 => SumFunction(usage) <= MaxTokens)
  BY TaskAssumption, SumOfNaturals DEF TokenInv
<1>2. ASSUME UNCHANGED <<usage, tokens>> PROVE TokenInv'
  BY <1>1, <1>2 DEF TokenInv
<1>3. ASSUME NEW s \in Caller, NEW u \in Usage, NEW what, Records(s, what, u)
      PROVE  TokenInv'
  <2>1. tokens' = tokens + u /\ u \in Nat /\ usage[s] \in Nat
    BY <1>1, <1>3, TaskAssumption DEF Records
  <2>2. CASE MaxTokens = 0 \/ tokens + u <= MaxTokens
    <3>1. usage' = [usage EXCEPT ![s] = u]
      BY <1>3, <2>2 DEF Records, Within
    <3>2. usage' \in [Caller -> Nat]
      BY <1>1, <2>1, <3>1
    <3>3. SumFunction(usage') + usage[s] = SumFunction(usage) + u
      <4>1. Differs(usage', usage, Caller, s, u)
        BY <1>1, <2>1, <3>1, TaskAssumption DEF Differs
      <4> QED
        BY <4>1, SumChange
    <3>4. SumFunction(usage') \in Nat
      BY <3>2, TaskAssumption, SumOfNaturals
    <3>5. SumFunction(usage') <= tokens + u
      BY <1>1, <2>1, <3>3, <3>4
    <3> QED
      BY <1>1, <2>1, <2>2, <3>2, <3>4, <3>5 DEF TokenInv
  <2>3. CASE ~ (MaxTokens = 0 \/ tokens + u <= MaxTokens)
    <3>1. usage' = usage
      BY <1>3, <2>3 DEF Records, Within
    <3> QED
      BY <1>1, <2>1, <3>1 DEF TokenInv
  <2> QED
    BY <2>2, <2>3
<1>4. CASE TaskNext
  <2>1. PICK s \in Caller :
          \/ UNCHANGED <<usage, tokens>>
          \/ \E u \in Usage : RunEnds(s, u) \/ StopEnds(s, u)
    BY <1>4 DEF TaskNext, Begins, Raises, Arrives, Works, CallAnswers, TaskCreated, RunCreated,
                MessageOnly, Streams, StreamOver, Polls, Ends, TaskTimesOut, Stops
  <2>2. ASSUME NEW u \in Usage, RunEnds(s, u) PROVE TokenInv'
    BY <1>3, <2>2 DEF RunEnds
  <2>3. ASSUME NEW u \in Usage, StopEnds(s, u) PROVE TokenInv'
    BY <1>3, <2>3 DEF StopEnds
  <2> QED
    BY <1>2, <2>1, <2>2, <2>3
<1> QED
  BY <1>2, <1>4 DEF taskVars

\* document_autoflow.py:48-49 and 216-239: however many samples run at the same
\* time, no more runs are started than max_requests, and the results they return
\* never report more tokens together than the limit, where either is set.
THEOREM BudgetsKept == TaskSpec => []BudgetKept
<1>1. TaskInit => TaskInv /\ RequestInv /\ TokenInv
  BY TaskInitInv, RequestInit, TokenInit
<1>2. TaskInv /\ RequestInv /\ TokenInv /\ [TaskNext]_taskVars => TaskInv' /\ RequestInv' /\ TokenInv'
  <2>1. CASE TaskNext
    BY <2>1, TaskStep, AdmittedStep, TokenStep DEF TaskInv
  <2>2. CASE UNCHANGED taskVars
    BY <2>2, TokenStep DEF taskVars, TaskInv, TaskTypeOK, RequestInv, Counted, Admitted
  <2> QED
    BY <2>1, <2>2
<1>3. RequestInv /\ TokenInv => BudgetKept
  BY RequestsWithin DEF TokenInv, BudgetKept
<1> QED
  BY <1>1, <1>2, <1>3, PTL DEF TaskSpec

-----------------------------------------------------------------------------
(* AG-UI *)

CancelTypeOK ==
  /\ key \in [Sample -> RunId]
  /\ at \in [Sample -> {"idle", "open", "result", "error"}]
  /\ active \in [RunId -> Sample \cup {NoSample}]
  /\ cancel \in {"idle", "closing", "done", "raised"}
  /\ due \subseteq Sample

\* The response of an open stream is registered under its run id, and a
\* cancellation has closed or still has to close those that were, unless
\* another sample used the id.
CancelInv ==
  /\ CancelTypeOK
  /\ \A s \in Sample : at[s] = "open" => active[key[s]] = s \/ Shared(s)
  /\ \A s \in due : at[s] # "idle"
  /\ cancel \in {"closing", "done"} =>
       \A s \in due : at[s] # "open" \/ s \in closed \/ Shared(s) \/ s \in toClose
  /\ cancel = "done" => toClose = {}

LEMMA CancelInit == AgUiInit => CancelInv
BY DEF AgUiInit, CancelInv, CancelTypeOK

\* Once shared, always shared: no sample becomes idle again.
LEMMA SharedStays ==
  ASSUME key' = key, \A u \in Sample : at[u] # "idle" => at'[u] # "idle",
         NEW s \in Sample, Shared(s)
  PROVE  Shared(s)'
BY DEF Shared

LEMMA OpensStep == ASSUME CancelInv, NEW s \in Sample, Opens(s) PROVE CancelInv'
<1>t. CancelTypeOK
  BY DEF CancelInv
<1>1. /\ at' = [at EXCEPT ![s] = "open"] /\ at[s] = "idle"
      /\ active' = [active EXCEPT ![key[s]] = s]
      /\ UNCHANGED <<key, closed, cancel, toClose, due>>
  BY DEF Opens, cancelVars
<1>2. \A u \in Sample : Shared(u) => Shared(u)'
  BY <1>1, <1>t, SharedStays DEF CancelTypeOK
<1>3. \A u \in Sample \ {s} : key[u] = key[s] => Shared(u)'
  BY <1>1, <1>t DEF Shared, CancelTypeOK
<1>4. CancelTypeOK'
  BY <1>1, <1>t DEF CancelTypeOK
<1>5. ASSUME NEW u \in Sample, at'[u] = "open" PROVE active'[key'[u]] = u \/ Shared(u)'
  BY <1>1, <1>2, <1>3, <1>5, <1>t DEF CancelInv, CancelTypeOK
<1>6. \A u \in due' : at'[u] # "idle"
  BY <1>1, <1>t DEF CancelInv, CancelTypeOK
<1>7. ASSUME cancel' \in {"closing", "done"}, NEW u \in due'
      PROVE  at'[u] # "open" \/ u \in closed' \/ Shared(u)' \/ u \in toClose'
  BY <1>1, <1>2, <1>7, <1>t DEF CancelInv, CancelTypeOK
<1> QED
  BY <1>1, <1>4, <1>5, <1>6, <1>7 DEF CancelInv

\* The stream of sample s is over and its run id is unregistered.
LEMMA LeavesStep ==
  ASSUME CancelInv, NEW s \in Sample, at[s] = "open", NEW o \in {"result", "error"}, Leaves(s, o)
  PROVE  CancelInv'
<1>t. CancelTypeOK
  BY DEF CancelInv
<1>1. /\ at' = [at EXCEPT ![s] = o]
      /\ active' = [active EXCEPT ![key[s]] = NoSample]
      /\ UNCHANGED <<key, closed, cancel, toClose, due>>
  BY DEF Leaves, Unregister, cancelVars
<1>2. \A u \in Sample : Shared(u) => Shared(u)'
  BY <1>1, <1>t, SharedStays DEF CancelTypeOK
<1>3. \A u \in Sample \ {s} : key[u] = key[s] => Shared(u)'
  BY <1>1, <1>t DEF Shared, CancelTypeOK
<1>4. CancelTypeOK'
  BY <1>1, <1>t DEF CancelTypeOK
<1>5. ASSUME NEW u \in Sample, at'[u] = "open" PROVE active'[key'[u]] = u \/ Shared(u)'
  BY <1>1, <1>2, <1>3, <1>5, <1>t DEF CancelInv, CancelTypeOK
<1>6. \A u \in due' : at'[u] # "idle"
  BY <1>1, <1>t DEF CancelInv, CancelTypeOK
<1>7. ASSUME cancel' \in {"closing", "done"}, NEW u \in due'
      PROVE  at'[u] # "open" \/ u \in closed' \/ Shared(u)' \/ u \in toClose'
  BY <1>1, <1>2, <1>7, <1>t DEF CancelInv, CancelTypeOK
<1> QED
  BY <1>1, <1>4, <1>5, <1>6, <1>7 DEF CancelInv

LEMMA CancelStep == CancelInv /\ [AgUiNext]_agUiVars => CancelInv'
<1> SUFFICES ASSUME CancelInv, [AgUiNext]_agUiVars PROVE CancelInv'
  OBVIOUS
<1> USE DEF cancelVars
<1>t. CancelTypeOK
  BY DEF CancelInv
<1>1. ASSUME NEW s \in Sample, Opens(s) PROVE CancelInv'
  BY <1>1, OpensStep
<1>2. ASSUME NEW s \in Sample, Refused(s) PROVE CancelInv'
  <2>1. at' = [at EXCEPT ![s] = "error"] /\ UNCHANGED <<key, active, closed, cancel, toClose, due>>
    BY <1>2 DEF Refused
  <2>2. \A u \in Sample : Shared(u) => Shared(u)'
    BY <2>1, <1>t, SharedStays DEF CancelTypeOK
  <2>3. CancelTypeOK'
    BY <2>1, <1>t DEF CancelTypeOK
  <2> QED
    BY <2>1, <2>2, <2>3, <1>t DEF CancelInv, CancelTypeOK
<1>3. ASSUME NEW s \in Sample, StreamEnds(s) PROVE CancelInv'
  BY <1>3, LeavesStep DEF StreamEnds
<1>4. ASSUME NEW s \in Sample, NEW e \in Event, Receives(s, e[1], e[2]) PROVE CancelInv'
  BY <1>4 DEF Receives, CancelInv, CancelTypeOK, Shared
<1>5. ASSUME NEW s \in Sample, NEW e \in Event, Rejects(s, e[1], e[2]) PROVE CancelInv'
  BY <1>5, LeavesStep DEF Rejects
<1>6. CASE CancelActive
  <2>1. /\ UNCHANGED <<key, at, active, closed>> /\ cancel' = "closing"
        /\ toClose' = {active[r] : r \in RunId} \ {NoSample}
        /\ due' = {s \in Sample : at[s] = "open"}
    BY <1>6 DEF CancelActive
  <2>2. \A u \in Sample : Shared(u)' = Shared(u)
    BY <2>1 DEF Shared
  <2>3. ASSUME NEW u \in due' PROVE Shared(u)' \/ u \in toClose'
    BY <2>1, <2>2, <2>3, <1>t, AgUiAssumption DEF CancelInv, CancelTypeOK
  <2> QED
    BY <2>1, <2>2, <2>3, <1>t DEF CancelInv, CancelTypeOK
<1>7. ASSUME NEW s \in Sample, Closes(s) PROVE CancelInv'
  BY <1>7 DEF Closes, CancelInv, CancelTypeOK, Shared
<1>8. CASE CloseRaises \/ CancelReturns \/ UNCHANGED agUiVars
  BY <1>8 DEF CloseRaises, CancelReturns, agUiVars, CancelInv, CancelTypeOK, Shared
<1> QED
  BY <1>1, <1>2, <1>3, <1>4, <1>5, <1>6, <1>7, <1>8 DEF AgUiNext

\* A cancellation that returns has closed every stream that was open when it
\* began, for any number of samples and run ids that no two samples share.
THEOREM CancellationReaches == AgUiSpec => []CancelReaches
<1>1. CancelInv => CancelReaches
  BY DEF CancelInv, CancelReaches
<1> QED
  BY <1>1, CancelInit, CancelStep, PTL DEF AgUiSpec
-----------------------------------------------------------------------------
(* The protocol of AG-UI: what the local variables of an invocation say of the
   events it has accepted *)

Parse ==
  [started : BOOLEAN, run : RunId, texts : SUBSET Message,
   tools : [Tool -> {"none", "open", "partial", "ended"}],
   mood : {"none", "reasoning", "thinking"}, finished : BOOLEAN]

ThoughtNew == {"reasoning.start", "thinking.start"}
Thinking(p) == IF p.mood = "none" THEN {} ELSE {"none"}

\* Whether id is open at the end of h.
StillOpen(h, id, news, lasts) ==
  \E j \in 1 .. Len(h) :
    /\ h[j][2] = id /\ h[j][1] \in news
    /\ \A k \in j + 1 .. Len(h) : h[k][2] = id => h[k][1] \notin lasts

\* Every use is of what was open, and what is held open is open.
Used(h, open, news, uses, lasts) ==
  /\ \A i \in 1 .. Len(h) : h[i][1] \in uses \cup lasts => IsOpen(h, i, news, lasts)
  /\ \A id \in open : StillOpen(h, id, news, lasts)

\* What was opened is held open until it is closed.
Opened(h, open, news, lasts) ==
  \A i \in 1 .. Len(h) : h[i][1] \in news =>
    h[i][2] \in open \/ \E j \in Same(h, i, i + 1 .. Len(h)) : h[j][1] \in lasts

\* The first event and the last, and what is none in between.
Framed(h, p) ==
  /\ p.started <=> Len(h) > 0
  /\ Len(h) > 0 => h[1] = <<"run.started", p.run>>
  /\ \A i \in 2 .. Len(h) : h[i][1] \notin {"run.started", "run.error", "invalid"}
  /\ \A i \in 1 .. Len(h) : h[i][1] = "run.finished" => i = Len(h) /\ p.finished
  /\ p.finished => /\ Len(h) > 0 /\ h[Len(h)] = <<"run.finished", p.run>>
                   /\ p.texts = {} /\ Open(p) = {} /\ p.mood = "none"

\* A tool call may be named after it has ended: it is not held open then.
ToolsSeen(h, p) ==
  /\ \A i \in 1 .. Len(h) :
       /\ h[i][1] \in ToolNew => p.tools[h[i][2]] # "none"
       /\ h[i][1] = "tool.result" => \E j \in 1 .. i - 1 : h[j] = <<"tool.end", h[i][2]>>
  /\ \A t \in Tool : p.tools[t] = "ended" => \E j \in 1 .. Len(h) : h[j] = <<"tool.end", t>>

ParseInv(h, p) ==
  /\ p \in Parse /\ h \in Seq(Event)
  /\ Framed(h, p)
  /\ Used(h, p.texts, TextNew, TextMore, TextLast) /\ Opened(h, p.texts, TextNew, TextLast)
  /\ Used(h, Thinking(p), ThoughtNew, Thought, {"reasoning.end"})
  /\ Opened(h, Thinking(p), ThoughtNew, {"reasoning.end"})
  /\ Used(h, Open(p), ToolNew, ToolMore, {"tool.end"}) /\ ToolsSeen(h, p)

ProtocolInv ==
  /\ at \in [Sample -> {"idle", "open", "result", "error"}]
  /\ parse \in [Sample -> Parse]
  /\ wire \in [Sample -> Seq(Event)]
  /\ \A s \in Sample : /\ ParseInv(wire[s], parse[s])
                       /\ at[s] = "result" => parse[s].finished

\* An event more.
More(h, g, e) ==
  /\ Len(h) \in Nat /\ Len(g) = Len(h) + 1
  /\ \A i \in 1 .. Len(h) : g[i] = h[i]
  /\ g[Len(h) + 1] = e

LEMMA IsOpenMore ==
  ASSUME NEW h, NEW g, NEW e, More(h, g, e), NEW news, NEW lasts
  PROVE  /\ \A i \in 1 .. Len(h) : IsOpen(h, i, news, lasts) => IsOpen(g, i, news, lasts)
         /\ StillOpen(h, e[2], news, lasts) => IsOpen(g, Len(h) + 1, news, lasts)
<1>1. ASSUME NEW i \in 1 .. Len(h), IsOpen(h, i, news, lasts)
      PROVE  IsOpen(g, i, news, lasts)
  BY <1>1 DEF More, IsOpen, Same
<1>2. ASSUME StillOpen(h, e[2], news, lasts)
      PROVE  IsOpen(g, Len(h) + 1, news, lasts)
  BY <1>2 DEF More, StillOpen, IsOpen, Same
<1> QED
  BY <1>1, <1>2

LEMMA StillOpenMore ==
  ASSUME NEW h, NEW g, NEW e, More(h, g, e), NEW news, NEW lasts, NEW id
  PROVE  /\ e[2] = id /\ e[1] \in news => StillOpen(g, id, news, lasts)
         /\ StillOpen(h, id, news, lasts) /\ ~ (e[2] = id /\ e[1] \in lasts) =>
              StillOpen(g, id, news, lasts)
BY DEF More, StillOpen

LEMMA UsedMore ==
  ASSUME NEW h, NEW g, NEW e, More(h, g, e), NEW news, NEW uses, NEW lasts,
         NEW open, NEW held, Used(h, open, news, uses, lasts),
         e[1] \in uses \cup lasts => e[2] \in open,
         \A id \in held : \/ e[2] = id /\ e[1] \in news
                          \/ id \in open /\ ~ (e[2] = id /\ e[1] \in lasts)
  PROVE  Used(g, held, news, uses, lasts)
<1>1. ASSUME NEW i \in 1 .. Len(g), g[i][1] \in uses \cup lasts
      PROVE  IsOpen(g, i, news, lasts)
  <2>1. CASE i \in 1 .. Len(h)
    BY <1>1, <2>1, IsOpenMore DEF More, Used
  <2>2. CASE i = Len(h) + 1
    BY <1>1, <2>2, IsOpenMore DEF More, Used
  <2> QED
    BY <2>1, <2>2 DEF More
<1>2. ASSUME NEW id \in held
      PROVE  StillOpen(g, id, news, lasts)
  BY <1>2, StillOpenMore DEF Used
<1> QED
  BY <1>1, <1>2 DEF Used

LEMMA OpenedMore ==
  ASSUME NEW h, NEW g, NEW e, More(h, g, e), NEW news, NEW lasts,
         NEW open, NEW held, Opened(h, open, news, lasts),
         e[1] \in news => e[2] \in held,
         \A id \in open : id \in held \/ (e[2] = id /\ e[1] \in lasts)
  PROVE  Opened(g, held, news, lasts)
<1>1. ASSUME NEW i \in 1 .. Len(g), g[i][1] \in news, g[i][2] \notin held
      PROVE  \E j \in Same(g, i, i + 1 .. Len(g)) : g[j][1] \in lasts
  <2>1. i \in 1 .. Len(h) /\ g[i] = h[i]
    BY <1>1 DEF More
  <2>2. CASE h[i][2] \in open
    <3>1. g[Len(h) + 1][2] = g[i][2] /\ g[Len(h) + 1][1] \in lasts
      BY <1>1, <2>1, <2>2 DEF More
    <3> QED
      BY <2>1, <3>1 DEF More, Same
  <2>3. CASE \E j \in Same(h, i, i + 1 .. Len(h)) : h[j][1] \in lasts
    BY <2>1, <2>3 DEF More, Same
  <2> QED
    BY <1>1, <2>1, <2>2, <2>3 DEF Opened
<1> QED
  BY <1>1 DEF Opened

LEMMA EventIds ==
  ASSUME NEW e \in Event
  PROVE  /\ e = <<e[1], e[2]>>
         /\ e[1] \in {"run.started", "run.finished"} => e[2] \in RunId
         /\ e[1] \in TextNew \cup TextMore \cup TextLast => e[2] \in Message
         /\ e[1] \in ToolNew \cup ToolMore \cup {"tool.end", "tool.result"} => e[2] \in Tool
         /\ e[1] \in ThoughtNew \cup Thought \cup {"reasoning.end"} => e[2] = "none"
BY DEF Event, TextNew, TextMore, TextLast, ToolNew, ToolMore, ThoughtNew, Thought

\* What an event does to the tools.
ToolAfter(p, type, id) ==
  IF type \in {"tool.start", "tool.chunk", "tool.args"} THEN "open"
  ELSE IF type = "tool.name" THEN IF p.tools[id] = "none" THEN "open" ELSE p.tools[id]
  ELSE IF type = "tool.part" THEN "partial"
  ELSE IF type = "tool.end" THEN "ended"
  ELSE p.tools[id]

ToolTypes == {"tool.start", "tool.chunk", "tool.args", "tool.name", "tool.part", "tool.end"}

\* What an event leaves of p.
Moved(p, q, type, id) ==
  /\ q.started <=> p.started \/ type = "run.started"
  /\ q.run = IF type = "run.started" THEN id ELSE p.run
  /\ q.finished <=> p.finished \/ type = "run.finished"
  /\ q.texts = IF type \in TextNew THEN p.texts \cup {id}
               ELSE IF type \in TextLast THEN p.texts \ {id} ELSE p.texts
  /\ q.mood = IF type = "reasoning.start" THEN "reasoning"
              ELSE IF type = "thinking.start" THEN "thinking"
              ELSE IF type = "reasoning.end" THEN "none" ELSE p.mood
  /\ \A t \in Tool : q.tools[t] = IF type \in ToolTypes /\ t = id
                                    THEN ToolAfter(p, type, id) ELSE p.tools[t]

LEMMA ConsumedFacts ==
  ASSUME NEW p \in Parse, NEW type, NEW id,
         type = "run.started" => id \in RunId,
         type \in TextNew => id \in Message,
         type \in ToolTypes => id \in Tool
  PROVE  Consumed(p, type, id) \in Parse /\ Moved(p, Consumed(p, type, id), type, id)
<1> DEFINE q == Consumed(p, type, id)
<1>1. CASE type = "run.started"
  <2>1. q = [p EXCEPT !.started = TRUE, !.run = id]
    BY <1>1 DEF Consumed, TextNew, TextLast
  <2> HIDE DEF q
  <2> QED
    BY <1>1, <2>1 DEF Parse, Moved, TextNew, TextLast, ToolTypes, q
<1>2. CASE type = "run.finished"
  <2>1. q = [p EXCEPT !.finished = TRUE]
    BY <1>2 DEF Consumed, TextNew, TextLast
  <2> HIDE DEF q
  <2> QED
    BY <1>2, <2>1 DEF Parse, Moved, TextNew, TextLast, ToolTypes, q
<1>3. CASE type \in TextNew
  <2>1. q = [p EXCEPT !.texts = p.texts \cup {id}]
    BY <1>3 DEF Consumed, TextNew, TextLast
  <2> HIDE DEF q
  <2> QED
    BY <1>3, <2>1 DEF Parse, Moved, TextNew, TextLast, ToolTypes, q
<1>4. CASE type \in TextLast
  <2>1. q = [p EXCEPT !.texts = p.texts \ {id}]
    BY <1>4 DEF Consumed, TextNew, TextLast
  <2> HIDE DEF q
  <2> QED
    BY <1>4, <2>1 DEF Parse, Moved, TextNew, TextLast, ToolTypes, q
<1>5. CASE type \in ToolTypes
  <2>1. q = [p EXCEPT !.tools = [p.tools EXCEPT ![id] = ToolAfter(p, type, id)]]
    <3>1. \A v : [p EXCEPT !.tools[id] = v] = [p EXCEPT !.tools = [p.tools EXCEPT ![id] = v]]
      OBVIOUS
    <3>2. CASE type \in {"tool.start", "tool.chunk", "tool.args"}
      BY <3>1, <3>2 DEF Consumed, TextNew, TextLast, ToolAfter
    <3>3. CASE type = "tool.name"
      BY <3>1, <3>3 DEF Consumed, TextNew, TextLast, ToolAfter
    <3>4. CASE type = "tool.part"
      BY <3>1, <3>4 DEF Consumed, TextNew, TextLast, ToolAfter
    <3>5. CASE type = "tool.end"
      BY <3>1, <3>5 DEF Consumed, TextNew, TextLast, ToolAfter
    <3> QED
      BY <1>5, <3>2, <3>3, <3>4, <3>5 DEF ToolTypes
  <2>2. ToolAfter(p, type, id) \in {"none", "open", "partial", "ended"}
    BY <1>5 DEF ToolAfter, Parse
  <2>3. /\ type # "run.started" /\ type # "run.finished" /\ type \notin TextNew \cup TextLast
        /\ type \notin {"reasoning.start", "thinking.start", "reasoning.end"}
    BY <1>5 DEF TextNew, TextLast, ToolTypes
  <2> HIDE DEF q, ToolAfter, ToolTypes
  <2> QED
    BY <1>5, <2>1, <2>2, <2>3 DEF Parse, Moved, q
<1>6. CASE type \in {"reasoning.start", "thinking.start", "reasoning.end"}
  <2> DEFINE m == IF type = "reasoning.start" THEN "reasoning"
                  ELSE IF type = "thinking.start" THEN "thinking" ELSE "none"
  <2>1. q = [p EXCEPT !.mood = m]
    BY <1>6 DEF Consumed, TextNew, TextLast
  <2> HIDE DEF q
  <2> QED
    BY <1>6, <2>1 DEF Parse, Moved, TextNew, TextLast, ToolTypes, q
<1>7. CASE /\ type \notin {"run.started", "run.finished"} \cup TextNew \cup TextLast \cup ToolTypes
           /\ type \notin {"reasoning.start", "thinking.start", "reasoning.end"}
  <2>1. q = p
    BY <1>7 DEF Consumed, ToolTypes
  <2> HIDE DEF q
  <2> QED
    BY <1>7, <2>1 DEF Parse, Moved, q
<1> QED
  BY <1>1, <1>2, <1>3, <1>4, <1>5, <1>6, <1>7

\* What an accepted event found.
LEMMA AcceptsFacts ==
  ASSUME NEW p, NEW type, NEW id, Accepts(p, type, id)
  PROVE  /\ ~ p.finished /\ (p.started \/ type = "run.started")
         /\ type = "run.started" => ~ p.started
         /\ type = "run.finished" => Finishable(p, id)
         /\ type \in TextMore \cup TextLast => id \in p.texts
         /\ type \in ToolMore => id \in Open(p)
         /\ type = "tool.end" => p.tools[id] = "open"
         /\ type = "tool.result" => id \in Ended(p)
         /\ type \in Thought \cup {"reasoning.end"} => p.mood # "none"
         /\ type \notin {"run.error", "invalid"}
<1> USE DEF Accepts, TextMore, TextLast, ToolMore
<1>1. ~ p.finished /\ (p.started \/ type = "run.started")
  OBVIOUS
<1>2. CASE type = "run.started"
  BY <1>1, <1>2 DEF Thought
<1>3. CASE type = "run.finished"
  BY <1>1, <1>3 DEF Thought
<1>4. CASE type \in TextMore \cup TextLast
  BY <1>1, <1>4 DEF Thought
<1>5. CASE type \in ToolMore
  BY <1>1, <1>5 DEF Thought
<1>6. CASE type = "tool.end"
  BY <1>1, <1>6 DEF Thought
<1>7. CASE type = "tool.result"
  BY <1>1, <1>7 DEF Thought
<1>8. CASE type \in Thought \cup {"reasoning.end"}
  BY <1>1, <1>8 DEF Thought
<1>9. type \notin {"run.error", "invalid"}
  OBVIOUS
<1> QED
  BY <1>1, <1>2, <1>3, <1>4, <1>5, <1>6, <1>7, <1>8, <1>9

LEMMA WireMore ==
  ASSUME NEW h \in Seq(Event), NEW e \in Event
  PROVE  Append(h, e) \in Seq(Event) /\ More(h, Append(h, e), e)
BY DEF More

\* What the steps of the proof below know of an accepted event.
AcceptedStep(h, g, e, p, q) ==
  /\ ParseInv(h, p) /\ e \in Event /\ Accepts(p, e[1], e[2])
  /\ More(h, g, e) /\ g \in Seq(Event)
  /\ q = Consumed(p, e[1], e[2])

LEMMA AcceptedFacts ==
  ASSUME NEW h, NEW g, NEW e, NEW p, NEW q, AcceptedStep(h, g, e, p, q)
  PROVE  q \in Parse /\ Moved(p, q, e[1], e[2])
<1>1. p \in Parse /\ e \in Event /\ q = Consumed(p, e[1], e[2])
  BY DEF AcceptedStep, ParseInv
<1>2. ToolTypes \subseteq ToolNew \cup ToolMore \cup {"tool.end", "tool.result"}
  BY DEF ToolTypes, ToolNew, ToolMore
<1>3. /\ e[1] = "run.started" => e[2] \in RunId
      /\ e[1] \in TextNew => e[2] \in Message
      /\ e[1] \in ToolTypes => e[2] \in Tool
  BY <1>1, <1>2, EventIds
<1> QED
  BY <1>1, <1>3, ConsumedFacts

LEMMA TextsStep ==
  ASSUME NEW h, NEW g, NEW e, NEW p, NEW q, AcceptedStep(h, g, e, p, q)
  PROVE  /\ Used(g, q.texts, TextNew, TextMore, TextLast)
         /\ Opened(g, q.texts, TextNew, TextLast)
<1>a. q \in Parse /\ Moved(p, q, e[1], e[2])
  BY AcceptedFacts
<1>1. /\ Used(h, p.texts, TextNew, TextMore, TextLast) /\ Opened(h, p.texts, TextNew, TextLast)
      /\ More(h, g, e)
  BY DEF AcceptedStep, ParseInv
<1>2. e[1] \in TextMore \cup TextLast => e[2] \in p.texts
  BY AcceptsFacts DEF AcceptedStep
<1>3. q.texts = IF e[1] \in TextNew THEN p.texts \cup {e[2]}
                ELSE IF e[1] \in TextLast THEN p.texts \ {e[2]} ELSE p.texts
  BY <1>a DEF Moved
<1>4. TextNew \cap TextLast = {}
  BY DEF TextNew, TextLast
<1>5. /\ \A id \in q.texts : \/ e[2] = id /\ e[1] \in TextNew
                             \/ id \in p.texts /\ ~ (e[2] = id /\ e[1] \in TextLast)
      /\ \A id \in p.texts : id \in q.texts \/ (e[2] = id /\ e[1] \in TextLast)
      /\ e[1] \in TextNew => e[2] \in q.texts
  BY <1>3, <1>4
<1> QED
  BY <1>1, <1>2, <1>5, UsedMore, OpenedMore

LEMMA ThoughtsStep ==
  ASSUME NEW h, NEW g, NEW e, NEW p, NEW q, AcceptedStep(h, g, e, p, q)
  PROVE  /\ Used(g, Thinking(q), ThoughtNew, Thought, {"reasoning.end"})
         /\ Opened(g, Thinking(q), ThoughtNew, {"reasoning.end"})
<1>a. q \in Parse /\ Moved(p, q, e[1], e[2])
  BY AcceptedFacts
<1>1. /\ Used(h, Thinking(p), ThoughtNew, Thought, {"reasoning.end"})
      /\ Opened(h, Thinking(p), ThoughtNew, {"reasoning.end"})
      /\ More(h, g, e) /\ e \in Event
  BY DEF AcceptedStep, ParseInv
<1>2. e[1] \in ThoughtNew \cup Thought \cup {"reasoning.end"} => e[2] = "none"
  BY <1>1, EventIds
<1>3. e[1] \in Thought \cup {"reasoning.end"} => p.mood # "none"
  BY AcceptsFacts DEF AcceptedStep
<1>4. q.mood = IF e[1] = "reasoning.start" THEN "reasoning"
               ELSE IF e[1] = "thinking.start" THEN "thinking"
               ELSE IF e[1] = "reasoning.end" THEN "none" ELSE p.mood
  BY <1>a DEF Moved
<1>5. /\ e[1] \in Thought \cup {"reasoning.end"} => e[2] \in Thinking(p)
      /\ \A id \in Thinking(q) :
           \/ e[2] = id /\ e[1] \in ThoughtNew
           \/ id \in Thinking(p) /\ ~ (e[2] = id /\ e[1] \in {"reasoning.end"})
      /\ \A id \in Thinking(p) : id \in Thinking(q) \/ (e[2] = id /\ e[1] \in {"reasoning.end"})
      /\ e[1] \in ThoughtNew => e[2] \in Thinking(q)
  BY <1>2, <1>3, <1>4 DEF Thinking, ThoughtNew
<1> QED
  BY <1>1, <1>5, UsedMore, OpenedMore

LEMMA ToolsStep ==
  ASSUME NEW h, NEW g, NEW e, NEW p, NEW q, AcceptedStep(h, g, e, p, q)
  PROVE  Used(g, Open(q), ToolNew, ToolMore, {"tool.end"}) /\ ToolsSeen(g, q)
<1>a. q \in Parse /\ Moved(p, q, e[1], e[2])
  BY AcceptedFacts
<1>1. /\ Used(h, Open(p), ToolNew, ToolMore, {"tool.end"}) /\ ToolsSeen(h, p)
      /\ More(h, g, e) /\ e \in Event /\ p \in Parse /\ h \in Seq(Event)
  BY DEF AcceptedStep, ParseInv
<1>2. /\ e[1] \in ToolNew \cup ToolMore \cup {"tool.end", "tool.result"} => e[2] \in Tool
      /\ e = <<e[1], e[2]>>
  BY <1>1, EventIds
<1>3. /\ e[1] \in ToolMore => p.tools[e[2]] \in {"open", "partial"}
      /\ e[1] = "tool.end" => p.tools[e[2]] = "open"
      /\ e[1] = "tool.result" => p.tools[e[2]] = "ended"
  BY AcceptsFacts DEF AcceptedStep, Open, Ended
<1>4. q \in Parse
      /\ \A t \in Tool : q.tools[t] = IF e[1] \in ToolTypes /\ t = e[2]
                                        THEN ToolAfter(p, e[1], e[2]) ELSE p.tools[t]
  BY <1>a DEF Moved
<1>5. \A t \in Tool : q.tools[t] \in {"none", "open", "partial", "ended"}
                      /\ p.tools[t] \in {"none", "open", "partial", "ended"}
  BY <1>1, <1>4 DEF Parse
<1>6. \A t \in Tool :
        /\ e[2] = t /\ e[1] = "tool.end" => q.tools[t] = "ended"
        /\ q.tools[t] \in {"open", "partial"} =>
             \/ e[2] = t /\ e[1] \in ToolNew
             \/ p.tools[t] \in {"open", "partial"}
        /\ q.tools[t] = "ended" => p.tools[t] = "ended" \/ (e[2] = t /\ e[1] = "tool.end")
        /\ p.tools[t] # "none" => q.tools[t] # "none"
        /\ e[2] = t /\ e[1] \in ToolNew => q.tools[t] # "none"
  <2> SUFFICES ASSUME NEW t \in Tool
               PROVE  /\ e[2] = t /\ e[1] = "tool.end" => q.tools[t] = "ended"
                      /\ q.tools[t] \in {"open", "partial"} =>
                           \/ e[2] = t /\ e[1] \in ToolNew
                           \/ p.tools[t] \in {"open", "partial"}
                      /\ q.tools[t] = "ended" =>
                           p.tools[t] = "ended" \/ (e[2] = t /\ e[1] = "tool.end")
                      /\ p.tools[t] # "none" => q.tools[t] # "none"
                      /\ e[2] = t /\ e[1] \in ToolNew => q.tools[t] # "none"
    OBVIOUS
  <2>1. CASE t # e[2]
    BY <1>4, <2>1
  <2>2. CASE t = e[2]
    <3>1. q.tools[t] = IF e[1] \in ToolTypes THEN ToolAfter(p, e[1], t) ELSE p.tools[t]
      BY <1>4, <2>2
    <3> QED
      BY <1>3, <1>5, <2>2, <3>1 DEF ToolAfter, ToolTypes, ToolNew, ToolMore
  <2> QED
    BY <2>1, <2>2
<1>7. Used(g, Open(q), ToolNew, ToolMore, {"tool.end"})
  <2>1. e[1] \in ToolMore \cup {"tool.end"} => e[2] \in Open(p)
    BY <1>2, <1>3 DEF Open
  <2>2. \A id \in Open(q) : \/ e[2] = id /\ e[1] \in ToolNew
                            \/ id \in Open(p) /\ ~ (e[2] = id /\ e[1] \in {"tool.end"})
    BY <1>6 DEF Open
  <2> QED
    BY <1>1, <2>1, <2>2, UsedMore
<1>8. ASSUME NEW t \in Tool, q.tools[t] = "ended"
      PROVE  \E j \in 1 .. Len(g) : g[j] = <<"tool.end", t>>
  <2>1. CASE p.tools[t] = "ended"
    <3>1. PICK j \in 1 .. Len(h) : h[j] = <<"tool.end", t>>
      BY <1>1, <2>1 DEF ToolsSeen
    <3> QED
      BY <1>1, <3>1 DEF More
  <2>2. CASE e[2] = t /\ e[1] = "tool.end"
    BY <1>1, <1>2, <2>2 DEF More
  <2> QED
    BY <1>6, <1>8, <2>1, <2>2
<1>9. ASSUME NEW i \in 1 .. Len(g)
      PROVE  /\ g[i][1] \in ToolNew => q.tools[g[i][2]] # "none"
             /\ g[i][1] = "tool.result" => \E j \in 1 .. i - 1 : g[j] = <<"tool.end", g[i][2]>>
  <2>1. CASE i \in 1 .. Len(h)
    <3>1. g[i] = h[i] /\ h[i] \in Event /\ (h[i][1] \in ToolNew => p.tools[h[i][2]] # "none")
      BY <1>1, <2>1 DEF More, ToolsSeen
    <3>2. g[i][1] \in ToolNew => q.tools[g[i][2]] # "none"
      BY <1>6, <3>1, EventIds
    <3>3. ASSUME g[i][1] = "tool.result"
          PROVE  \E j \in 1 .. i - 1 : g[j] = <<"tool.end", g[i][2]>>
      <4>1. PICK j \in 1 .. i - 1 : h[j] = <<"tool.end", h[i][2]>>
        BY <1>1, <2>1, <3>1, <3>3 DEF ToolsSeen
      <4> QED
        BY <1>1, <2>1, <3>1, <4>1 DEF More
    <3> QED
      BY <3>2, <3>3
  <2>2. CASE i = Len(h) + 1
    <3>1. g[i] = e
      BY <1>1, <2>2 DEF More
    <3>2. e[1] \in ToolNew => q.tools[e[2]] # "none"
      BY <1>2, <1>6
    <3>3. e[1] = "tool.result" => \E j \in 1 .. Len(h) : h[j] = <<"tool.end", e[2]>>
      BY <1>1, <1>2, <1>3 DEF ToolsSeen
    <3> QED
      BY <1>1, <2>2, <3>1, <3>2, <3>3 DEF More
  <2> QED
    BY <1>1, <2>1, <2>2 DEF More
<1> QED
  BY <1>7, <1>8, <1>9 DEF ToolsSeen

LEMMA FramedStep ==
  ASSUME NEW h, NEW g, NEW e, NEW p, NEW q, AcceptedStep(h, g, e, p, q)
  PROVE  Framed(g, q)
<1>a. q \in Parse /\ Moved(p, q, e[1], e[2])
  BY AcceptedFacts
<1>1. Framed(h, p) /\ More(h, g, e) /\ e \in Event /\ p \in Parse
  BY DEF AcceptedStep, ParseInv
<1>2. e = <<e[1], e[2]>>
  BY <1>1, EventIds
<1>3. /\ ~ p.finished /\ (p.started \/ e[1] = "run.started")
      /\ e[1] = "run.started" => ~ p.started
      /\ e[1] = "run.finished" => Finishable(p, e[2])
      /\ e[1] \notin {"run.error", "invalid"}
  BY AcceptsFacts DEF AcceptedStep
<1>4. /\ q.started <=> p.started \/ e[1] = "run.started"
      /\ q.run = IF e[1] = "run.started" THEN e[2] ELSE p.run
      /\ q.finished <=> e[1] = "run.finished"
  BY <1>a, <1>3 DEF Moved
<1>5. e[1] = "run.finished" => q.texts = {} /\ Open(q) = {} /\ q.mood = "none"
  <2>1. SUFFICES ASSUME e[1] = "run.finished"
                 PROVE  q.texts = {} /\ Open(q) = {} /\ q.mood = "none"
    OBVIOUS
  <2>2. q.texts = p.texts /\ q.mood = p.mood /\ \A t \in Tool : q.tools[t] = p.tools[t]
    BY <2>1, <1>a DEF Moved, TextNew, TextLast, ToolTypes
  <2> QED
    BY <1>3, <2>1, <2>2 DEF Finishable, Open
<1>6. /\ Len(h) \in Nat /\ Len(g) = Len(h) + 1 /\ g[Len(h) + 1] = e
      /\ \A i \in 1 .. Len(h) : g[i] = h[i]
  BY <1>1 DEF More
<1>7. q.started <=> Len(g) > 0
  BY <1>3, <1>4, <1>6
<1>8. g[1] = <<"run.started", q.run>>
  <2>1. CASE Len(h) = 0
    BY <1>1, <1>2, <1>3, <1>4, <1>6, <2>1 DEF Framed
  <2>2. CASE Len(h) > 0
    BY <1>1, <1>3, <1>4, <1>6, <2>2 DEF Framed
  <2> QED
    BY <1>6, <2>1, <2>2
<1>9. \A i \in 2 .. Len(g) : g[i][1] \notin {"run.started", "run.error", "invalid"}
  BY <1>1, <1>3, <1>6 DEF Framed
<1>10. \A i \in 1 .. Len(g) : g[i][1] = "run.finished" => i = Len(g) /\ q.finished
  BY <1>1, <1>3, <1>4, <1>6 DEF Framed
<1>11. q.finished => g[Len(g)] = <<"run.finished", q.run>>
  BY <1>2, <1>3, <1>4, <1>6 DEF Finishable
<1> QED
  BY <1>4, <1>5, <1>6, <1>7, <1>8, <1>9, <1>10, <1>11 DEF Framed

LEMMA ParseStep ==
  ASSUME NEW h, NEW g, NEW e, NEW p, NEW q, AcceptedStep(h, g, e, p, q)
  PROVE  ParseInv(g, q)
<1>1. q \in Parse /\ g \in Seq(Event)
  BY AcceptedFacts DEF AcceptedStep
<1> QED
  BY <1>1, TextsStep, ThoughtsStep, ToolsStep, FramedStep DEF ParseInv

LEMMA ParseStart ==
  ASSUME NEW r \in RunId
  PROVE  ParseInv(<<>>, Fresh(r))
<1> DEFINE p == Fresh(r)
<1>1. /\ p \in Parse /\ p.started = FALSE /\ p.finished = FALSE /\ p.texts = {}
      /\ p.mood = "none" /\ \A t \in Tool : p.tools[t] = "none"
  BY DEF Fresh, Parse
<1>2. Len(<<>>) = 0 /\ <<>> \in Seq(Event)
  OBVIOUS
<1> HIDE DEF p
<1>3. Open(p) = {} /\ Thinking(p) = {}
  BY <1>1 DEF Open, Thinking
<1>4. Framed(<<>>, p) /\ ToolsSeen(<<>>, p)
  BY <1>1, <1>2 DEF Framed, ToolsSeen
<1>5. \A news, uses, lasts : Used(<<>>, {}, news, uses, lasts) /\ Opened(<<>>, {}, news, lasts)
  BY <1>2 DEF Used, Opened
<1> QED
  BY <1>1, <1>2, <1>3, <1>4, <1>5 DEF ParseInv, p

LEMMA FinishedKeeps ==
  ASSUME NEW h, NEW p, ParseInv(h, p), p.finished
  PROVE  KeepsProtocol(h)
<1>1. /\ p \in Parse /\ h \in Seq(Event) /\ Framed(h, p) /\ Len(h) \in Nat
      /\ Used(h, p.texts, TextNew, TextMore, TextLast) /\ Opened(h, p.texts, TextNew, TextLast)
      /\ Used(h, Thinking(p), ThoughtNew, Thought, {"reasoning.end"})
      /\ Opened(h, Thinking(p), ThoughtNew, {"reasoning.end"})
      /\ Used(h, Open(p), ToolNew, ToolMore, {"tool.end"}) /\ ToolsSeen(h, p)
  BY LenProperties DEF ParseInv
<1>2. p.texts = {} /\ Thinking(p) = {} /\ Open(p) = {}
  BY <1>1 DEF Framed, Thinking
<1>3. /\ h # <<>> /\ h[1][1] = "run.started" /\ h[Len(h)] = <<"run.finished", h[1][2]>>
      /\ \A i \in 2 .. Len(h) - 1 :
           h[i][1] \notin {"run.started", "run.finished", "run.error", "invalid"}
  BY <1>1 DEF Framed
<1>4. Bracketed(h, TextNew, TextMore, TextLast)
  BY <1>1, <1>2 DEF Bracketed, Used, Opened
<1>5. Bracketed(h, {"reasoning.start", "thinking.start"}, Thought, {"reasoning.end"})
  BY <1>1, <1>2 DEF Bracketed, Used, Opened, ThoughtNew
<1>6. ASSUME NEW i \in 1 .. Len(h)
      PROVE  /\ h[i][1] \in ToolMore \cup {"tool.end"} => IsOpen(h, i, ToolNew, {"tool.end"})
             /\ h[i][1] \in ToolNew \cup {"tool.result"} =>
                  \E j \in Same(h, i, 1 .. Len(h)) :
                    h[j][1] = "tool.end" /\ (h[i][1] = "tool.result" => j < i)
  <2>1. h[i][1] \in ToolMore \cup {"tool.end"} => IsOpen(h, i, ToolNew, {"tool.end"})
    BY <1>1 DEF Used
  <2>2. ASSUME h[i][1] = "tool.result"
        PROVE  \E j \in Same(h, i, 1 .. Len(h)) : h[j][1] = "tool.end" /\ j < i
    <3>1. PICK j \in 1 .. i - 1 : h[j] = <<"tool.end", h[i][2]>>
      BY <1>1, <2>2 DEF ToolsSeen
    <3>2. j \in 1 .. Len(h) /\ j < i /\ h[j][1] = "tool.end" /\ h[j][2] = h[i][2]
      BY <1>1, <3>1
    <3> QED
      BY <3>2 DEF Same
  <2>3. ASSUME h[i][1] \in ToolNew
        PROVE  \E j \in Same(h, i, 1 .. Len(h)) : h[j][1] = "tool.end"
    <3>1. h[i] \in Event
      BY <1>1
    <3>2. h[i][2] \in Tool
      BY <3>1, <2>3, EventIds
    <3>3. p.tools[h[i][2]] \in {"none", "open", "partial", "ended"}
          /\ p.tools[h[i][2]] \notin {"open", "partial"} /\ p.tools[h[i][2]] # "none"
      BY <1>1, <1>2, <2>3, <3>2 DEF Parse, Open, ToolsSeen
    <3>4. PICK j \in 1 .. Len(h) : h[j] = <<"tool.end", h[i][2]>>
      BY <1>1, <3>2, <3>3 DEF ToolsSeen
    <3> QED
      BY <3>4 DEF Same
  <2>4. h[i][1] \in ToolNew => h[i][1] # "tool.result"
    BY DEF ToolNew
  <2> QED
    BY <2>1, <2>2, <2>3, <2>4
<1> QED
  BY <1>3, <1>4, <1>5, <1>6 DEF KeepsProtocol

LEMMA ProtocolStart == AgUiInit => ProtocolInv
<1> SUFFICES ASSUME AgUiInit PROVE ProtocolInv
  OBVIOUS
<1>1. /\ key \in [Sample -> RunId] /\ at = [s \in Sample |-> "idle"]
      /\ parse = [s \in Sample |-> Fresh(key[s])] /\ wire = [s \in Sample |-> <<>>]
  BY DEF AgUiInit
<1>2. ASSUME NEW s \in Sample
      PROVE  /\ ParseInv(wire[s], parse[s]) /\ at[s] = "idle"
             /\ parse[s] \in Parse /\ wire[s] \in Seq(Event)
  <2>1. ParseInv(<<>>, Fresh(key[s]))
    BY <1>1, ParseStart
  <2> QED
    BY <1>1, <2>1 DEF ParseInv
<1> QED
  BY <1>1, <1>2 DEF ProtocolInv

LEMMA ProtocolStep == ProtocolInv /\ [AgUiNext]_agUiVars => ProtocolInv'
<1> SUFFICES ASSUME ProtocolInv, [AgUiNext]_agUiVars PROVE ProtocolInv'
  OBVIOUS
<1>1. /\ at \in [Sample -> {"idle", "open", "result", "error"}]
      /\ parse \in [Sample -> Parse] /\ wire \in [Sample -> Seq(Event)]
      /\ \A s \in Sample : ParseInv(wire[s], parse[s])
                           /\ (at[s] = "result" => parse[s].finished)
  BY DEF ProtocolInv
<1>2. ASSUME UNCHANGED <<parse, wire>>,
             \/ at' = at
             \/ \E s \in Sample, a \in {"open", "error"} : at' = [at EXCEPT ![s] = a]
             \/ \E s \in Sample : at' = [at EXCEPT ![s] = "result"] /\ parse[s].finished
      PROVE  ProtocolInv'
  <2>1. at' \in [Sample -> {"idle", "open", "result", "error"}]
        /\ \A s \in Sample : at'[s] = "result" => parse[s].finished
    BY <1>1, <1>2
  <2> QED
    BY <1>1, <1>2, <2>1 DEF ProtocolInv
<1>3. ASSUME NEW s \in Sample, NEW e \in Event, Receives(s, e[1], e[2])
      PROVE  ProtocolInv'
  <2> DEFINE g == Append(wire[s], e)
             q == Consumed(parse[s], e[1], e[2])
  <2>1. /\ at[s] = "open" /\ at' = at /\ Accepts(parse[s], e[1], e[2])
        /\ parse' = [parse EXCEPT ![s] = q] /\ wire' = [wire EXCEPT ![s] = Append(wire[s], <<e[1], e[2]>>)]
    BY <1>3 DEF Receives
  <2>2. wire' = [wire EXCEPT ![s] = g]
    BY <2>1, EventIds
  <2>3. AcceptedStep(wire[s], g, e, parse[s], q)
    BY <1>1, <2>1, WireMore DEF AcceptedStep
  <2>4. ParseInv(g, q) /\ q \in Parse /\ g \in Seq(Event)
    BY <2>3, ParseStep DEF ParseInv
  <2> HIDE DEF g, q
  <2> QED
    BY <1>1, <2>1, <2>2, <2>4 DEF ProtocolInv
<1>4. ASSUME NEW s \in Sample, Opens(s) \/ Refused(s) \/ StreamEnds(s) \/ Closes(s)
      PROVE  ProtocolInv'
  BY <1>2, <1>4 DEF Opens, Refused, StreamEnds, Closes, Leaves, cancelVars
<1>5. ASSUME NEW s \in Sample, NEW e \in Event, Rejects(s, e[1], e[2])
      PROVE  ProtocolInv'
  BY <1>2, <1>5 DEF Rejects, Leaves
<1>6. CASE CancelActive \/ CloseRaises \/ CancelReturns \/ UNCHANGED agUiVars
  BY <1>2, <1>6 DEF CancelActive, CloseRaises, CancelReturns, agUiVars
<1> QED
  BY <1>3, <1>4, <1>5, <1>6 DEF AgUiNext

\* ag_ui.py:108-273: whatever the remote sends, in any order and however often,
\* a sample has a result only for a stream that kept the protocol from its first
\* event to its last.
THEOREM ProtocolKept == AgUiSpec => []ResultInOrder
<1>1. ProtocolInv => ResultInOrder
  BY FinishedKeeps DEF ProtocolInv, ResultInOrder
<1> QED
  BY <1>1, ProtocolStart, ProtocolStep, PTL DEF AgUiSpec

-----------------------------------------------------------------------------
(* Release gate: what the counts of a set of results say *)

CountableRows(rs) ==
  IsFiniteSet(DOMAIN rs) /\ \A i \in DOMAIN rs : IsFiniteSet(rs[i].rules)

\* A count of failures is zero only if there is none, in any result.
LEMMA FailuresTell ==
  ASSUME NEW rs, CountableRows(rs), NEW cat
  PROVE  /\ Failures(rs, cat) \in Nat
         /\ Failures(rs, cat) = 0 <=>
              \A i \in DOMAIN rs : \A x \in rs[i].rules : x.cat = cat => x.passed
<1> DEFINE H == [i \in DOMAIN rs |-> {x \in rs[i].rules : x.cat = cat /\ ~ x.passed}]
           f == [i \in DOMAIN rs |-> Cardinality(H[i])]
<1>1. \A i \in DOMAIN rs : IsFiniteSet(H[i])
  BY FS_Subset DEF CountableRows
<1>2. SumFunction(f) \in Nat /\ (SumFunction(f) = 0 <=> \A i \in DOMAIN rs : H[i] = {})
  <2> HIDE DEF H
  <2> QED BY <1>1, SumOfCounts DEF CountableRows
<1>3. f = [i \in DOMAIN rs |-> Cardinality({x \in rs[i].rules : x.cat = cat /\ ~ x.passed})]
  OBVIOUS
<1>4. Failures(rs, cat) = SumFunction(f)
  BY <1>3 DEF Failures, CountRules, Total
<1> QED BY <1>2, <1>4

\* No result reported this if none is counted.
LEMMA SeenTells ==
  ASSUME NEW rs, CountableRows(rs), NEW cat, NEW what
  PROVE  /\ Seen(rs, cat, what) \in Nat
         /\ Seen(rs, cat, what) = 0 <=>
              \A i \in DOMAIN rs : \A x \in rs[i].rules : ~ (x.cat = cat /\ x.seen = what)
<1> DEFINE H == [i \in DOMAIN rs |-> {x \in rs[i].rules : x.cat = cat /\ x.seen = what}]
           f == [i \in DOMAIN rs |-> Cardinality(H[i])]
<1>1. \A i \in DOMAIN rs : IsFiniteSet(H[i])
  BY FS_Subset DEF CountableRows
<1>2. SumFunction(f) \in Nat /\ (SumFunction(f) = 0 <=> \A i \in DOMAIN rs : H[i] = {})
  <2> HIDE DEF H
  <2> QED BY <1>1, SumOfCounts DEF CountableRows
<1>3. f = [i \in DOMAIN rs |-> Cardinality({x \in rs[i].rules : x.cat = cat /\ x.seen = what})]
  OBVIOUS
<1>4. Seen(rs, cat, what) = SumFunction(f)
  BY <1>3 DEF Seen, CountRules, Total
<1> QED BY <1>2, <1>4

\* The three counts of the gate that are about one rule and not a category.
Unbound(rs) == CountRules(rs, LAMBDA x : x.id = "skills.bound" /\ ~ x.passed)
Omissions(rs) == CountRules(rs, LAMBDA x : x.id = "skills.required" /\ ~ x.passed)
Mismatches(rs) == CountRules(rs, LAMBDA x :
  x.cat = "skill_identity" /\ x.id # "skills.bound" /\ ~ x.passed)

\* No unbound calls: every call was of a bound skill.
LEMMA UnboundTells ==
  ASSUME NEW rs, CountableRows(rs)
  PROVE  /\ Unbound(rs) \in Nat
         /\ Unbound(rs) = 0 <=>
              \A i \in DOMAIN rs : \A x \in rs[i].rules : x.id = "skills.bound" => x.passed
<1> DEFINE H == [i \in DOMAIN rs |-> {x \in rs[i].rules : x.id = "skills.bound" /\ ~ x.passed}]
           f == [i \in DOMAIN rs |-> Cardinality(H[i])]
<1>1. \A i \in DOMAIN rs : IsFiniteSet(H[i])
  BY FS_Subset DEF CountableRows
<1>2. SumFunction(f) \in Nat /\ (SumFunction(f) = 0 <=> \A i \in DOMAIN rs : H[i] = {})
  <2> HIDE DEF H
  <2> QED BY <1>1, SumOfCounts DEF CountableRows
<1>3. f = [i \in DOMAIN rs |->
             Cardinality({x \in rs[i].rules : x.id = "skills.bound" /\ ~ x.passed})]
  OBVIOUS
<1>4. Unbound(rs) = SumFunction(f)
  BY <1>3 DEF Unbound, CountRules, Total
<1> QED BY <1>2, <1>4

\* No omissions: every required skill was selected.
LEMMA OmissionsTell ==
  ASSUME NEW rs, CountableRows(rs)
  PROVE  /\ Omissions(rs) \in Nat
         /\ Omissions(rs) = 0 <=>
              \A i \in DOMAIN rs : \A x \in rs[i].rules : x.id = "skills.required" => x.passed
<1> DEFINE H == [i \in DOMAIN rs |-> {x \in rs[i].rules : x.id = "skills.required" /\ ~ x.passed}]
           f == [i \in DOMAIN rs |-> Cardinality(H[i])]
<1>1. \A i \in DOMAIN rs : IsFiniteSet(H[i])
  BY FS_Subset DEF CountableRows
<1>2. SumFunction(f) \in Nat /\ (SumFunction(f) = 0 <=> \A i \in DOMAIN rs : H[i] = {})
  <2> HIDE DEF H
  <2> QED BY <1>1, SumOfCounts DEF CountableRows
<1>3. f = [i \in DOMAIN rs |->
             Cardinality({x \in rs[i].rules : x.id = "skills.required" /\ ~ x.passed})]
  OBVIOUS
<1>4. Omissions(rs) = SumFunction(f)
  BY <1>3 DEF Omissions, CountRules, Total
<1> QED BY <1>2, <1>4

\* No mismatches: every event had the version and hash that is bound.
LEMMA MismatchesTell ==
  ASSUME NEW rs, CountableRows(rs)
  PROVE  /\ Mismatches(rs) \in Nat
         /\ Mismatches(rs) = 0 <=>
              \A i \in DOMAIN rs : \A x \in rs[i].rules :
                x.cat = "skill_identity" /\ x.id # "skills.bound" => x.passed
<1> DEFINE H == [i \in DOMAIN rs |-> {x \in rs[i].rules :
                   x.cat = "skill_identity" /\ x.id # "skills.bound" /\ ~ x.passed}]
           f == [i \in DOMAIN rs |-> Cardinality(H[i])]
<1>1. \A i \in DOMAIN rs : IsFiniteSet(H[i])
  BY FS_Subset DEF CountableRows
<1>2. SumFunction(f) \in Nat /\ (SumFunction(f) = 0 <=> \A i \in DOMAIN rs : H[i] = {})
  <2> HIDE DEF H
  <2> QED BY <1>1, SumOfCounts DEF CountableRows
<1>3. f = [i \in DOMAIN rs |-> Cardinality({x \in rs[i].rules :
             x.cat = "skill_identity" /\ x.id # "skills.bound" /\ ~ x.passed})]
  OBVIOUS
<1>4. Mismatches(rs) = SumFunction(f)
  BY <1>3 DEF Mismatches, CountRules, Total
<1> QED BY <1>2, <1>4

\* A sum of items over the rules that fail is zero only if none has an item.
LEMMA ItemsTell ==
  ASSUME NEW rs, CountableRows(rs), NEW cat,
         \A i \in DOMAIN rs : \A x \in rs[i].rules : x.cat = cat => x.n \in Nat
  PROVE  /\ Items(rs, cat) \in Nat
         /\ Items(rs, cat) = 0 <=>
              \A i \in DOMAIN rs : \A x \in rs[i].rules : x.cat = cat /\ ~ x.passed => x.n = 0
<1> DEFINE H(i) == {y \in rs[i].rules : y.cat = cat /\ ~ y.passed}
           h(i) == [x \in H(i) |-> x.n]
           f == [i \in DOMAIN rs |-> SumFunction(h(i))]
<1>1. ASSUME NEW i \in DOMAIN rs
      PROVE  SumFunction(h(i)) \in Nat /\ (SumFunction(h(i)) = 0 <=> \A x \in H(i) : x.n = 0)
  <2>1. IsFiniteSet(H(i)) /\ h(i) \in [H(i) -> Nat] /\ \A x \in H(i) : h(i)[x] = x.n
    BY FS_Subset DEF CountableRows
  <2> HIDE DEF H, h
  <2> QED BY <2>1, SumIsZero, SumOfNaturals
<1>2. Items(rs, cat) = SumFunction(f)
  BY DEF Items, Total
<1>3. f \in [DOMAIN rs -> Nat] /\ \A i \in DOMAIN rs : f[i] = 0 <=> \A x \in H(i) : x.n = 0
  <2> HIDE DEF h, H
  <2> QED BY <1>1
<1>4. SumFunction(f) \in Nat /\ (SumFunction(f) = 0 <=> \A i \in DOMAIN rs : f[i] = 0)
  <2> HIDE DEF f
  <2> QED BY <1>3, SumIsZero, SumOfNaturals DEF CountableRows
<1> HIDE DEF f, h
<1> QED BY <1>2, <1>3, <1>4

\* A share of passes is a fraction of one, and is one only if every rule passed.
LEMMA PassRatioTells ==
  ASSUME NEW rs, CountableRows(rs), NEW cats
  PROVE  LET q == PassRatio(rs, cats) IN
         /\ q.n \in Nat /\ q.d \in Nat /\ q.n <= q.d
         /\ q.n = q.d <=>
              \A i \in DOMAIN rs : \A x \in rs[i].rules : x.cat \in cats => x.passed
<1> DEFINE All == [i \in DOMAIN rs |-> {x \in rs[i].rules : x.cat \in cats}]
           Good == [i \in DOMAIN rs |-> {x \in rs[i].rules : x.cat \in cats /\ x.passed}]
           f == [i \in DOMAIN rs |-> Cardinality(Good[i])]
           g == [i \in DOMAIN rs |-> Cardinality(All[i])]
<1>1. ASSUME NEW i \in DOMAIN rs
      PROVE  /\ Cardinality(Good[i]) \in Nat /\ Cardinality(All[i]) \in Nat
             /\ Cardinality(Good[i]) <= Cardinality(All[i])
             /\ Cardinality(Good[i]) = Cardinality(All[i]) <=> Good[i] = All[i]
  <2>1. IsFiniteSet(All[i]) /\ Good[i] \subseteq All[i]
    BY FS_Subset DEF CountableRows
  <2> HIDE DEF All, Good
  <2> QED BY <2>1, FS_Subset, FS_CardinalityType
<1>2. \A i \in DOMAIN rs : Good[i] = All[i] <=> \A x \in rs[i].rules : x.cat \in cats => x.passed
  OBVIOUS
<1>3. /\ f = [i \in DOMAIN rs |-> Cardinality({x \in rs[i].rules : x.cat \in cats /\ x.passed})]
      /\ g = [i \in DOMAIN rs |-> Cardinality({x \in rs[i].rules : x.cat \in cats})]
  OBVIOUS
<1>4. PassRatio(rs, cats) = [n |-> SumFunction(f), d |-> SumFunction(g)]
  BY <1>3 DEF PassRatio, Ratio, CountRules, Total
<1>5. Dominated(f, g, DOMAIN rs)
  <2> HIDE DEF All, Good
  <2> QED BY <1>1 DEF Dominated, CountableRows
<1>6. \A i \in DOMAIN rs : f[i] = g[i] <=> Good[i] = All[i]
  <2> HIDE DEF All, Good
  <2> QED BY <1>1
<1>7. (\A i \in DOMAIN rs : f[i] = g[i]) => f = g
  OBVIOUS
<1> HIDE DEF f, g, All, Good
<1>8. /\ SumFunction(f) \in Nat /\ SumFunction(g) \in Nat /\ SumFunction(f) <= SumFunction(g)
      /\ SumFunction(f) = SumFunction(g) => \A i \in DOMAIN rs : f[i] = g[i]
  BY <1>5, SumOrder
<1>9. SumFunction(f) = SumFunction(g) <=> \A i \in DOMAIN rs : Good[i] = All[i]
  BY <1>6, <1>7, <1>8
<1> QED BY <1>2, <1>4, <1>8, <1>9

\* What is not below a whole share is everything.
LEMMA NotBelowWhole ==
  ASSUME NEW x, x.n \in Nat, x.d \in Nat, x.n <= x.d,
         NEW m, m.n \in Int, m.d \in Int, Whole(m), ~ Below(x, m)
  PROVE  x.n = x.d
<1> DEFINE a == x.n
           b == x.d
           p == m.n
           q == m.d
<1>1. a \in Nat /\ b \in Nat /\ p \in Int /\ q \in Int /\ a <= b /\ q > 0 /\ p >= q
      /\ (b = 0 \/ ~ (a * q < p * b))
  BY DEF Whole, Below
<1> SUFFICES ASSUME a # b PROVE FALSE
  OBVIOUS
<1> HIDE DEF a, b, p, q
<1>2. b - a > 0 /\ b > 0
  BY <1>1
<1>3. (b - a) * q > 0 /\ (b - a) * q = b * q - a * q
  BY <1>1, <1>2
<1>4. (p - q) * b >= 0 /\ (p - q) * b = p * b - q * b
  BY <1>1
<1> QED BY <1>1, <1>2, <1>3, <1>4

\* Everything is not below a share of at most everything.
LEMMA AllIsNotBelow ==
  ASSUME NEW x, x.n \in Nat, x.n = x.d,
         NEW m, m.n \in Int, m.d \in Int, AtMostAll(m)
  PROVE  ~ Below(x, m)
<1> DEFINE a == x.n
           p == m.n
           q == m.d
<1>1. a \in Nat /\ p \in Int /\ q \in Int /\ p <= q
  BY DEF AtMostAll
<1>2. Below(x, m) => a * q < p * a
  BY DEF Below
<1> HIDE DEF a, p, q
<1>3. (q - p) * a >= 0 /\ (q - p) * a = a * q - p * a
  BY <1>1
<1>4. a * q \in Int /\ p * a \in Int
  BY <1>1
<1> QED BY <1>2, <1>3, <1>4

-----------------------------------------------------------------------------
(* Release gate: the invariant *)

\* The rules of a result are those of what the target reported, and the judge's.
Agree(q, r) ==
  /\ q.text = r.text /\ q.skills = r.skills /\ q.claims = r.claims
  /\ q.nodes = r.nodes /\ q.handoffs = r.handoffs
JudgeOnly(x) ==
  /\ x.cat = "hallucination_judge" /\ x.id = "hallucination.judge" /\ x.critical = FALSE
Ruled(role, c, r, rules) ==
  /\ Score(Expected[c], r, Bound[role]) \subseteq rules
  /\ \A x \in rules : x \in Score(Expected[c], r, Bound[role]) \/ JudgeOnly(x)
Told == {"text", "skills", "claims", "nodes", "handoffs", "usage"}
Fits(role, row) ==
  /\ Told \subseteq DOMAIN row.answer
  /\ IsFiniteSet(row.rules)
  /\ \E r : Reportable(role, row.case, r) /\ Agree(row.answer, r) /\ Ruled(role, row.case, r, row.rules)

RowsFit ==
  /\ DOMAIN rows = Role
  /\ \A role \in Role :
       rows[role] \in Seq(Range(rows[role])) /\ \A row \in Range(rows[role]) : Fits(role, row)
  /\ \/ judging = <<>>
     \/ \E role \in Role : \E row : judging = <<role, row>> /\ Fits(role, row)

\* Each sample is executed once, first all of the baseline, and a result is
\* captured at most once.
Half == Len(cases)
Left == Len(todo)
Asked(role) == IF judging # <<>> /\ judging[1] = role THEN 1 ELSE 0
Progress ==
  /\ cases \in Seq(DOMAIN Expected) /\ manifest \in Manifests
  /\ todo \in Seq(Role \X DOMAIN Expected) /\ Left <= 2 * Half
  /\ \A i \in 1 .. Left : todo[i] = Plan(cases)[2 * Half - Left + i]
  /\ Len(rows["baseline"]) + Asked("baseline") <= (IF Left >= Half THEN 2 * Half - Left ELSE Half)
  /\ Len(rows["candidate"]) + Asked("candidate") <= (IF Left >= Half THEN 0 ELSE Half - Left)

Blocks(reasons) == \E x \in reasons : x.severity = "block"
Staged ==
  /\ stage \in {"cases", "asking", "done", "failed"}
  /\ stage # "cases" => judging = <<>>
  /\ stage = "asking" => policy.opa
  /\ {"decision", "news"} \subseteq DOMAIN verdict /\ "valid" \in DOMAIN ask
  /\ stage \in {"asking", "done"} => verdict.decision \in DOMAIN Rank
  /\ stage \in {"asking", "done"} /\ verdict.decision # "BLOCK" =>
       ~ Blocks(Reasons(Base, Candidate)) /\ verdict.news.block = 0
  /\ stage = "done" /\ policy.opa /\ verdict.decision # "BLOCK" => ask.valid
  /\ stage = "done" /\ ~ policy.opa /\ verdict.decision = "BLOCK" =>
       Blocks(Reasons(Base, Candidate)) \/ verdict.news.block > 0

GateInv == RowsFit /\ Progress /\ Staged

LEMMA AppendRange ==
  ASSUME NEW s, s \in Seq(Range(s)), NEW x
  PROVE  /\ Append(s, x) \in Seq(Range(Append(s, x)))
         /\ Range(Append(s, x)) = Range(s) \cup {x}
         /\ Len(Append(s, x)) = Len(s) + 1
<1> DEFINE t == Append(s, x)
           T == Range(s) \cup {x}
<1>1. s \in Seq(T)
  OBVIOUS
<1>2. t \in Seq(T) /\ Len(t) = Len(s) + 1 /\ Len(s) \in Nat
  BY <1>1
<1>3. \A i \in 1 .. Len(s) : t[i] = s[i]
  BY <1>1
<1>4. t[Len(s) + 1] = x
  BY <1>1
<1>5. DOMAIN s = 1 .. Len(s) /\ DOMAIN t = 1 .. Len(s) + 1
  BY <1>1, <1>2
<1>6. \A i \in DOMAIN s : s[i] \in Range(s)
  BY DEF Range
<1>7. Range(t) \subseteq T
  BY <1>2, <1>5 DEF Range
<1>8. T \subseteq Range(t)
  BY <1>2, <1>3, <1>4, <1>5 DEF Range
<1>9. t \in Seq(Range(t))
  BY <1>2, <1>7, <1>8
<1> QED BY <1>2, <1>7, <1>8, <1>9

\* The invariant holds before the first sample.
LEMMA GateStart == GateInit => GateInv
<1> SUFFICES ASSUME GateInit PROVE GateInv
  OBVIOUS
<1> USE DEF GateInit
<1>1. RowsFit
  BY DEF RowsFit, Range
<1>2. Progress
  <2>1. cases \in Seq(DOMAIN Expected)
    BY GateAssumption
  <2>2. Half \in Nat /\ DOMAIN cases = 1 .. Half
    BY <2>1 DEF Half
  <2> DEFINE P == [i \in DOMAIN cases |-> <<"baseline", cases[i]>>]
             Q == [i \in DOMAIN cases |-> <<"candidate", cases[i]>>]
  <2>3. P \in Seq(Role \X DOMAIN Expected) /\ Len(P) = Half
    BY <2>1, <2>2 DEF Role, Half
  <2>4. Q \in Seq(Role \X DOMAIN Expected) /\ Len(Q) = Half
    BY <2>1, <2>2 DEF Role, Half
  <2>5. todo = P \o Q
    BY DEF Plan
  <2> DEFINE T == Role \X DOMAIN Expected
  <2> HIDE DEF P, Q, T, GateInit
  <2>9. P \in Seq(T) /\ Q \in Seq(T)
    BY <2>3, <2>4 DEF T
  <2>10. P \o Q \in Seq(T) /\ Len(P \o Q) = Len(P) + Len(Q)
    BY <2>9
  <2>6. todo \in Seq(Role \X DOMAIN Expected) /\ Left = 2 * Half
    BY <2>2, <2>3, <2>4, <2>5, <2>10 DEF Left, T
  <2> USE DEF GateInit
  <2>7. \A i \in 1 .. Left : todo[i] = Plan(cases)[2 * Half - Left + i]
    BY <2>2, <2>6
  <2>8. Len(rows["baseline"]) = 0 /\ Len(rows["candidate"]) = 0
        /\ Asked("baseline") = 0 /\ Asked("candidate") = 0
    BY DEF Asked, Role
  <2> QED BY <2>1, <2>2, <2>6, <2>7, <2>8 DEF Progress
<1>3. Staged
  BY DEF Staged
<1> QED BY <1>1, <1>2, <1>3 DEF GateInv

\* What is scored fits what was told.
LEMMA ScoredFits ==
  ASSUME NEW role \in Role, NEW c \in DOMAIN Expected, NEW r, Reportable(role, c, r), NEW failure
  PROVE  Fits(role, Row(c, r, Score(Expected[c], r, Bound[role]), failure))
<1> DEFINE rules == Score(Expected[c], r, Bound[role])
           row == Row(c, r, rules, failure)
<1>1. row.case = c /\ row.answer = r /\ row.rules = rules
  BY DEF Row
<1> HIDE DEF row
<1>2. Agree(r, r) /\ Ruled(role, c, r, rules)
  BY DEF Agree, Ruled
<1>3. Told \subseteq DOMAIN r /\ IsFiniteSet(rules)
  BY DEF Reportable, Told
<1>4. Fits(role, row)
  BY <1>1, <1>2, <1>3 DEF Fits
<1> QED BY <1>4 DEF row

\* The judge adds its rule and its tokens, and nothing else.
LEMMA JudgedFits ==
  ASSUME NEW role \in Role, NEW row, Fits(role, row), NEW paid, NEW heard, NEW v, NEW minimum
  PROVE  Fits(role, Row(row.case, [row.answer EXCEPT !.usage = paid],
                        row.rules \cup {JudgeRule(heard, v, minimum)}, row.failure))
<1> DEFINE j == JudgeRule(heard, v, minimum)
           q == [row.answer EXCEPT !.usage = paid]
           new == Row(row.case, q, row.rules \cup {j}, row.failure)
<1>1. JudgeOnly(j)
  BY DEF JudgeOnly, JudgeRule, Rule
<1>2. Told \subseteq DOMAIN q /\ Agree(q, row.answer)
  BY DEF Fits, Told, Agree
<1>3. new.case = row.case /\ new.answer = q /\ new.rules = row.rules \cup {j}
  BY DEF Row
<1> HIDE DEF j, q, new
<1>4. PICK r : /\ Reportable(role, row.case, r) /\ Agree(row.answer, r)
               /\ Ruled(role, row.case, r, row.rules)
  BY DEF Fits
<1>5. Agree(q, r)
  BY <1>2, <1>4 DEF Agree
<1>6. Ruled(role, row.case, r, row.rules \cup {j})
  BY <1>1, <1>4 DEF Ruled
<1>7. IsFiniteSet(row.rules \cup {j})
  BY FS_AddElement DEF Fits
<1>8. Fits(role, new)
  BY <1>2, <1>3, <1>4, <1>5, <1>6, <1>7 DEF Fits
<1> QED BY <1>8 DEF new, q, j

\* The results of each role are a list of fitting rows.
Listed(rs) ==
  /\ DOMAIN rs = Role
  /\ \A role \in Role :
       rs[role] \in Seq(Range(rs[role])) /\ \A row \in Range(rs[role]) : Fits(role, row)

\* A captured result joins the results of its version.
LEMMA CaptureKeeps ==
  ASSUME Listed(rows), NEW role \in Role, NEW row, Fits(role, row), Capture(role, row)
  PROVE  /\ Listed(rows')
         /\ \A x \in Role : Len(rows'[x]) = IF x = role THEN Len(rows[x]) + 1 ELSE Len(rows[x])
<1>1. /\ rows[role] \in Seq(Range(rows[role]))
      /\ \A x \in Range(rows[role]) : Fits(role, x)
  BY DEF Listed
<1>2. /\ Append(rows[role], row) \in Seq(Range(Append(rows[role], row)))
      /\ Range(Append(rows[role], row)) = Range(rows[role]) \cup {row}
      /\ Len(Append(rows[role], row)) = Len(rows[role]) + 1
  BY <1>1, AppendRange
<1> DEFINE t == Append(rows[role], row)
<1> HIDE DEF t
<1>3. /\ DOMAIN rows' = Role /\ rows'[role] = t
      /\ \A x \in Role : x # role => rows'[x] = rows[x]
  BY DEF Capture, Listed, t
<1>4. t \in Seq(Range(t)) /\ (\A x \in Range(t) : Fits(role, x)) /\ Len(t) = Len(rows[role]) + 1
  BY <1>1, <1>2 DEF t
<1>5. ASSUME NEW x \in Role
      PROVE  /\ rows'[x] \in Seq(Range(rows'[x])) /\ \A y \in Range(rows'[x]) : Fits(x, y)
             /\ Len(rows'[x]) = IF x = role THEN Len(rows[x]) + 1 ELSE Len(rows[x])
  <2>1. CASE x = role
    BY <1>3, <1>4, <2>1
  <2>2. CASE x # role
    <3>1. rows'[x] = rows[x]
      BY <1>3, <2>2
    <3>2. rows[x] \in Seq(Range(rows[x])) /\ \A y \in Range(rows[x]) : Fits(x, y)
      BY DEF Listed
    <3> QED BY <2>2, <3>1, <3>2
  <2> QED BY <2>1, <2>2
<1> QED BY <1>3, <1>5 DEF Listed

\* The plan asks the baseline first.
LEMMA PlanRoles ==
  ASSUME NEW cs, cs \in Seq(DOMAIN Expected), NEW k \in 1 .. 2 * Len(cs)
  PROVE  Plan(cs)[k][1] = IF k <= Len(cs) THEN "baseline" ELSE "candidate"
<1> DEFINE P == [i \in DOMAIN cs |-> <<"baseline", cs[i]>>]
           Q == [i \in DOMAIN cs |-> <<"candidate", cs[i]>>]
           T == Role \X DOMAIN Expected
<1>1. DOMAIN cs = 1 .. Len(cs) /\ Len(cs) \in Nat
  OBVIOUS
<1>2. P \in Seq(T) /\ Len(P) = Len(cs) /\ \A i \in 1 .. Len(cs) : P[i][1] = "baseline"
  BY <1>1 DEF Role
<1>3. Q \in Seq(T) /\ Len(Q) = Len(cs) /\ \A i \in 1 .. Len(cs) : Q[i][1] = "candidate"
  BY <1>1 DEF Role
<1>4. Plan(cs) = P \o Q
  BY DEF Plan
<1> HIDE DEF P, Q, T
<1>5. (P \o Q)[k] = IF k <= Len(P) THEN P[k] ELSE Q[k - Len(P)]
  BY <1>1, <1>2, <1>3
<1> QED BY <1>1, <1>2, <1>3, <1>4, <1>5

\* What the target answers, or its failure, is captured or goes to the judge.
LEMMA ScoredKeeps ==
  ASSUME GateInv, NEW r, NEW failure, Scored(r, failure),
         Reportable(todo[1][1], todo[1][2], r)
  PROVE  GateInv'
<1> DEFINE role == todo[1][1]
           c == todo[1][2]
           row == Row(c, r, Score(Expected[c], r, Bound[role]), failure)
           T == Role \X DOMAIN Expected
<1>1. /\ stage = "cases" /\ todo # <<>> /\ judging = <<>> /\ todo' = Tail(todo)
      /\ \/ Capture(role, row) /\ judging' = <<>>
         \/ judging' = <<role, row>> /\ rows' = rows
      /\ UNCHANGED <<cases, manifest, verdict, ask, stage>>
  BY DEF Scored
<1>2. RowsFit /\ Progress /\ Staged
  BY DEF GateInv
<1>3. todo \in Seq(T) /\ Len(todo) \in Nat /\ Len(todo) > 0
  BY <1>1, <1>2 DEF Progress
<1>4. /\ todo[1] \in T /\ Tail(todo) \in Seq(T) /\ Len(Tail(todo)) = Len(todo) - 1
      /\ \A i \in 1 .. Len(todo) - 1 : Tail(todo)[i] = todo[i + 1]
  <2> HIDE DEF T
  <2> QED BY <1>3
<1>5. role \in Role /\ c \in DOMAIN Expected
  BY <1>4
<1>6. Fits(role, row)
  BY <1>5, ScoredFits
<1> HIDE DEF row, role, c
<1>7. Listed(rows)
  BY <1>2 DEF RowsFit, Listed
<1>8. /\ Listed(rows')
      /\ judging' = <<>> \/ (judging' = <<role, row>> /\ Fits(role, row))
      /\ \A x \in Role : Len(rows'[x]) + Asked(x)' = IF x = role THEN Len(rows[x]) + 1 ELSE Len(rows[x])
  <2>1. CASE Capture(role, row) /\ judging' = <<>>
    <3>1. /\ Listed(rows')
          /\ \A x \in Role : Len(rows'[x]) = IF x = role THEN Len(rows[x]) + 1 ELSE Len(rows[x])
      BY <1>5, <1>6, <1>7, <2>1, CaptureKeeps
    <3>2. \A x : Asked(x)' = 0
      BY <2>1 DEF Asked
    <3>3. \A x \in Role : Len(rows[x]) \in Nat
      BY <1>7 DEF Listed
    <3> QED BY <2>1, <3>1, <3>2, <3>3
  <2>2. CASE judging' = <<role, row>> /\ rows' = rows
    <3>1. \A x \in Role : Asked(x)' = IF x = role THEN 1 ELSE 0
      BY <2>2 DEF Asked
    <3>2. \A x \in Role : Len(rows[x]) \in Nat
      BY <1>7 DEF Listed
    <3> QED BY <1>6, <1>7, <2>2, <3>1, <3>2
  <2> QED BY <1>1, <2>1, <2>2
<1>9. RowsFit'
  BY <1>5, <1>8 DEF RowsFit, Listed
<1>10. Progress'
  <2>1. /\ cases \in Seq(DOMAIN Expected) /\ Half \in Nat /\ Left <= 2 * Half /\ Left \in Nat /\ Left > 0
        /\ Half' = Half /\ Left' = Left - 1 /\ cases' = cases /\ manifest' = manifest
        /\ manifest \in Manifests
    BY <1>1, <1>2, <1>3, <1>4 DEF Progress, Half, Left
  <2>2. \A i \in 1 .. Left : todo[i] = Plan(cases)[2 * Half - Left + i]
    BY <1>2 DEF Progress
  <2>3. todo[1] = Plan(cases)[2 * Half - Left + 1]
    BY <2>1, <2>2
  <2>4. 2 * Half - Left + 1 \in 1 .. 2 * Half
    BY <2>1
  <2>5. Plan(cases)[2 * Half - Left + 1][1] =
          IF 2 * Half - Left + 1 <= Half THEN "baseline" ELSE "candidate"
    BY <2>1, <2>4, PlanRoles DEF Half
  <2>6. role = IF 2 * Half - Left + 1 <= Half THEN "baseline" ELSE "candidate"
    BY <2>3, <2>5 DEF role
  <2>7. \A i \in 1 .. Left' : todo'[i] = Plan(cases)[2 * Half' - Left' + i]
    <3> SUFFICES ASSUME NEW i \in 1 .. Left - 1
                 PROVE  Tail(todo)[i] = Plan(cases)[2 * Half - (Left - 1) + i]
      BY <1>1, <2>1
    <3>1. Tail(todo)[i] = todo[i + 1] /\ i + 1 \in 1 .. Left
      BY <1>4, <2>1 DEF Left
    <3>2. 2 * Half - Left + (i + 1) = 2 * Half - (Left - 1) + i
      BY <2>1
    <3> QED BY <2>2, <3>1, <3>2
  <2>8. /\ Len(rows["baseline"]) <= (IF Left >= Half THEN 2 * Half - Left ELSE Half)
        /\ Len(rows["candidate"]) <= (IF Left >= Half THEN 0 ELSE Half - Left)
        /\ Len(rows["baseline"]) \in Nat /\ Len(rows["candidate"]) \in Nat
    <3>1. Asked("baseline") = 0 /\ Asked("candidate") = 0
      BY <1>1 DEF Asked
    <3>2. Len(rows["baseline"]) \in Nat /\ Len(rows["candidate"]) \in Nat
      BY <1>7 DEF Listed, Role
    <3> QED BY <1>2, <3>1, <3>2 DEF Progress
  <2>9. /\ Len(rows'["baseline"]) + Asked("baseline")' =
             IF role = "baseline" THEN Len(rows["baseline"]) + 1 ELSE Len(rows["baseline"])
        /\ Len(rows'["candidate"]) + Asked("candidate")' =
             IF role = "candidate" THEN Len(rows["candidate"]) + 1 ELSE Len(rows["candidate"])
    BY <1>8 DEF Role
  <2>10. /\ Len(rows'["baseline"]) + Asked("baseline")' <=
              (IF Left' >= Half' THEN 2 * Half' - Left' ELSE Half')
         /\ Len(rows'["candidate"]) + Asked("candidate")' <=
              (IF Left' >= Half' THEN 0 ELSE Half' - Left')
    BY <2>1, <2>6, <2>8, <2>9
  <2>11. todo' \in Seq(T) /\ Left' <= 2 * Half'
    BY <1>1, <1>4, <2>1
  <2> QED BY <2>1, <2>7, <2>10, <2>11 DEF Progress
<1>11. Staged'
  BY <1>1, <1>2 DEF Staged
<1> QED BY <1>9, <1>10, <1>11 DEF GateInv

\* The result the judge was asked about is captured.
LEMMA JudgedKeeps ==
  ASSUME GateInv, judging # <<>>, NEW heard, NEW v, WithJudge(heard, v)
  PROVE  GateInv'
<1>1. RowsFit /\ Progress /\ Staged
  BY DEF GateInv
<1>2. PICK role, row : role \in Role /\ judging = <<role, row>> /\ Fits(role, row)
  BY <1>1 DEF RowsFit
<1>3. PICK paid, minimum :
        Capture(role, Row(row.case, [row.answer EXCEPT !.usage = paid],
                          row.rules \cup {JudgeRule(heard, v, minimum)}, row.failure))
  BY <1>2 DEF WithJudge
<1>4. judging' = <<>> /\ UNCHANGED <<cases, manifest, todo, verdict, ask, stage>>
  BY DEF WithJudge
<1> DEFINE new == Row(row.case, [row.answer EXCEPT !.usage = paid],
                      row.rules \cup {JudgeRule(heard, v, minimum)}, row.failure)
<1>5. Fits(role, new)
  BY <1>2, JudgedFits
<1> HIDE DEF new
<1>6. Listed(rows)
  BY <1>1 DEF RowsFit, Listed
<1>7. /\ Listed(rows')
      /\ \A x \in Role : Len(rows'[x]) = IF x = role THEN Len(rows[x]) + 1 ELSE Len(rows[x])
  <2>1. Capture(role, new) /\ role \in Role
    BY <1>2, <1>3 DEF new
  <2> QED BY <1>5, <1>6, <2>1, CaptureKeeps
<1>8. RowsFit'
  BY <1>4, <1>7 DEF RowsFit, Listed
<1>9. \A x \in Role : Len(rows'[x]) + Asked(x)' = Len(rows[x]) + Asked(x)
  <2>1. \A x \in Role : Len(rows[x]) \in Nat
    BY <1>6 DEF Listed
  <2>2. \A x \in Role : Asked(x)' = 0 /\ Asked(x) = IF x = role THEN 1 ELSE 0
    BY <1>2, <1>4 DEF Asked
  <2> QED BY <1>7, <2>1, <2>2
<1>10. Half' = Half /\ Left' = Left
  BY <1>4 DEF Half, Left
<1>11. Progress'
  BY <1>1, <1>4, <1>9, <1>10 DEF Progress, Role
<1>12. stage = "cases"
  BY <1>1, <1>2 DEF Staged
<1>13. Staged'
  BY <1>1, <1>4, <1>12 DEF Staged
<1> QED BY <1>8, <1>11, <1>13 DEF GateInv

\* Without a judge that is asked, and with the same samples, the same results fit.
LEMMA RestKeeps ==
  ASSUME GateInv, UNCHANGED <<cases, manifest, todo, rows>>, judging' = <<>>
  PROVE  RowsFit' /\ Progress'
<1>1. RowsFit /\ Progress
  BY DEF GateInv
<1>2. RowsFit'
  BY <1>1 DEF RowsFit
<1>3. Listed(rows) /\ Half' = Half /\ Left' = Left
  BY <1>1 DEF RowsFit, Listed, Half, Left
<1>4. /\ Len(rows["baseline"]) \in Nat /\ Len(rows["candidate"]) \in Nat
      /\ Half \in Nat /\ Left \in Nat
  BY <1>1, <1>3 DEF Listed, Role, Progress, Half, Left
<1>5. \A x : Asked(x)' = 0 /\ Asked(x) \in {0, 1}
  BY DEF Asked
<1>6. /\ Len(rows'["baseline"]) + Asked("baseline")' <=
           (IF Left >= Half THEN 2 * Half - Left ELSE Half)
      /\ Len(rows'["candidate"]) + Asked("candidate")' <= (IF Left >= Half THEN 0 ELSE Half - Left)
  <2>1. /\ Len(rows["baseline"]) + Asked("baseline") <=
             (IF Left >= Half THEN 2 * Half - Left ELSE Half)
        /\ Len(rows["candidate"]) + Asked("candidate") <= (IF Left >= Half THEN 0 ELSE Half - Left)
    BY <1>1 DEF Progress
  <2>2. /\ Asked("baseline")' = 0 /\ Asked("candidate")' = 0
        /\ Asked("baseline") \in {0, 1} /\ Asked("candidate") \in {0, 1}
    BY <1>5
  <2>3. rows' = rows
    OBVIOUS
  <2> QED BY <1>4, <2>1, <2>2, <2>3
<1>7. Progress'
  BY <1>1, <1>3, <1>6 DEF Progress
<1> QED BY <1>2, <1>7

\* The verdict on the same results, with a decision that is one.
LEMMA VerdictsMeasure ==
  ASSUME UNCHANGED <<manifest, rows>>
  PROVE  Reasons(Base, Candidate)' = Reasons(Base, Candidate) /\ policy' = policy
<1>1. policy' = policy /\ coverage' = coverage
  BY DEF policy, coverage
<1>2. Base' = Base /\ Candidate' = Candidate
  BY <1>1 DEF Base, Candidate
<1> QED BY <1>1, <1>2 DEF Reasons

\* A decision that does not block has no reason to.
LEMMA EvaluateKeeps == ASSUME GateInv, PersistEvaluates PROVE GateInv'
<1> DEFINE reasons == Reasons(Base, Candidate)
<1>1. RowsFit /\ Progress /\ Staged
  BY DEF GateInv
<1>2. /\ judging' = <<>> /\ UNCHANGED <<cases, manifest, todo, rows, ask>>
      /\ stage' = IF policy.opa THEN "asking" ELSE "done"
  BY DEF PersistEvaluates
<1>3. PICK news \in [block : 0 .. 1, warn : 0 .. 1] :
        verdict' = [decision |-> Regression(Decision(reasons), news),
                    reasons |-> reasons, news |-> news]
  BY DEF PersistEvaluates, Evaluate
<1>4. Reasons(Base, Candidate)' = reasons /\ policy' = policy
  BY <1>2, VerdictsMeasure
<1> HIDE DEF reasons
<1>5. /\ Decision(reasons) \in {"SHIP", "WARN", "BLOCK"}
      /\ Decision(reasons) = "BLOCK" <=> Blocks(reasons)
  BY DEF Decision, Blocks
<1>6. news.block \in 0 .. 1 /\ news.warn \in 0 .. 1
  BY <1>3
<1>7. /\ Regression(Decision(reasons), news) \in {"SHIP", "WARN", "BLOCK"}
      /\ Regression(Decision(reasons), news) = "BLOCK" <=> Blocks(reasons) \/ news.block > 0
  BY <1>5, <1>6 DEF Regression
<1>8. /\ verdict'.decision = Regression(Decision(reasons), news) /\ verdict'.news = news
      /\ {"decision", "news"} \subseteq DOMAIN verdict'
  BY <1>3
<1>9. verdict'.decision \in DOMAIN Rank
  BY <1>7, <1>8 DEF Rank
<1>10. Staged'
  BY <1>1, <1>2, <1>4, <1>6, <1>7, <1>8, <1>9 DEF Staged
<1> QED BY <1>1, <1>2, <1>10, RestKeeps DEF GateInv

\* The worse of two decisions blocks if one of them does.
LEMMA WorstFacts ==
  ASSUME NEW a \in DOMAIN Rank, NEW b \in DOMAIN Rank
  PROVE  /\ Worst(a, b) \in DOMAIN Rank
         /\ Worst(a, b) # "BLOCK" => a # "BLOCK" /\ b # "BLOCK"
BY DEF Worst, Rank

\* The engine may only make a decision worse.
LEMMA CloseKeeps ==
  ASSUME GateInv, stage = "asking", NEW d \in DOMAIN Rank, NEW valid, Close(d, valid),
         d = "BLOCK" \/ valid = TRUE,
         UNCHANGED <<cases, manifest, todo, judging, rows>>
  PROVE  GateInv'
<1>1. RowsFit /\ Progress /\ Staged
  BY DEF GateInv
<1>2. /\ judging' = <<>> /\ policy.opa
      /\ verdict.decision \in DOMAIN Rank
      /\ {"decision", "news"} \subseteq DOMAIN verdict /\ "valid" \in DOMAIN ask
      /\ verdict.decision # "BLOCK" => ~ Blocks(Reasons(Base, Candidate)) /\ verdict.news.block = 0
  BY <1>1 DEF Staged
<1>3. Reasons(Base, Candidate)' = Reasons(Base, Candidate) /\ policy' = policy
  BY VerdictsMeasure
<1>4. /\ verdict'.decision = Worst(verdict.decision, d) /\ verdict'.news = verdict.news
      /\ DOMAIN verdict' = DOMAIN verdict
      /\ ask'.valid = valid /\ DOMAIN ask' = DOMAIN ask /\ stage' = "done"
  BY <1>2 DEF Close
<1>5. /\ verdict'.decision \in DOMAIN Rank
      /\ verdict'.decision # "BLOCK" => verdict.decision # "BLOCK" /\ d # "BLOCK"
  BY <1>2, <1>4, WorstFacts
<1>6. Staged'
  BY <1>2, <1>3, <1>4, <1>5 DEF Staged
<1> QED BY <1>2, <1>6, RestKeeps DEF GateInv

\* Each step of the requests to the engine keeps the invariant.
LEMMA EngineKeeps ==
  ASSUME GateInv, EngineAccepts \/ EngineDecides \/ EngineRefuses \/ EngineFails \/ EngineEscapes
  PROVE  GateInv'
<1>1. /\ stage = "asking" /\ UNCHANGED <<cases, manifest, todo, judging, rows>>
  BY DEF EngineAccepts, EngineDecides, EngineRefuses, EngineFails, EngineEscapes
<1>2. RowsFit /\ Progress /\ Staged /\ judging' = <<>>
  BY <1>1 DEF GateInv, Staged
<1>3. Reasons(Base, Candidate)' = Reasons(Base, Candidate) /\ policy' = policy
  BY <1>1, VerdictsMeasure
<1>4. RowsFit' /\ Progress'
  BY <1>1, <1>2, RestKeeps
<1>5. ASSUME verdict' = verdict, DOMAIN ask' = DOMAIN ask, stage' \in {"asking", "failed"}
      PROVE  GateInv'
  <2>1. Staged'
    BY <1>1, <1>2, <1>3, <1>5 DEF Staged
  <2> QED BY <1>4, <2>1 DEF GateInv
<1>6. "BLOCK" \in DOMAIN Rank
  BY DEF Rank
<1>7. CASE EngineAccepts
  BY <1>1, <1>5, <1>7 DEF EngineAccepts
<1>8. CASE EngineDecides
  <2>1. PICK d \in DOMAIN Rank : Close(d, TRUE)
    BY <1>8 DEF EngineDecides
  <2> QED BY <1>1, <2>1, CloseKeeps
<1>9. CASE EngineRefuses
  <2>1. CASE ask.tries = 0
    BY <1>1, <1>5, <1>9, <2>1 DEF EngineRefuses
  <2>2. CASE ask.tries # 0
    <3>1. Close("BLOCK", FALSE)
      BY <1>9, <2>2 DEF EngineRefuses
    <3> QED BY <1>1, <1>6, <3>1, CloseKeeps
  <2> QED BY <2>1, <2>2
<1>10. CASE EngineFails
  BY <1>1, <1>6, <1>10, CloseKeeps DEF EngineFails, FailsClosed
<1>11. CASE EngineEscapes
  BY <1>1, <1>5, <1>11 DEF EngineEscapes
<1> QED BY <1>7, <1>8, <1>9, <1>10, <1>11

\* Every step keeps the invariant.
LEMMA GateStep == GateInv /\ [GateNext]_gateVars => GateInv'
<1> SUFFICES ASSUME GateInv, [GateNext]_gateVars PROVE GateInv'
  OBVIOUS
<1>1. RowsFit /\ Progress /\ Staged
  BY DEF GateInv
<1>2. ASSUME todo # <<>>
      PROVE  todo[1][1] \in Role /\ todo[1][2] \in DOMAIN Expected
  <2> DEFINE T == Role \X DOMAIN Expected
  <2>1. todo \in Seq(T)
    BY <1>1 DEF Progress
  <2>2. todo[1] \in T
    <3> HIDE DEF T
    <3> QED BY <1>2, <2>1
  <2> QED BY <2>2
<1>3. CASE TargetAnswers
  <2>1. todo # <<>>
    BY <1>3 DEF TargetAnswers
  <2>2. PICK r \in Answers[todo[1][1]][todo[1][2]] : Scored(r, "none")
    BY <1>3 DEF TargetAnswers
  <2>3. Reportable(todo[1][1], todo[1][2], r)
    BY <1>2, <2>1, <2>2, GateAssumption
  <2> QED BY <2>2, <2>3, ScoredKeeps
<1>4. CASE TargetFails
  <2>1. todo # <<>>
    BY <1>4 DEF TargetFails
  <2>2. PICK kind \in {"target_timeout", "target_error"} : Scored(FailureResult(kind), kind)
    BY <1>4 DEF TargetFails
  <2>3. kind \in DOMAIN FailureLatency
    BY DEF FailureLatency
  <2>4. Reportable(todo[1][1], todo[1][2], FailureResult(kind))
    BY <1>2, <2>1, <2>3, GateAssumption
  <2> QED BY <2>2, <2>4, ScoredKeeps
<1>5. CASE JudgeAnswers
  BY <1>5, JudgedKeeps DEF JudgeAnswers
<1>6. CASE JudgeUnknown
  BY <1>6, JudgedKeeps DEF JudgeUnknown
<1>7. CASE JudgeEscapes
  <2>1. /\ judging # <<>> /\ judging' = <<>>
        /\ UNCHANGED <<cases, manifest, todo, rows, verdict, ask, stage>>
    BY <1>7 DEF JudgeEscapes
  <2>2. stage = "cases"
    BY <1>1, <2>1 DEF Staged
  <2>3. Staged'
    BY <1>1, <2>1, <2>2 DEF Staged
  <2> QED BY <2>1, <2>3, RestKeeps DEF GateInv
<1>8. CASE PersistRaises
  <2>1. /\ judging' = <<>> /\ stage' = "failed"
        /\ UNCHANGED <<cases, manifest, todo, rows, verdict, ask>>
    BY <1>8 DEF PersistRaises
  <2>2. Staged'
    BY <1>1, <2>1 DEF Staged
  <2> QED BY <2>1, <2>2, RestKeeps DEF GateInv
<1>9. CASE PersistEvaluates
  BY <1>9, EvaluateKeeps
<1>10. CASE EngineAccepts \/ EngineDecides \/ EngineRefuses \/ EngineFails \/ EngineEscapes
  BY <1>10, EngineKeeps
<1>11. CASE UNCHANGED gateVars
  <2>1. UNCHANGED <<cases, manifest, todo, judging, rows, verdict, ask, stage>>
    BY <1>11 DEF gateVars
  <2>2. Reasons(Base, Candidate)' = Reasons(Base, Candidate) /\ policy' = policy
    BY <2>1, VerdictsMeasure
  <2>3. Staged'
    BY <1>1, <2>1, <2>2 DEF Staged
  <2>4. RowsFit'
    BY <1>1, <2>1 DEF RowsFit
  <2>5. Half' = Half /\ Left' = Left /\ \A x : Asked(x)' = Asked(x)
    BY <2>1 DEF Half, Left, Asked
  <2>6. Progress'
    BY <1>1, <2>1, <2>5 DEF Progress
  <2> QED BY <2>3, <2>4, <2>6 DEF GateInv
<1> QED
  BY <1>3, <1>4, <1>5, <1>6, <1>7, <1>8, <1>9, <1>10, <1>11 DEF GateNext

-----------------------------------------------------------------------------
(* Release gate: a run fails for a cause *)

\* A persist that raises has too few results, or a cost it cannot divide by.
LEMMA RaisedForCause == ASSUME GateInv, PersistRaises PROVE FailedForCause'
<1>1. RowsFit /\ Progress
  BY DEF GateInv
<1>2. /\ todo = <<>> /\ judging = <<>> /\ Undecidable
      /\ UNCHANGED <<cases, manifest, rows>>
  BY DEF PersistRaises
<1>3. CASE ~ Complete
  <2>1. PICK role \in Role : Len(rows[role]) # Len(cases)
    BY <1>3 DEF Complete
  <2>2. Half \in Nat /\ Left = 0 /\ Asked("baseline") = 0 /\ Asked("candidate") = 0
    BY <1>1, <1>2 DEF Progress, Half, Left, Asked
  <2>3. Len(rows["baseline"]) \in Nat /\ Len(rows["candidate"]) \in Nat
    BY <1>1 DEF RowsFit, Role
  <2>4. Len(rows["baseline"]) <= Half /\ Len(rows["candidate"]) <= Half
    BY <1>1, <2>2, <2>3 DEF Progress
  <2>5. Len(rows[role]) < Len(cases)
    BY <2>1, <2>2, <2>3, <2>4 DEF Role, Half
  <2>6. Len(rows'[role]) < Len(cases')
    BY <1>2, <2>5
  <2> QED BY <2>6 DEF FailedForCause
<1>4. CASE Complete
  <2> DEFINE rs == rows["baseline"]
  <2>1. Divides(Base.cost, Candidate.cost, Base.plain)
    BY <1>2, <1>4 DEF Undecidable
  <2>2. Base.cost.d # 0 /\ Base.cost.n = 0 /\ ~ Base.plain
    BY <2>1 DEF Divides, Skipped
  <2>3. /\ Base.cost = IF \A i \in DOMAIN rs : rs[i].cost # {} THEN Ratio(Total(rs, Spent), Len(rs))
                       ELSE Unknown
        /\ Base.plain = \A i \in DOMAIN rs : \A c \in rs[i].cost : c.plain
    BY DEF Base, MetricsOf
  <2>4. Unknown.d = 0 /\ Ratio(Total(rs, Spent), Len(rs)).n = Total(rs, Spent)
    BY DEF Unknown, Ratio
  <2>5. (\A i \in DOMAIN rs : rs[i].cost # {}) /\ Total(rs, Spent) = 0
    BY <2>2, <2>3, <2>4
  <2>6. \E i \in DOMAIN rs : \E c \in rs[i].cost : ~ c.plain
    BY <2>2, <2>3
  <2>7. /\ \A row \in Range(rs) : row.cost # {}
        /\ \E row \in Range(rs) : \E c \in row.cost : ~ c.plain
    BY <2>5, <2>6 DEF Range
  <2>8. Total(rs, Spent)' = Total(rs, Spent) /\ rs' = rs
    BY <1>2 DEF Total, Spent
  <2> QED BY <2>5, <2>7, <2>8 DEF FailedForCause
<1> QED BY <1>3, <1>4

\* No other step fails the run but an answer of the engine.
LEMMA FailedStep ==
  GateInv /\ FailedForCause /\ [GateNext]_gateVars => FailedForCause'
<1> SUFFICES ASSUME GateInv, FailedForCause, [GateNext]_gateVars PROVE FailedForCause'
  OBVIOUS
<1>1. stage # "cases" => judging = <<>>
  BY DEF GateInv, Staged
<1>2. CASE PersistRaises
  BY <1>2, RaisedForCause
<1>3. CASE EngineEscapes
  <2>1. policy.opa /\ Steps[ask.step] = "decide" /\ UNCHANGED <<manifest, ask>>
    BY <1>3 DEF EngineEscapes, GateInv, Staged
  <2> QED BY <2>1 DEF FailedForCause, policy
<1>4. CASE UNCHANGED gateVars
  <2>1. UNCHANGED <<cases, manifest, rows, ask, stage>>
    BY <1>4 DEF gateVars
  <2> QED BY <2>1 DEF FailedForCause, policy, Total, Spent
<1>5. ASSUME stage' # "failed" PROVE FailedForCause'
  BY <1>5 DEF FailedForCause
<1>6. CASE TargetAnswers \/ TargetFails
  <2>1. stage' # "failed"
    BY <1>6 DEF TargetAnswers, TargetFails, Scored
  <2> QED BY <1>5, <2>1
<1>7. CASE JudgeAnswers \/ JudgeUnknown \/ JudgeEscapes
  <2>1. stage' # "failed"
    BY <1>1, <1>7 DEF JudgeAnswers, JudgeUnknown, JudgeEscapes, WithJudge
  <2> QED BY <1>5, <2>1
<1>8. CASE PersistEvaluates
  BY <1>5, <1>8 DEF PersistEvaluates
<1>9. CASE EngineAccepts \/ EngineDecides \/ EngineRefuses \/ EngineFails
  <2>1. stage' # "failed"
    BY <1>9 DEF EngineAccepts, EngineDecides, EngineRefuses, EngineFails, Close
  <2> QED BY <1>5, <2>1
<1> QED BY <1>2, <1>3, <1>4, <1>6, <1>7, <1>8, <1>9 DEF GateNext

\* A run fails only for a result that is missing, for baseline costs that are a
\* zero printed with more than one digit, or for an engine that answered no
\* object: no order of answers, judgements and refusals leaves another undecided.
THEOREM RunsFailForCause == GateSpec => []FailedForCause
<1>1. GateInit => GateInv /\ FailedForCause
  BY GateStart DEF GateInit, FailedForCause
<1>2. (GateInv /\ FailedForCause) /\ [GateNext]_gateVars => (GateInv /\ FailedForCause)'
  BY GateStep, FailedStep
<1> QED BY <1>1, <1>2, PTL DEF GateSpec

-----------------------------------------------------------------------------
(* Release gate: what a passed rule says of the answer *)

\* The maximum of numbers up to a bound is one of them.
LEMMA MaxIsLast ==
  ASSUME NEW N \in Nat, NEW I \in SUBSET (1 .. N), I # {}
  PROVE  Max(I) \in I /\ \A x \in I : x <= Max(I)
<1> DEFINE T == {n \in Nat : \A x \in I : x <= n}
<1>1. T \in SUBSET Nat /\ N \in T
  OBVIOUS
<1>2. PICK n \in T : \A m \in T : n <= m
  <2> HIDE DEF T
  <2> QED BY <1>1, LeastNumber
<1>3. n \in I
  <2> SUFFICES ASSUME n \notin I PROVE FALSE
    OBVIOUS
  <2>1. n \in Nat /\ \A x \in I : x <= n /\ x # n /\ x \in Nat /\ x >= 1
    OBVIOUS
  <2>2. n - 1 \in Nat /\ \A x \in I : x <= n - 1
    <3>1. PICK y \in I : TRUE
      OBVIOUS
    <3>2. y \in Nat /\ y >= 1 /\ y <= n
      BY <2>1, <3>1
    <3>3. n - 1 \in Nat
      BY <2>1, <3>2
    <3> QED BY <2>1, <3>3
  <2>3. n - 1 \in T
    BY <2>2
  <2> QED BY <1>2, <2>2, <2>3
<1>4. \E x \in I : \A y \in I : x >= y
  BY <1>3
<1>5. Max(I) \in I /\ \A y \in I : Max(I) >= y
  <2>1. Max(I) = CHOOSE x \in I : \A y \in I : x >= y
    BY DEF Max
  <2> QED BY <1>4, <2>1
<1> DEFINE m == Max(I)
<1> HIDE DEF m
<1>6. m \in I /\ \A y \in I : m >= y
  BY <1>5 DEF m
<1>7. \A y \in I : y <= m
  BY <1>6
<1> QED BY <1>6, <1>7 DEF m

\* An event that is the next step of its invocation follows the last one before.
LEMMA StepFollows ==
  ASSUME NEW events, events \in Seq(Range(events)), NEW k \in DOMAIN events, NEW inv,
         NEW I, I = Earlier(events, inv, k),
         Transition(Lifecycle(events, inv, k), events[k].type)
  PROVE  /\ events[k].type = "skill.selected" => I = {}
         /\ events[k].type # "skill.selected" =>
              /\ I # {} /\ Max(I) \in I /\ \A l \in I : l <= Max(I)
              /\ events[k].type = "skill.started" => events[Max(I)].type = "skill.selected"
              /\ events[k].type # "skill.started" =>
                   events[k].type \in Terminal /\ events[Max(I)].type = "skill.started"
<1>1. DOMAIN events = 1 .. Len(events) /\ Len(events) \in Nat
  OBVIOUS
<1>2. I \in SUBSET (1 .. Len(events))
  BY <1>1 DEF Earlier
<1>3. I # {} => Max(I) \in I /\ \A l \in I : l <= Max(I)
  BY <1>1, <1>2, MaxIsLast
<1>4. Lifecycle(events, inv, k) = IF I = {} THEN "none" ELSE After(events[Max(I)].type)
  BY DEF Lifecycle
<1> DEFINE t == events[k].type
           u == events[Max(I)].type
           p == Lifecycle(events, inv, k)
<1>5. (t = "skill.selected" => p = "none") /\ (t = "skill.started" => p = "selected")
      /\ (t # "skill.selected" /\ t # "skill.started" => t \in Terminal /\ p = "started")
  BY DEF Transition, Terminal
<1>6. /\ After(u) \in {"selected", "started", "terminal"}
      /\ (After(u) = "selected" => u = "skill.selected")
      /\ (After(u) = "started" => u = "skill.started")
  BY DEF After
<1> HIDE DEF t, u, p
<1>7. p = IF I = {} THEN "none" ELSE After(u)
  BY <1>4 DEF p, u
<1>8. /\ t = "skill.selected" => I = {}
      /\ t # "skill.selected" => I # {}
      /\ t = "skill.started" => u = "skill.selected"
      /\ t # "skill.selected" /\ t # "skill.started" => t \in Terminal /\ u = "skill.started"
  BY <1>5, <1>6, <1>7
<1> QED BY <1>3, <1>8 DEF t, u

\* The lifecycle table, looked up event by event, admits whole stories only.
LEMMA LifecycleIsStory ==
  ASSUME NEW events, events \in Seq(Range(events)),
         \A i \in DOMAIN events :
           Transition(Lifecycle(events, events[i].inv, i), events[i].type),
         Unfinished(events) = {}
  PROVE  Orderly(events)
<1>1. DOMAIN events = 1 .. Len(events) /\ Len(events) \in Nat
  OBVIOUS
<1> SUFFICES ASSUME NEW inv \in {v.inv : v \in Range(events)}
             PROVE  \E i, j, k \in DOMAIN events :
                      /\ i < j /\ j < k /\ {l \in DOMAIN events : events[l].inv = inv} = {i, j, k}
                      /\ events[i].type = "skill.selected" /\ events[j].type = "skill.started"
                      /\ events[k].type \in Terminal
  BY DEF Orderly
<1> DEFINE L == {l \in DOMAIN events : events[l].inv = inv}
           k == Max(L)
           K == Earlier(events, inv, k)
           j == Max(K)
           J == Earlier(events, inv, j)
           i == Max(J)
<1>2. L # {} /\ L \in SUBSET (1 .. Len(events))
  BY <1>1 DEF Range
<1>3. k \in L /\ \A l \in L : l <= k
  <2> HIDE DEF L
  <2> QED BY <1>1, <1>2, MaxIsLast
<1>4. Earlier(events, inv, Len(events) + 1) = L
  BY <1>1 DEF Earlier
<1>5. Lifecycle(events, inv, Len(events) + 1) = "terminal"
  <2>1. inv \in {events[l].inv : l \in DOMAIN events}
    BY DEF Range
  <2> QED BY <2>1 DEF Unfinished
<1>6. After(events[k].type) = "terminal"
  <2> HIDE DEF L
  <2> QED BY <1>2, <1>4, <1>5 DEF Lifecycle
<1>7. events[k].type # "skill.selected" /\ events[k].type # "skill.started"
  BY <1>6 DEF After
<1>8. ASSUME NEW l \in L
      PROVE  /\ l \in DOMAIN events /\ Transition(Lifecycle(events, inv, l), events[l].type)
             /\ \A m : m \in Earlier(events, inv, l) <=> m \in L /\ m < l
  <2>1. l \in 1 .. Len(events) /\ events[l].inv = inv
    BY <1>1
  <2> QED BY <1>1, <2>1 DEF Earlier
<1> HIDE DEF L
<1>9. k \in DOMAIN events /\ Transition(Lifecycle(events, inv, k), events[k].type)
  BY <1>3, <1>8
<1>10. /\ j \in K /\ \A l \in K : l <= j
       /\ events[k].type \in Terminal /\ events[j].type = "skill.started"
  BY <1>7, <1>9, StepFollows
<1>11. j \in L /\ j < k
  BY <1>3, <1>8, <1>10
<1> HIDE DEF k, j
<1>12. j \in DOMAIN events /\ Transition(Lifecycle(events, inv, j), events[j].type)
  BY <1>8, <1>11
<1>13. i \in J /\ (\A l \in J : l <= i) /\ events[i].type = "skill.selected"
  BY <1>10, <1>12, StepFollows
<1>14. i \in L /\ i < j
  BY <1>8, <1>11, <1>13
<1> HIDE DEF i
<1>15. i \in DOMAIN events /\ Transition(Lifecycle(events, inv, i), events[i].type)
  BY <1>8, <1>14
<1>16. Earlier(events, inv, i) = {}
  BY <1>13, <1>15, StepFollows
<1>17. ASSUME NEW l \in L PROVE l \in {i, j, k}
  <2>1. l \in Int /\ i \in Int /\ j \in Int /\ k \in Int
    BY <1>2, <1>3, <1>11, <1>14
  <2>2. l <= k
    BY <1>3
  <2>3. l < k => l \in K
    BY <1>3, <1>8
  <2>4. l < j => l \in J
    BY <1>8, <1>11
  <2>5. l < i => l \in Earlier(events, inv, i)
    BY <1>8, <1>14
  <2>6. (l < k => l <= j) /\ (l < j => l <= i) /\ ~ (l < i)
    BY <1>10, <1>13, <1>16, <2>3, <2>4, <2>5
  <2> QED BY <2>1, <2>2, <2>6
<1>18. L = {i, j, k}
  BY <1>3, <1>11, <1>14, <1>17
<1> QED BY <1>9, <1>10, <1>11, <1>12, <1>13, <1>14, <1>15, <1>18 DEF L

\* What the counts of a strict gate say of each rule.
Blameless(rules) ==
  \A x \in rules :
    /\ x.cat \in {"safety", "skill_identity", "skill_lifecycle", "evidence_claim", "scenario_node",
                  "scenario_lifecycle", "scenario_handoff"} => x.passed
    /\ x.id \in {"skills.bound", "skills.required"} => x.passed
    /\ x.cat \in {"skill_telemetry", "scenario_telemetry"} => x.seen # "unknown"
    /\ x.cat \in {"evidence_invalid_ref", "evidence_unsupported_claim"} /\ ~ x.passed => x.n = 0

\* Rules that pass mean what they are to mean: no unsafe text,
LEMMA SafetyTells ==
  ASSUME NEW e, NEW r, Blameless(SafetyRules(e, r))
  PROVE  r.text \cap e.unsafe = {}
<1> SUFFICES ASSUME NEW p \in e.unsafe, p \in r.text PROVE FALSE
  OBVIOUS
<1> DEFINE x == Rule("safety", "safety.forbidden_pattern", p, p \notin r.text, TRUE)
<1>1. x \in SafetyRules(e, r)
  BY DEF SafetyRules
<1>2. x.cat = "safety" /\ ~ x.passed
  BY DEF Rule
<1> HIDE DEF x
<1> QED BY <1>1, <1>2 DEF Blameless

\* skill events were reported,
LEMMA TelemetryTells ==
  ASSUME NEW e, NEW r, NEW bound, Blameless(SkillRules(e, r, bound))
  PROVE  r.skills # <<>>
<1> SUFFICES ASSUME r.skills = <<>> PROVE FALSE
  OBVIOUS
<1> DEFINE x == [Rule("skill_telemetry", "skills.telemetry", 0,
                      r.skills # <<>> \/ ~ e.skills.telemetry, e.skills.telemetry)
                   EXCEPT !.seen = IF r.skills = <<>> THEN "unknown" ELSE "known"]
<1>1. x \in SkillRules(e, r, bound)
  BY DEF SkillRules
<1>2. x.cat = "skill_telemetry" /\ x.seen = "unknown"
  BY DEF Rule
<1> HIDE DEF x
<1> QED BY <1>1, <1>2 DEF Blameless

LEMMA EventRulesThere ==
  ASSUME NEW e, NEW r, NEW bound, r.skills # <<>>
  PROVE  /\ EventRules(r.skills, bound) \subseteq SkillRules(e, r, bound)
         /\ Rule("skill_lifecycle", "skills.lifecycle.complete", 0, Unfinished(r.skills) = {}, TRUE)
              \in SkillRules(e, r, bound)
         /\ SelectionRules(e.skills, r.skills, Sequence(OfType(r.skills, {"skill.selected"})))
              \subseteq SkillRules(e, r, bound)
BY DEF SkillRules

\* each was of a bound skill and the next of its invocation,
LEMMA EventsTell ==
  ASSUME NEW events, NEW bound, Blameless(EventRules(events, bound)), NEW i \in DOMAIN events
  PROVE  /\ events[i].name \in DOMAIN bound /\ events[i].sha = bound[events[i].name]
         /\ Transition(Lifecycle(events, events[i].inv, i), events[i].type)
<1> DEFINE v == events[i]
           known == v.name \in DOMAIN bound
           x == Rule("skill_identity", "skills.bound", i, known, TRUE)
           y == Rule("skill_identity", "skills.identity", i, known /\ v.sha = bound[v.name], TRUE)
           z == [Rule("skill_lifecycle", "skills.lifecycle", i,
                      Transition(Lifecycle(events, v.inv, i), v.type), TRUE) EXCEPT !.seen = v.type]
<1>1. {x, y, z} \subseteq EventRules(events, bound)
  BY DEF EventRules
<1>2. /\ x.cat = "skill_identity" /\ x.passed = known
      /\ y.cat = "skill_identity" /\ y.passed = (known /\ v.sha = bound[v.name])
      /\ z.cat = "skill_lifecycle"
      /\ z.passed = Transition(Lifecycle(events, v.inv, i), v.type)
  BY DEF Rule
<1> HIDE DEF x, y, z
<1>3. x.passed /\ y.passed /\ z.passed
  BY <1>1, <1>2 DEF Blameless
<1> QED BY <1>2, <1>3

\* so that the skills are the bound ones, in order, with all that are required.
LEMMA SkillsTell ==
  ASSUME NEW e, NEW r, NEW bound, r.skills \in Seq(Range(r.skills)),
         Blameless(SkillRules(e, r, bound))
  PROVE  /\ r.skills # <<>> /\ Orderly(r.skills) /\ Genuine(r.skills, bound)
         /\ Chosen(r.skills, e.skills.required)
<1> DEFINE events == r.skills
           selected == Sequence(OfType(events, {"skill.selected"}))
           w == Rule("skill_lifecycle", "skills.lifecycle.complete", 0, Unfinished(events) = {}, TRUE)
<1>1. events # <<>>
  BY TelemetryTells
<1>2. /\ EventRules(events, bound) \subseteq SkillRules(e, r, bound)
      /\ w \in SkillRules(e, r, bound)
      /\ SelectionRules(e.skills, events, selected) \subseteq SkillRules(e, r, bound)
  BY <1>1, EventRulesThere
<1>3. Blameless(EventRules(events, bound))
  BY <1>2 DEF Blameless
<1>4. Unfinished(events) = {}
  <2>1. w.cat = "skill_lifecycle" /\ w.passed = (Unfinished(events) = {})
    BY DEF Rule
  <2> HIDE DEF w
  <2>2. w.passed
    BY <1>2, <2>1 DEF Blameless
  <2> QED BY <2>1, <2>2
<1>5. \A i \in DOMAIN events :
        /\ events[i].name \in DOMAIN bound /\ events[i].sha = bound[events[i].name]
        /\ Transition(Lifecycle(events, events[i].inv, i), events[i].type)
  BY <1>3, EventsTell
<1>6. Orderly(events)
  BY <1>4, <1>5, LifecycleIsStory
<1>7. Genuine(events, bound)
  BY <1>5 DEF Genuine, Range
<1>8. Chosen(events, e.skills.required)
  <2> SUFFICES ASSUME NEW k \in e.skills.required PROVE \E v \in Selections(events) : v.name = k
    BY DEF Chosen
  <2> DEFINE ok == k \in {v.name : v \in Selections(events)}
             x == Rule("skill_selection", "skills.required", k, ok, TRUE)
  <2>1. x \in SelectionRules(e.skills, events, selected)
    BY DEF SelectionRules
  <2>2. x.id = "skills.required" /\ x.passed = ok
    BY DEF Rule
  <2> HIDE DEF x
  <2>3. x.passed
    BY <1>2, <2>1, <2>2 DEF Blameless
  <2> QED BY <2>2, <2>3
<1> QED BY <1>1, <1>6, <1>7, <1>8

\* There are finitely many foreign references and bare claims.
LEMMA FewClaims ==
  ASSUME NEW claims, claims \in Seq(Range(claims)),
         \A i \in DOMAIN claims : IsFiniteSet(claims[i].refs), NEW allowed
  PROVE  IsFiniteSet(Foreign(claims, allowed)) /\ IsFiniteSet(Bare(claims))
<1> DEFINE D == DOMAIN claims
           F == {claims[j].refs : j \in D}
           R == UNION F
<1>1. IsFiniteSet(D)
  <2>1. D = 1 .. Len(claims) /\ Len(claims) \in Nat
    OBVIOUS
  <2> QED BY <2>1, FS_Interval
<1>2. IsFiniteSet(F)
  <2> DEFINE f == [j \in D |-> claims[j].refs]
  <2>1. f \in Surjection(D, F)
    BY DEF Surjection
  <2> HIDE DEF D, F, f
  <2> QED BY <1>1, <2>1, FS_Surjection
<1>3. IsFiniteSet(R)
  <2>1. \A T \in F : IsFiniteSet(T)
    OBVIOUS
  <2> HIDE DEF F
  <2> QED BY <1>2, <2>1, FS_UNION
<1>4. IsFiniteSet(D \X R)
  <2> HIDE DEF D, R
  <2> QED BY <1>1, <1>3, FS_Product
<1>5. Foreign(claims, allowed) \subseteq D \X R
  BY DEF Foreign
<1>6. Bare(claims) \subseteq D
  BY DEF Bare
<1> HIDE DEF D, R, F
<1> QED BY <1>1, <1>4, <1>5, <1>6, FS_Subset

LEMMA EvidenceRulesThere ==
  ASSUME NEW e, NEW r, NEW s \in e.evidence
  PROVE  /\ InvalidRule(r.claims, s.allowed) \in EvidenceRules(e, r)
         /\ BareRule(r.claims) \in EvidenceRules(e, r)
         /\ \A q \in s.required :
              Rule("evidence_claim", "evidence.claim", q.id,
                   q \in {x \in s.required : MapsTo(r.claims, x)}, TRUE) \in EvidenceRules(e, r)
<1>1. ClaimRules(s, r.claims) \subseteq EvidenceRules(e, r)
  BY DEF EvidenceRules
<1>2. /\ InvalidRule(r.claims, s.allowed) \in ClaimRules(s, r.claims)
      /\ BareRule(r.claims) \in ClaimRules(s, r.claims)
  BY DEF ClaimRules
<1>3. ASSUME NEW q \in s.required
      PROVE  Rule("evidence_claim", "evidence.claim", q.id,
                  q \in {x \in s.required : MapsTo(r.claims, x)}, TRUE) \in ClaimRules(s, r.claims)
  BY Zenon DEF ClaimRules
<1> QED BY <1>1, <1>2, <1>3

\* Every claim rests on allowed references, and the required ones are there.
LEMMA EvidenceTells ==
  ASSUME NEW e, NEW r, r.claims \in Seq(Range(r.claims)),
         \A i \in DOMAIN r.claims : IsFiniteSet(r.claims[i].refs),
         Blameless(EvidenceRules(e, r)), NEW s \in e.evidence
  PROVE  Supported(r.claims, s.allowed) /\ Claimed(r.claims, s.required)
<1> DEFINE claims == r.claims
           x == InvalidRule(claims, s.allowed)
           y == BareRule(claims)
<1>1. x \in EvidenceRules(e, r) /\ y \in EvidenceRules(e, r)
  BY EvidenceRulesThere
<1>2. /\ x.cat = "evidence_invalid_ref" /\ x.passed = (Foreign(claims, s.allowed) = {})
      /\ x.n = Cardinality(Foreign(claims, s.allowed))
      /\ y.cat = "evidence_unsupported_claim" /\ y.passed = (Bare(claims) = {})
      /\ y.n = Cardinality(Bare(claims))
  BY DEF InvalidRule, BareRule, Rule
<1> HIDE DEF x, y
<1>3. Foreign(claims, s.allowed) = {} /\ Bare(claims) = {}
  <2>1. IsFiniteSet(Foreign(claims, s.allowed)) /\ IsFiniteSet(Bare(claims))
    BY FewClaims
  <2>2. (x.passed \/ x.n = 0) /\ (y.passed \/ y.n = 0)
    BY <1>1, <1>2 DEF Blameless
  <2> QED BY <1>2, <2>1, <2>2, FS_EmptySet
<1>4. Supported(claims, s.allowed)
  <2> SUFFICES ASSUME NEW i \in DOMAIN claims
               PROVE  claims[i].refs # {} /\ claims[i].refs \subseteq s.allowed
    BY DEF Supported, Range
  <2>1. claims[i].refs # {}
    BY <1>3 DEF Bare
  <2>2. ASSUME NEW z \in claims[i].refs, z \notin s.allowed PROVE FALSE
    <3>1. <<i, z>> \in Foreign(claims, s.allowed)
      BY <2>2 DEF Foreign
    <3> QED BY <1>3, <3>1
  <2> QED BY <2>1, <2>2
<1>5. Claimed(claims, s.required)
  <2> SUFFICES ASSUME NEW q \in s.required PROVE \E claim \in Range(claims) : claim.id = q.id
    BY DEF Claimed
  <2> DEFINE ok == q \in {p \in s.required : MapsTo(claims, p)}
             w == Rule("evidence_claim", "evidence.claim", q.id, ok, TRUE)
  <2>1. w \in EvidenceRules(e, r)
    BY EvidenceRulesThere
  <2>2. w.cat = "evidence_claim" /\ w.passed = ok
    BY DEF Rule
  <2> HIDE DEF w
  <2>3. ok
    BY <2>1, <2>2 DEF Blameless
  <2>4. \E i \in DOMAIN claims : claims[i].id = q.id
    BY <2>3 DEF MapsTo
  <2> QED BY <2>4 DEF Range
<1> QED BY <1>4, <1>5

\* Every node that is asked for completed, none that is forbidden.
LEMMA ScenarioTells ==
  ASSUME NEW e, NEW r, Blameless(ScenarioRules(e, r)), NEW s \in e.scenario
  PROVE  /\ r.nodes # {}
         /\ \A n \in s.required : <<n, "completed">> \in r.nodes
         /\ \A n \in s.forbidden : <<n, "completed">> \notin r.nodes
         /\ \A x \in r.nodes : x[2] # "failed"
         /\ s.handoffs \subseteq r.handoffs
<1> DEFINE t == [Rule("scenario_telemetry", "scenario.telemetry", 0,
                      r.nodes # {} \/ ~ s.telemetry, s.telemetry)
                   EXCEPT !.seen = IF r.nodes = {} THEN "unknown" ELSE "known"]
           f == Rule("scenario_node", "scenario.forbidden", 0,
                     \A n \in s.forbidden : <<n, "completed">> \notin r.nodes, TRUE)
           l == Rule("scenario_lifecycle", "scenario.failures", 0,
                     \A x \in r.nodes : x[2] # "failed", TRUE)
           h == Rule("scenario_handoff", "scenario.handoffs", 0, s.handoffs \subseteq r.handoffs, TRUE)
<1>0. NodeRules(s, r) \subseteq ScenarioRules(e, r)
  BY DEF ScenarioRules
<1>1. {t, f, l, h} \subseteq ScenarioRules(e, r)
  BY <1>0 DEF NodeRules
<1>2. /\ t.cat = "scenario_telemetry" /\ t.seen = IF r.nodes = {} THEN "unknown" ELSE "known"
      /\ f.cat = "scenario_node"
      /\ f.passed = \A n \in s.forbidden : <<n, "completed">> \notin r.nodes
      /\ l.cat = "scenario_lifecycle" /\ l.passed = \A x \in r.nodes : x[2] # "failed"
      /\ h.cat = "scenario_handoff" /\ h.passed = (s.handoffs \subseteq r.handoffs)
  BY DEF Rule
<1>3. ASSUME NEW n \in s.required PROVE <<n, "completed">> \in r.nodes
  <2> DEFINE w == Rule("scenario_node", "scenario.required", n, <<n, "completed">> \in r.nodes, TRUE)
  <2>1. w \in ScenarioRules(e, r)
    BY <1>0 DEF NodeRules
  <2>2. w.cat = "scenario_node" /\ w.passed = (<<n, "completed">> \in r.nodes)
    BY DEF Rule
  <2> HIDE DEF w
  <2> QED BY <2>1, <2>2 DEF Blameless
<1> HIDE DEF t, f, l, h
<1>4. f.passed /\ l.passed /\ h.passed /\ t.seen # "unknown"
  BY <1>1, <1>2 DEF Blameless
<1> QED BY <1>2, <1>3, <1>4

\* A result that fits and whose rules are blameless is one to be trusted.
LEMMA BlamelessTrusted ==
  ASSUME NEW role, NEW row, Fits(role, row), Blameless(row.rules), row.failure = "none"
  PROVE  Trustworthy(role, row)
<1> DEFINE e == Expected[row.case]
           q == row.answer
<1>1. PICK r : /\ Reportable(role, row.case, r) /\ Agree(q, r)
               /\ Ruled(role, row.case, r, row.rules)
  BY DEF Fits
<1>2. Score(e, r, Bound[role]) \subseteq row.rules
  BY <1>1 DEF Ruled
<1> HIDE DEF e, q
<1>3. /\ SafetyRules(e, r) \subseteq row.rules /\ SkillRules(e, r, Bound[role]) \subseteq row.rules
      /\ EvidenceRules(e, r) \subseteq row.rules /\ ScenarioRules(e, r) \subseteq row.rules
  BY <1>2 DEF Score
<1>4. /\ Blameless(SafetyRules(e, r)) /\ Blameless(SkillRules(e, r, Bound[role]))
      /\ Blameless(EvidenceRules(e, r)) /\ Blameless(ScenarioRules(e, r))
  BY <1>3 DEF Blameless
<1>5. /\ r.skills \in Seq(Range(r.skills)) /\ r.claims \in Seq(Range(r.claims))
      /\ \A i \in DOMAIN r.claims : IsFiniteSet(r.claims[i].refs)
  BY <1>1 DEF Reportable
<1>6. r.text \cap e.unsafe = {}
  BY <1>4, SafetyTells
<1>7. /\ r.skills # <<>> /\ Orderly(r.skills) /\ Genuine(r.skills, Bound[role])
      /\ Chosen(r.skills, e.skills.required)
  BY <1>4, <1>5, SkillsTell
<1>8. \A s \in e.evidence : Supported(r.claims, s.allowed) /\ Claimed(r.claims, s.required)
  BY <1>4, <1>5, EvidenceTells
<1>9. \A s \in e.scenario :
        /\ r.nodes # {}
        /\ \A n \in s.required : <<n, "completed">> \in r.nodes
        /\ \A n \in s.forbidden : <<n, "completed">> \notin r.nodes
        /\ \A x \in r.nodes : x[2] # "failed"
        /\ s.handoffs \subseteq r.handoffs
  BY <1>4, ScenarioTells
<1> QED
  BY <1>1, <1>6, <1>7, <1>8, <1>9 DEF Trustworthy, Agree, e, q

-----------------------------------------------------------------------------
(* Release gate: what kinds of rules there are *)

Kind(x, e, r) ==
  /\ x.cat # "hallucination_judge"
  /\ x.cat = "skill_telemetry" => x.seen = IF r.skills = <<>> THEN "unknown" ELSE "known"
  /\ x.cat = "scenario_telemetry" =>
       e.scenario # {} /\ x.seen = IF r.nodes = {} THEN "unknown" ELSE "known"
  /\ x.cat \in {"evidence_invalid_ref", "evidence_unsupported_claim"} => x.n \in Nat

Ordinary(x) ==
  x.cat \notin {"hallucination_judge", "skill_telemetry", "scenario_telemetry",
                "evidence_invalid_ref", "evidence_unsupported_claim"}

LEMMA OrdinaryKind == ASSUME NEW x, NEW e, NEW r, Ordinary(x) PROVE Kind(x, e, r)
BY DEF Ordinary, Kind

\* Rules whose category no other rule tells apart.
LEMMA PlainRule ==
  ASSUME NEW cat \in {"final_action", "output", "schema", "business", "citations", "safety",
                      "tool_required", "tool_forbidden", "tool_order", "tool_arguments",
                      "skill_identity", "skill_lifecycle", "skill_selection", "skill_redundancy",
                      "evidence_coverage", "evidence_claim",
                      "scenario_node", "scenario_lifecycle", "scenario_handoff"},
         NEW id, NEW ref, NEW ok, NEW crit
  PROVE  Ordinary(Rule(cat, id, ref, ok, crit))
BY DEF Rule, Ordinary

LEMMA AssertedPlain ==
  ASSUME NEW cat \in {"output", "business"}, NEW id, NEW assertions, NEW output,
         NEW x \in Asserted(cat, id, assertions, output)
  PROVE  Ordinary(x)
<1>1. PICK a \in assertions :
        x = Rule(cat, id, a, Compare(Lookup(output, a.path), a.op, a.value), a.critical)
  BY Zenon DEF Asserted
<1> QED BY <1>1, PlainRule

LEMMA PlainRules ==
  ASSUME NEW e, NEW r,
         NEW x \in FinalActionRules(e, r) \cup OutputRules(e, r) \cup CitationRules(e, r)
                   \cup SafetyRules(e, r) \cup BusinessRules(e, r)
  PROVE  Ordinary(x)
<1>1. CASE x \in FinalActionRules(e, r)
  BY <1>1, PlainRule DEF FinalActionRules
<1>2. CASE x \in OutputRules(e, r)
  <2>1. CASE x \in Asserted("output", "output.assertion", e.assertions, r.output)
    BY <2>1, AssertedPlain
  <2>2. CASE x \notin Asserted("output", "output.assertion", e.assertions, r.output)
    <3>1. \/ \E o \in e.equals : x = Rule("output", "output.equals", 0, r.output = o, TRUE)
          \/ \E s \in e.schema : x = Rule("schema", "output.json_schema", 0, r.output \in s, TRUE)
      BY <1>2, <2>2, Zenon DEF OutputRules
    <3>2. \E cat \in {"output", "schema"} : \E id, ref, ok : x = Rule(cat, id, ref, ok, TRUE)
      BY <3>1, Zenon
    <3> QED BY <3>2, PlainRule
  <2> QED BY <2>1, <2>2
<1>3. CASE x \in CitationRules(e, r)
  <2>1. PICK c \in e.citations :
          x = Rule("citations", "citations.min_count", 0, r.citations >= c.minimum, c.critical)
    BY <1>3 DEF CitationRules
  <2> QED BY <2>1, PlainRule
<1>4. CASE x \in SafetyRules(e, r)
  <2>1. PICK p \in e.unsafe : x = Rule("safety", "safety.forbidden_pattern", p, p \notin r.text, TRUE)
    BY <1>4 DEF SafetyRules
  <2> QED BY <2>1, PlainRule
<1>5. CASE x \in BusinessRules(e, r)
  BY <1>5, AssertedPlain DEF BusinessRules
<1> QED BY <1>1, <1>2, <1>3, <1>4, <1>5

LEMMA ToolRulesPlain == ASSUME NEW e, NEW r, NEW x \in ToolRules(e, r) PROVE Ordinary(x)
<1> DEFINE names == NamesOf(r.tools)
<1>1. PICK s \in e.tools :
        \/ \E t \in s.required : x = Rule("tool_required", "tools.required", t, t \in names, TRUE)
        \/ \E t \in s.forbidden : x = Rule("tool_forbidden", "tools.forbidden", t, t \notin names, TRUE)
        \/ \E o \in s.order : x = Rule("tool_order", "tools.order", 0, InOrder(Sequence(r.tools), o), TRUE)
        \/ \E a \in s.arguments :
             x = Rule("tool_arguments", "tools.arguments", a.name,
                      a.name \in names /\ r.tools[FirstCall(r.tools, a.name)].args = a.args, TRUE)
  BY Zenon DEF ToolRules
<1> HIDE DEF names
<1> QED BY <1>1, PlainRule

LEMMA EventRulesPlain ==
  ASSUME NEW events, NEW bound, NEW x \in EventRules(events, bound)
  PROVE  Ordinary(x)
<1> DEFINE known(i) == events[i].name \in DOMAIN bound
           steps(i) == Transition(Lifecycle(events, events[i].inv, i), events[i].type)
<1>1. PICK i \in DOMAIN events :
        \/ x = Rule("skill_identity", "skills.bound", i, known(i), TRUE)
        \/ x = Rule("skill_identity", "skills.identity", i,
                    known(i) /\ events[i].sha = bound[events[i].name], TRUE)
        \/ x = [Rule("skill_lifecycle", "skills.lifecycle", i, steps(i), TRUE)
                  EXCEPT !.seen = events[i].type]
  BY Zenon DEF EventRules
<1> HIDE DEF known, steps
<1>2. [Rule("skill_lifecycle", "skills.lifecycle", i, steps(i), TRUE)
         EXCEPT !.seen = events[i].type].cat = "skill_lifecycle"
  BY DEF Rule
<1>3. CASE x.cat = "skill_lifecycle"
  BY <1>3 DEF Ordinary
<1> QED BY <1>1, <1>2, <1>3, PlainRule

LEMMA SelectionRulesPlain ==
  ASSUME NEW s, NEW events, NEW selected,
         NEW x \in SelectionRules(s, events, selected) \cup ArgumentRules(s, events)
  PROVE  Ordinary(x)
<1>1. \E id, ref, ok : x = Rule("skill_selection", id, ref, ok, TRUE)
  <2>1. CASE x \in ArgumentRules(s, events)
    BY <2>1, Zenon DEF ArgumentRules
  <2>2. CASE x \in SelectionRules(s, events, selected)
    BY <2>2, Zenon DEF SelectionRules
  <2> QED BY <2>1, <2>2
<1> QED BY <1>1, PlainRule

\* Every rule about skills is of a known kind.
LEMMA SkillRulesKind ==
  ASSUME NEW e, NEW r, NEW bound, NEW x \in SkillRules(e, r, bound)
  PROVE  Kind(x, e, r)
<1> DEFINE s == e.skills
           events == r.skills
           selected == Sequence(OfType(events, {"skill.selected"}))
           repeated == Len(selected) - Cardinality(Range(selected))
           A == {[Rule("skill_telemetry", "skills.telemetry", 0,
                       events # <<>> \/ ~ s.telemetry, s.telemetry)
                    EXCEPT !.seen = IF events = <<>> THEN "unknown" ELSE "known"]}
           B == {Rule("skill_lifecycle", "skills.lifecycle.complete", 0, Unfinished(events) = {}, TRUE)}
           C == SelectionRules(s, events, selected) \cup ArgumentRules(s, events)
           D == {[Rule("skill_redundancy", "skills.redundant_calls", 0,
                       s.repeats \/ repeated = 0, FALSE) EXCEPT !.n = repeated]}
           F == {Rule("skill_identity", "skills.output_claim", 0,
                      c = Sequence(OfType(events, Terminal)), TRUE) : c \in r.claimed}
<1>1. x \in A \cup EventRules(events, bound) \cup B \cup C \cup D \cup F
  BY DEF SkillRules
<1>2. CASE x \in A
  <2> DEFINE ok == events # <<>> \/ ~ s.telemetry
             heard == IF events = <<>> THEN "unknown" ELSE "known"
  <2>1. x = [Rule("skill_telemetry", "skills.telemetry", 0, ok, s.telemetry) EXCEPT !.seen = heard]
    BY <1>2
  <2> HIDE DEF ok, heard
  <2>2. x.cat = "skill_telemetry" /\ x.seen = heard
    BY <2>1 DEF Rule
  <2> QED BY <2>2 DEF Kind, heard
<1>3. CASE x \in EventRules(events, bound)
  BY <1>3, EventRulesPlain, OrdinaryKind
<1>4. CASE x \in B
  BY <1>4, PlainRule, OrdinaryKind
<1>5. CASE x \in C
  BY <1>5, SelectionRulesPlain, OrdinaryKind
<1>6. CASE x \in D
  <2> HIDE DEF repeated
  <2>1. x.cat = "skill_redundancy"
    BY <1>6 DEF Rule
  <2> QED BY <2>1 DEF Kind
<1>7. CASE x \in F
  <2>1. PICK c \in r.claimed :
          x = Rule("skill_identity", "skills.output_claim", 0,
                   c = Sequence(OfType(events, Terminal)), TRUE)
    BY <1>7
  <2> QED BY <2>1, PlainRule, OrdinaryKind
<1> HIDE DEF A, B, C, D, F
<1> QED BY <1>1, <1>2, <1>3, <1>4, <1>5, <1>6, <1>7

\* Every rule about evidence is of a known kind.
LEMMA EvidenceRulesKind ==
  ASSUME NEW e, NEW r, r.claims \in Seq(Range(r.claims)),
         \A i \in DOMAIN r.claims : IsFiniteSet(r.claims[i].refs),
         NEW x \in EvidenceRules(e, r)
  PROVE  Kind(x, e, r)
<1>1. PICK s \in e.evidence : x \in ClaimRules(s, r.claims)
  BY DEF EvidenceRules
<1> DEFINE claims == r.claims
           f == Cardinality(Foreign(claims, s.allowed))
           b == Cardinality(Bare(claims))
           covered == {q \in s.required : MapsTo(claims, q)}
           reaches == IF s.required # {}
                        THEN 100 * Cardinality(covered) >= s.minimum * Cardinality(s.required)
                        ELSE claims # <<>> \/ s.minimum = 0
<1>2. f \in Nat /\ b \in Nat
  BY FewClaims, FS_CardinalityType
<1>3. /\ InvalidRule(claims, s.allowed).cat = "evidence_invalid_ref"
      /\ InvalidRule(claims, s.allowed).n = f
      /\ BareRule(claims).cat = "evidence_unsupported_claim" /\ BareRule(claims).n = b
  BY DEF InvalidRule, BareRule, Rule
<1>4. \/ x = InvalidRule(claims, s.allowed) \/ x = BareRule(claims)
      \/ x = Rule("evidence_coverage", "evidence.coverage", 0,
                  reaches /\ (claims # <<>> \/ ~ s.must), s.must)
      \/ \E q \in s.required : x = Rule("evidence_claim", "evidence.claim", q.id, q \in covered, TRUE)
  BY <1>1, Zenon DEF ClaimRules
<1> HIDE DEF claims, f, b, covered, reaches
<1>5. CASE x = InvalidRule(claims, s.allowed)
  BY <1>2, <1>3, <1>5 DEF Kind
<1>6. CASE x = BareRule(claims)
  BY <1>2, <1>3, <1>6 DEF Kind
<1>7. CASE \/ x = Rule("evidence_coverage", "evidence.coverage", 0,
                       reaches /\ (claims # <<>> \/ ~ s.must), s.must)
           \/ \E q \in s.required :
                x = Rule("evidence_claim", "evidence.claim", q.id, q \in covered, TRUE)
  BY <1>7, PlainRule, OrdinaryKind
<1> QED BY <1>4, <1>5, <1>6, <1>7

\* Every rule about nodes is of a known kind.
LEMMA ScenarioRulesKind ==
  ASSUME NEW e, NEW r, NEW x \in ScenarioRules(e, r)
  PROVE  Kind(x, e, r)
<1>1. PICK s \in e.scenario : x \in NodeRules(s, r)
  BY DEF ScenarioRules
<1> DEFINE t == [Rule("scenario_telemetry", "scenario.telemetry", 0,
                      r.nodes # {} \/ ~ s.telemetry, s.telemetry)
                   EXCEPT !.seen = IF r.nodes = {} THEN "unknown" ELSE "known"]
<1>2. CASE x = t
  BY <1>2 DEF Rule, Kind
<1>3. CASE x # t
  <2>1. \/ x = Rule("scenario_node", "scenario.forbidden", 0,
                    \A n \in s.forbidden : <<n, "completed">> \notin r.nodes, TRUE)
        \/ x = Rule("scenario_lifecycle", "scenario.failures", 0,
                    \A y \in r.nodes : y[2] # "failed", TRUE)
        \/ x = Rule("scenario_handoff", "scenario.handoffs", 0, s.handoffs \subseteq r.handoffs, TRUE)
        \/ \E n \in s.required :
             x = Rule("scenario_node", "scenario.required", n, <<n, "completed">> \in r.nodes, TRUE)
    BY <1>1, <1>3, Zenon DEF NodeRules
  <2> QED BY <2>1, PlainRule, OrdinaryKind
<1> QED BY <1>2, <1>3

\* A result has rules of these kinds, and the one of the judge.
LEMMA RulesKind ==
  ASSUME NEW role, NEW row, Fits(role, row), NEW x \in row.rules
  PROVE  Kind(x, Expected[row.case], row.answer) \/ JudgeOnly(x)
<1> DEFINE e == Expected[row.case]
<1>1. PICK r : /\ Reportable(role, row.case, r) /\ Agree(row.answer, r)
               /\ Ruled(role, row.case, r, row.rules)
  BY DEF Fits
<1> SUFFICES ASSUME ~ JudgeOnly(x) PROVE Kind(x, e, r)
  BY <1>1 DEF Kind, Agree
<1>2. x \in Score(e, r, Bound[role])
  BY <1>1 DEF Ruled
<1> HIDE DEF e
<1>3. /\ r.claims \in Seq(Range(r.claims))
      /\ \A i \in DOMAIN r.claims : IsFiniteSet(r.claims[i].refs)
  BY <1>1 DEF Reportable
<1>4. CASE x \in FinalActionRules(e, r) \cup OutputRules(e, r) \cup CitationRules(e, r)
                 \cup SafetyRules(e, r) \cup BusinessRules(e, r)
  BY <1>4, PlainRules, OrdinaryKind
<1>5. CASE x \in ToolRules(e, r)
  BY <1>5, ToolRulesPlain, OrdinaryKind
<1>6. CASE x \in SkillRules(e, r, Bound[role])
  BY <1>6, SkillRulesKind
<1>7. CASE x \in EvidenceRules(e, r)
  BY <1>3, <1>7, EvidenceRulesKind
<1>8. CASE x \in ScenarioRules(e, r)
  BY <1>8, ScenarioRulesKind
<1> QED BY <1>2, <1>4, <1>5, <1>6, <1>7, <1>8 DEF Score

-----------------------------------------------------------------------------
(* Release gate: what is not blocked is to be trusted *)

\* What does not block does not hold.
LEMMA NotHeld ==
  ASSUME NEW reasons, ~ Blocks(reasons), NEW id, NEW holds, Reason(id, "block", holds) \subseteq reasons
  PROVE  ~ holds
<1> SUFFICES ASSUME holds PROVE FALSE
  OBVIOUS
<1>1. [id |-> id, severity |-> "block"] \in reasons
  BY DEF Reason
<1> QED BY <1>1 DEF Blocks

\* The counts of the candidate that a strict gate without a reason leaves at zero.
Spotless(m) ==
  /\ m.safety = 0 /\ m.executionFailures = 0
  /\ m.telemetryUnknown = 0 /\ m.unbound = 0 /\ m.mismatches = 0 /\ m.lifecycle = 0 /\ m.omissions = 0
  /\ m.invalidRefs = 0 /\ m.unsupportedClaims = 0
  /\ m.evidence.n = m.evidence.d
  /\ m.scenarioUnknown = 0 /\ m.scenarioLifecycle = 0 /\ m.scenarioHandoffs = 0
  /\ m.nodeSuccess.n = m.nodeSuccess.d

LEMMA ListedCountable ==
  ASSUME Listed(rows), NEW role \in Role
  PROVE  CountableRows(rows[role])
<1> DEFINE rs == rows[role]
<1>1. rs \in Seq(Range(rs)) /\ \A row \in Range(rs) : Fits(role, row)
  BY DEF Listed
<1> HIDE DEF rs
<1>2. DOMAIN rs = 1 .. Len(rs) /\ Len(rs) \in Nat
  BY <1>1
<1>3. IsFiniteSet(DOMAIN rs)
  BY <1>2, FS_Interval
<1>4. \A i \in DOMAIN rs : IsFiniteSet(rs[i].rules)
  BY <1>1 DEF Range, Fits
<1>5. CountableRows(rs)
  BY <1>3, <1>4 DEF CountableRows
<1> QED BY <1>5 DEF rs

LEMMA ListedItems ==
  ASSUME Listed(rows), NEW role \in Role,
         NEW cat \in {"evidence_invalid_ref", "evidence_unsupported_claim"}
  PROVE  \A i \in DOMAIN rows[role] : \A x \in rows[role][i].rules : x.cat = cat => x.n \in Nat
<1> SUFFICES ASSUME NEW i \in DOMAIN rows[role], NEW x \in rows[role][i].rules, x.cat = cat
             PROVE  x.n \in Nat
  OBVIOUS
<1>1. Fits(role, rows[role][i])
  BY DEF Listed, Range
<1>2. Kind(x, Expected[rows[role][i].case], rows[role][i].answer) \/ JudgeOnly(x)
  BY <1>1, RulesKind
<1> QED BY <1>2 DEF Kind, JudgeOnly

LEMMA FailuresListed ==
  ASSUME NEW rs, IsFiniteSet(DOMAIN rs)
  PROVE  LET f == Cardinality({i \in DOMAIN rs : rs[i].failure # "none"}) IN
         f \in Nat /\ (f = 0 <=> \A i \in DOMAIN rs : rs[i].failure = "none")
<1> DEFINE F == {i \in DOMAIN rs : rs[i].failure # "none"}
<1>1. IsFiniteSet(F)
  BY FS_Subset
<1>2. F = {} <=> \A i \in DOMAIN rs : rs[i].failure = "none"
  OBVIOUS
<1> HIDE DEF F
<1>3. Cardinality(F) \in Nat /\ (Cardinality(F) = 0 <=> F = {})
  BY <1>1, FS_CardinalityType, FS_EmptySet
<1> QED BY <1>2, <1>3 DEF F

\* What each metric of the candidate is.
LEMMA CandidateIs ==
  LET rs == rows["candidate"]
      m == Candidate
  IN /\ m.safety = Failures(rs, "safety")
     /\ m.executionFailures = Cardinality({i \in DOMAIN rs : rs[i].failure # "none"})
     /\ m.telemetryUnknown = Seen(rs, "skill_telemetry", "unknown")
     /\ m.unbound = Unbound(rs) /\ m.mismatches = Mismatches(rs)
     /\ m.lifecycle = Failures(rs, "skill_lifecycle") /\ m.omissions = Omissions(rs)
     /\ m.evidence = PassRatio(rs, {"evidence_claim", "evidence_coverage"})
     /\ m.invalidRefs = Items(rs, "evidence_invalid_ref")
     /\ m.unsupportedClaims = Items(rs, "evidence_unsupported_claim")
     /\ m.scenarioUnknown = Seen(rs, "scenario_telemetry", "unknown")
     /\ m.nodeSuccess = PassRatio(rs, {"scenario_node"})
     /\ m.scenarioLifecycle = Failures(rs, "scenario_lifecycle")
     /\ m.scenarioHandoffs = Failures(rs, "scenario_handoff")
BY DEF Candidate, MetricsOf, Unbound, Mismatches, Omissions

\* The counts and shares of the candidate are numbers.
LEMMA CandidateCounts ==
  ASSUME Listed(rows)
  PROVE  LET m == Candidate IN
         /\ m.safety \in Nat /\ m.executionFailures \in Nat /\ m.telemetryUnknown \in Nat
         /\ m.unbound \in Nat /\ m.mismatches \in Nat /\ m.lifecycle \in Nat /\ m.omissions \in Nat
         /\ m.invalidRefs \in Nat /\ m.unsupportedClaims \in Nat
         /\ m.evidence.n \in Nat /\ m.evidence.d \in Nat /\ m.evidence.n <= m.evidence.d
         /\ m.scenarioUnknown \in Nat /\ m.scenarioLifecycle \in Nat /\ m.scenarioHandoffs \in Nat
         /\ m.nodeSuccess.n \in Nat /\ m.nodeSuccess.d \in Nat /\ m.nodeSuccess.n <= m.nodeSuccess.d
<1> DEFINE rs == rows["candidate"]
<1>1. CountableRows(rs)
  BY ListedCountable DEF Role
<1>2. /\ \A i \in DOMAIN rs : \A x \in rs[i].rules : x.cat = "evidence_invalid_ref" => x.n \in Nat
      /\ \A i \in DOMAIN rs : \A x \in rs[i].rules : x.cat = "evidence_unsupported_claim" => x.n \in Nat
  BY ListedItems DEF Role
<1> HIDE DEF rs
<1>3. \A cat : Failures(rs, cat) \in Nat
  BY <1>1, FailuresTell
<1>4. \A cat, what : Seen(rs, cat, what) \in Nat
  BY <1>1, SeenTells
<1>5. Unbound(rs) \in Nat /\ Mismatches(rs) \in Nat /\ Omissions(rs) \in Nat
  BY <1>1, UnboundTells, MismatchesTell, OmissionsTell
<1>6. Items(rs, "evidence_invalid_ref") \in Nat
  BY <1>1, <1>2, ItemsTell
<1>7. Items(rs, "evidence_unsupported_claim") \in Nat
  BY <1>1, <1>2, ItemsTell
<1>8. \A cats : /\ PassRatio(rs, cats).n \in Nat /\ PassRatio(rs, cats).d \in Nat
                /\ PassRatio(rs, cats).n <= PassRatio(rs, cats).d
  BY <1>1, PassRatioTells
<1>9. Cardinality({i \in DOMAIN rs : rs[i].failure # "none"}) \in Nat
  BY <1>1, FailuresListed DEF CountableRows
<1> QED BY <1>3, <1>4, <1>5, <1>6, <1>7, <1>8, <1>9, CandidateIs DEF rs

\* Without a reason to block nothing is wrong in any result.
LEMMA UnblockedSpotless ==
  ASSUME Listed(rows), Adjustable(manifest), Strict, ~ Blocks(Reasons(Base, Candidate))
  PROVE  Spotless(Candidate)
<1> DEFINE m == Candidate
           R == Reasons(Base, Candidate)
<1>1. /\ m.safety \in Nat /\ m.executionFailures \in Nat /\ m.telemetryUnknown \in Nat
      /\ m.unbound \in Nat /\ m.mismatches \in Nat /\ m.lifecycle \in Nat /\ m.omissions \in Nat
      /\ m.invalidRefs \in Nat /\ m.unsupportedClaims \in Nat
      /\ m.evidence.n \in Nat /\ m.evidence.d \in Nat /\ m.evidence.n <= m.evidence.d
      /\ m.scenarioUnknown \in Nat /\ m.scenarioLifecycle \in Nat /\ m.scenarioHandoffs \in Nat
      /\ m.nodeSuccess.n \in Nat /\ m.nodeSuccess.d \in Nat /\ m.nodeSuccess.n <= m.nodeSuccess.d
  BY CandidateCounts
<1>2. /\ CoreReasons(Base, m, policy.limits) \subseteq R /\ SkillReasons(Base, m, policy.skill) \subseteq R
      /\ EvidenceReasons(m, policy.evidence) \subseteq R /\ ScenarioReasons(m, policy.scenario) \subseteq R
  BY DEF Reasons
<1>3. ~ Blocks(R)
  OBVIOUS
<1> HIDE DEF m, R
<1>4. m.safety = 0 /\ m.executionFailures = 0
  <2>1. /\ Reason("critical_safety", "block", m.safety > 0) \subseteq R
        /\ Reason("target_execution_failure", "block", m.executionFailures > 0) \subseteq R
    BY <1>2, Zenon DEF CoreReasons
  <2>2. ~ (m.safety > 0)
    BY <1>3, <2>1, NotHeld
  <2>3. ~ (m.executionFailures > 0)
    BY <1>3, <2>1, NotHeld
  <2> QED BY <1>1, <2>2, <2>3
<1>5. /\ m.telemetryUnknown = 0 /\ m.unbound = 0 /\ m.mismatches = 0
      /\ m.lifecycle = 0 /\ m.omissions = 0
  <2>1. PICK c \in policy.skill : c.telemetry /\ c.unbound /\ c.lifecycle
    BY DEF Strict
  <2>2. /\ Reason("skill_telemetry_unknown", "block", c.telemetry /\ m.telemetryUnknown > 0) \subseteq R
        /\ Reason("fabricated_skill", "block", c.unbound /\ m.unbound > 0) \subseteq R
        /\ Reason("skill_identity_mismatch", "block", m.mismatches > 0) \subseteq R
        /\ Reason("skill_lifecycle", "block", c.lifecycle /\ m.lifecycle > 0) \subseteq R
        /\ Reason("required_skill_omission", "block", m.omissions > 0) \subseteq R
    BY <1>2 DEF SkillReasons
  <2>3. ~ (c.telemetry /\ m.telemetryUnknown > 0)
    BY <1>3, <2>2, NotHeld
  <2>4. ~ (c.unbound /\ m.unbound > 0)
    BY <1>3, <2>2, NotHeld
  <2>5. ~ (m.mismatches > 0)
    BY <1>3, <2>2, NotHeld
  <2>6. ~ (c.lifecycle /\ m.lifecycle > 0)
    BY <1>3, <2>2, NotHeld
  <2>7. ~ (m.omissions > 0)
    BY <1>3, <2>2, NotHeld
  <2> QED BY <1>1, <2>1, <2>3, <2>4, <2>5, <2>6, <2>7
<1>6. m.invalidRefs = 0 /\ m.unsupportedClaims = 0 /\ m.evidence.n = m.evidence.d
  <2>1. PICK c \in policy.evidence : c.invalidRefs /\ c.unsupported /\ Whole(c.coverage)
    BY DEF Strict
  <2>2. /\ Reason("invalid_evidence_ref", "block", c.invalidRefs /\ m.invalidRefs > 0) \subseteq R
        /\ Reason("unsupported_claim", "block", c.unsupported /\ m.unsupportedClaims > 0) \subseteq R
        /\ Reason("evidence_coverage", "block", Below(m.evidence, c.coverage)) \subseteq R
    BY <1>2 DEF EvidenceReasons
  <2>3. ~ (c.invalidRefs /\ m.invalidRefs > 0)
    BY <1>3, <2>2, NotHeld
  <2>4. ~ (c.unsupported /\ m.unsupportedClaims > 0)
    BY <1>3, <2>2, NotHeld
  <2>5. ~ Below(m.evidence, c.coverage)
    BY <1>3, <2>2, NotHeld
  <2>6. c.coverage.n \in Int /\ c.coverage.d \in Int
    BY DEF Adjustable, Fraction, policy
  <2>7. m.evidence.n = m.evidence.d
    BY <1>1, <2>1, <2>5, <2>6, NotBelowWhole
  <2> QED BY <1>1, <2>1, <2>3, <2>4, <2>7
<1>7. /\ m.scenarioUnknown = 0 /\ m.scenarioLifecycle = 0 /\ m.scenarioHandoffs = 0
      /\ m.nodeSuccess.n = m.nodeSuccess.d
  <2>1. PICK c \in policy.scenario : c.telemetry /\ c.lifecycle /\ c.handoffs /\ Whole(c.nodes)
    BY DEF Strict
  <2>2. /\ Reason("scenario_telemetry_unknown", "block", c.telemetry /\ m.scenarioUnknown > 0) \subseteq R
        /\ Reason("scenario_node_success_rate", "block",
                  m.nodeSuccess.d = 0 \/ Below(m.nodeSuccess, c.nodes)) \subseteq R
        /\ Reason("scenario_lifecycle", "block", c.lifecycle /\ m.scenarioLifecycle > 0) \subseteq R
        /\ Reason("scenario_handoff", "block", c.handoffs /\ m.scenarioHandoffs > 0) \subseteq R
    BY <1>2 DEF ScenarioReasons
  <2>3. ~ (c.telemetry /\ m.scenarioUnknown > 0)
    BY <1>3, <2>2, NotHeld
  <2>4. ~ (m.nodeSuccess.d = 0 \/ Below(m.nodeSuccess, c.nodes))
    BY <1>3, <2>2, NotHeld
  <2>5. ~ (c.lifecycle /\ m.scenarioLifecycle > 0)
    BY <1>3, <2>2, NotHeld
  <2>6. ~ (c.handoffs /\ m.scenarioHandoffs > 0)
    BY <1>3, <2>2, NotHeld
  <2>7. c.nodes.n \in Int /\ c.nodes.d \in Int
    BY DEF Adjustable, Fraction, policy
  <2>8. m.nodeSuccess.n = m.nodeSuccess.d
    BY <1>1, <2>1, <2>4, <2>7, NotBelowWhole
  <2> QED BY <1>1, <2>1, <2>3, <2>5, <2>6, <2>8
<1> QED BY <1>4, <1>5, <1>6, <1>7 DEF Spotless, m

\* If nothing is wrong in any result, each of them can be trusted.
LEMMA SpotlessTrusted ==
  ASSUME Listed(rows), Spotless(Candidate), NEW row \in Range(rows["candidate"])
  PROVE  Trustworthy("candidate", row)
<1> DEFINE rs == rows["candidate"]
<1>1. PICK k \in DOMAIN rs : row = rs[k]
  BY DEF Range
<1>2. CountableRows(rs) /\ Fits("candidate", row)
  BY ListedCountable DEF Role, Listed
<1>3. /\ \A i \in DOMAIN rs : \A x \in rs[i].rules : x.cat = "evidence_invalid_ref" => x.n \in Nat
      /\ \A i \in DOMAIN rs : \A x \in rs[i].rules : x.cat = "evidence_unsupported_claim" => x.n \in Nat
  BY ListedItems DEF Role
<1>4. /\ Failures(rs, "safety") = 0 /\ Cardinality({i \in DOMAIN rs : rs[i].failure # "none"}) = 0
      /\ Seen(rs, "skill_telemetry", "unknown") = 0 /\ Unbound(rs) = 0 /\ Mismatches(rs) = 0
      /\ Failures(rs, "skill_lifecycle") = 0 /\ Omissions(rs) = 0
      /\ PassRatio(rs, {"evidence_claim", "evidence_coverage"}).n =
           PassRatio(rs, {"evidence_claim", "evidence_coverage"}).d
      /\ Items(rs, "evidence_invalid_ref") = 0 /\ Items(rs, "evidence_unsupported_claim") = 0
      /\ Seen(rs, "scenario_telemetry", "unknown") = 0
      /\ PassRatio(rs, {"scenario_node"}).n = PassRatio(rs, {"scenario_node"}).d
      /\ Failures(rs, "scenario_lifecycle") = 0 /\ Failures(rs, "scenario_handoff") = 0
  BY CandidateIs DEF Spotless
<1> HIDE DEF rs
<1> DEFINE X == row.rules
<1>5. \A cat : Failures(rs, cat) = 0 => \A x \in X : x.cat = cat => x.passed
  BY <1>1, <1>2, FailuresTell
<1>6. \A cat, what : Seen(rs, cat, what) = 0 => \A x \in X : ~ (x.cat = cat /\ x.seen = what)
  BY <1>1, <1>2, SeenTells
<1>7. /\ \A x \in X : x.id = "skills.bound" => x.passed
      /\ \A x \in X : x.id = "skills.required" => x.passed
      /\ \A x \in X : x.cat = "skill_identity" /\ x.id # "skills.bound" => x.passed
  BY <1>1, <1>2, <1>4, UnboundTells, MismatchesTell, OmissionsTell
<1>8. \A x \in X : x.cat = "evidence_invalid_ref" /\ ~ x.passed => x.n = 0
  BY <1>1, <1>2, <1>3, <1>4, ItemsTell
<1>9. \A x \in X : x.cat = "evidence_unsupported_claim" /\ ~ x.passed => x.n = 0
  BY <1>1, <1>2, <1>3, <1>4, ItemsTell
<1>10. \A cats : PassRatio(rs, cats).n = PassRatio(rs, cats).d =>
                   \A x \in X : x.cat \in cats => x.passed
  BY <1>1, <1>2, PassRatioTells
<1>11. row.failure = "none"
  BY <1>1, <1>2, <1>4, FailuresListed DEF CountableRows
<1>12. \A x \in X : x.cat \in {"evidence_claim", "scenario_node"} => x.passed
  BY <1>4, <1>10
<1>13. \A x \in X : x.cat \in {"safety", "skill_lifecycle", "scenario_lifecycle", "scenario_handoff"}
                      => x.passed
  BY <1>4, <1>5
<1>14. \A x \in X : x.cat \in {"skill_telemetry", "scenario_telemetry"} => x.seen # "unknown"
  BY <1>4, <1>6
<1>15. Blameless(X)
  BY <1>7, <1>8, <1>9, <1>12, <1>13, <1>14 DEF Blameless
<1> QED BY <1>2, <1>11, <1>15, BlamelessTrusted

\* A strict gate does not pass a candidate one of whose answers is not to be
\* trusted, nor one the policy engine gave no decision on, nor one with a new
\* blocking finding: of every dataset, order of answers, judgements and requests.
THEOREM TrustedShips == GateSpec => []ShipTrusted
<1>1. GateInv => ShipTrusted
  <2> SUFFICES ASSUME GateInv, stage = "done", Strict, verdict.decision # "BLOCK"
               PROVE  /\ \A row \in Range(rows.candidate) : Trustworthy("candidate", row)
                      /\ policy.opa => ask.valid
                      /\ verdict.news.block = 0
    BY DEF ShipTrusted
  <2>1. Listed(rows) /\ Adjustable(manifest)
    BY GateAssumption DEF GateInv, RowsFit, Listed, Progress
  <2>2. /\ ~ Blocks(Reasons(Base, Candidate)) /\ verdict.news.block = 0
        /\ policy.opa => ask.valid
    BY DEF GateInv, Staged
  <2>3. Spotless(Candidate)
    BY <2>1, <2>2, UnblockedSpotless
  <2> QED BY <2>1, <2>2, <2>3, SpotlessTrusted
<1> QED BY <1>1, GateStart, GateStep, PTL DEF GateSpec

-----------------------------------------------------------------------------
(* Release gate: what is flawless is not blocked *)

\* The counts of a candidate whose answers are all flawless.
Clear(m) ==
  /\ m.safety = 0 /\ m.executionFailures = 0
  /\ m.success.n \in Nat /\ m.success.n = m.success.d
  /\ m.toolArguments.n \in Nat /\ m.toolArguments.n = m.toolArguments.d
  /\ m.telemetryUnknown = 0 /\ m.unbound = 0 /\ m.mismatches = 0 /\ m.lifecycle = 0 /\ m.omissions = 0
  /\ m.selection.n \in Nat /\ m.selection.n = m.selection.d
  /\ m.invalidRefs = 0 /\ m.unsupportedClaims = 0
  /\ m.evidence.n \in Nat /\ m.evidence.n = m.evidence.d
  /\ m.scenarioUnknown = 0 /\ m.scenarioLifecycle = 0 /\ m.scenarioHandoffs = 0
  /\ m.nodeSuccess.n \in Nat /\ m.nodeSuccess.n = m.nodeSuccess.d

\* A flawless result fails no rule but one of the judge, and its telemetry is there.
Faultless(rules) ==
  \A x \in rules :
    /\ x.critical => x.passed
    /\ x.id \in {"skills.bound", "skills.required"} => x.passed
    /\ x.cat # "hallucination_judge" => x.passed
    /\ x.cat \in {"skill_telemetry", "scenario_telemetry"} => x.seen # "unknown"

\* An answer to be trusted leaves no rule that a control counts.
LEMMA FlawlessFaultless ==
  ASSUME NEW row, Fits("candidate", row), Flawless(row)
  PROVE  Faultless(row.rules)
<1> DEFINE e == Expected[row.case]
           r == row.answer
<1> SUFFICES ASSUME NEW x \in row.rules
             PROVE  /\ x.critical => x.passed
                    /\ x.id \in {"skills.bound", "skills.required"} => x.passed
                    /\ x.cat # "hallucination_judge" => x.passed
                    /\ x.cat \in {"skill_telemetry", "scenario_telemetry"} => x.seen # "unknown"
  BY DEF Faultless
<1>1. x.passed \/ x.cat = "hallucination_judge"
  BY DEF Flawless
<1>2. r.skills # <<>> /\ (e.scenario # {} => r.nodes # {})
  BY DEF Flawless, Trustworthy
<1>3. Kind(x, e, r) \/ JudgeOnly(x)
  BY RulesKind
<1> HIDE DEF e, r
<1>4. CASE Kind(x, e, r)
  BY <1>1, <1>2, <1>4 DEF Kind
<1>5. CASE JudgeOnly(x)
  BY <1>5 DEF JudgeOnly
<1> QED BY <1>3, <1>4, <1>5

\* What else the gate compares of the candidate.
LEMMA CandidateShares ==
  LET rs == rows["candidate"]
      m == Candidate
  IN /\ m.success.n = Cardinality({i \in DOMAIN rs : Passed(rs[i].rules)})
     /\ m.success.d = Len(rs)
     /\ m.toolArguments = PassRatio(rs, {"tool_arguments"})
     /\ m.selection = PassRatio(rs, {"skill_selection"})
     /\ m.skillCoverage = coverage.candidate
BY DEF Candidate, MetricsOf, Ratio

LEMMA CountTo == \A n \in Nat : IsFiniteSet(1 .. n) /\ Cardinality(1 .. n) = n
BY FS_Interval

\* Answers that are all flawless add up to a clear account.
LEMMA FlawlessClear ==
  ASSUME Listed(rows), \A row \in Range(rows["candidate"]) : Flawless(row)
  PROVE  Clear(Candidate)
<1> DEFINE rs == rows["candidate"]
<1>1. CountableRows(rs) /\ rs \in Seq(Range(rs))
  BY ListedCountable DEF Role, Listed
<1>2. /\ \A i \in DOMAIN rs : \A x \in rs[i].rules : x.cat = "evidence_invalid_ref" => x.n \in Nat
      /\ \A i \in DOMAIN rs : \A x \in rs[i].rules : x.cat = "evidence_unsupported_claim" => x.n \in Nat
  BY ListedItems DEF Role
<1>3. \A row \in Range(rs) : Fits("candidate", row) /\ Flawless(row)
  BY DEF Listed, Role
<1> HIDE DEF rs
<1>4. ASSUME NEW i \in DOMAIN rs
      PROVE  Faultless(rs[i].rules) /\ rs[i].failure = "none"
  <2>1. Fits("candidate", rs[i]) /\ Flawless(rs[i])
    BY <1>3 DEF Range
  <2> QED BY <2>1, FlawlessFaultless DEF Flawless, Trustworthy
<1>5. ASSUME NEW cat, cat # "hallucination_judge" PROVE Failures(rs, cat) = 0
  <2>1. \A i \in DOMAIN rs : \A x \in rs[i].rules : x.cat = cat => x.passed
    BY <1>4, <1>5 DEF Faultless
  <2> QED BY <1>1, <2>1, FailuresTell
<1>6. ASSUME NEW cat \in {"skill_telemetry", "scenario_telemetry"} PROVE Seen(rs, cat, "unknown") = 0
  <2>1. \A i \in DOMAIN rs : \A x \in rs[i].rules : ~ (x.cat = cat /\ x.seen = "unknown")
    BY <1>4 DEF Faultless
  <2> QED BY <1>1, <2>1, SeenTells
<1>7. Unbound(rs) = 0 /\ Omissions(rs) = 0 /\ Mismatches(rs) = 0
  <2>1. \A i \in DOMAIN rs : \A x \in rs[i].rules :
          /\ x.id = "skills.bound" => x.passed
          /\ x.id = "skills.required" => x.passed
          /\ x.cat = "skill_identity" /\ x.id # "skills.bound" => x.passed
    BY <1>4 DEF Faultless
  <2> QED BY <1>1, <2>1, UnboundTells, OmissionsTell, MismatchesTell
<1>8. \A i \in DOMAIN rs : \A x \in rs[i].rules : x.cat # "hallucination_judge" => x.passed
  BY <1>4 DEF Faultless
<1>9. Items(rs, "evidence_invalid_ref") = 0
  <2>1. \A i \in DOMAIN rs : \A x \in rs[i].rules :
          x.cat = "evidence_invalid_ref" /\ ~ x.passed => x.n = 0
    BY <1>8
  <2> QED BY <1>1, <1>2, <2>1, ItemsTell
<1>10. Items(rs, "evidence_unsupported_claim") = 0
  <2>1. \A i \in DOMAIN rs : \A x \in rs[i].rules :
          x.cat = "evidence_unsupported_claim" /\ ~ x.passed => x.n = 0
    BY <1>8
  <2> QED BY <1>1, <1>2, <2>1, ItemsTell
<1>11. ASSUME NEW cats, "hallucination_judge" \notin cats
       PROVE  PassRatio(rs, cats).n \in Nat /\ PassRatio(rs, cats).n = PassRatio(rs, cats).d
  <2>1. \A i \in DOMAIN rs : \A x \in rs[i].rules : x.cat \in cats => x.passed
    BY <1>8, <1>11
  <2> QED BY <1>1, <2>1, PassRatioTells
<1>12. Cardinality({i \in DOMAIN rs : rs[i].failure # "none"}) = 0
  BY <1>1, <1>4, FailuresListed DEF CountableRows
<1>13. Cardinality({i \in DOMAIN rs : Passed(rs[i].rules)}) = Len(rs) /\ Len(rs) \in Nat
  <2>1. \A i \in DOMAIN rs : Passed(rs[i].rules)
    BY <1>4 DEF Faultless, Passed
  <2>2. {i \in DOMAIN rs : Passed(rs[i].rules)} = 1 .. Len(rs) /\ Len(rs) \in Nat
    BY <1>1, <2>1
  <2>3. Cardinality(1 .. Len(rs)) = Len(rs)
    BY <2>2, CountTo
  <2> QED BY <2>2, <2>3
<1>14. /\ Failures(rs, "safety") = 0 /\ Failures(rs, "skill_lifecycle") = 0
       /\ Failures(rs, "scenario_lifecycle") = 0 /\ Failures(rs, "scenario_handoff") = 0
  BY <1>5
<1>15. Seen(rs, "skill_telemetry", "unknown") = 0 /\ Seen(rs, "scenario_telemetry", "unknown") = 0
  BY <1>6
<1>16. /\ PassRatio(rs, {"tool_arguments"}).n \in Nat
       /\ PassRatio(rs, {"tool_arguments"}).n = PassRatio(rs, {"tool_arguments"}).d
  BY <1>11
<1>17. /\ PassRatio(rs, {"skill_selection"}).n \in Nat
       /\ PassRatio(rs, {"skill_selection"}).n = PassRatio(rs, {"skill_selection"}).d
  BY <1>11
<1>18. /\ PassRatio(rs, {"scenario_node"}).n \in Nat
       /\ PassRatio(rs, {"scenario_node"}).n = PassRatio(rs, {"scenario_node"}).d
  BY <1>11
<1>19. LET q == PassRatio(rs, {"evidence_claim", "evidence_coverage"}) IN q.n \in Nat /\ q.n = q.d
  BY <1>11
<1> QED
  BY <1>7, <1>9, <1>10, <1>12, <1>13, <1>14, <1>15, <1>16, <1>17, <1>18, <1>19,
     CandidateIs, CandidateShares DEF Clear, rs

\* The success rate of the baseline is a share.
LEMMA BaseShare ==
  ASSUME Listed(rows)
  PROVE  Base.success.n \in Nat /\ Base.success.d \in Nat /\ Base.success.n <= Base.success.d
<1> DEFINE rs == rows["baseline"]
           P == {i \in DOMAIN rs : Passed(rs[i].rules)}
<1>1. Base.success.n = Cardinality(P) /\ Base.success.d = Len(rs)
  BY DEF Base, MetricsOf, Ratio
<1>2. rs \in Seq(Range(rs))
  BY DEF Listed, Role
<1> HIDE DEF rs
<1>3. P \subseteq 1 .. Len(rs) /\ Len(rs) \in Nat
  BY <1>2
<1>4. IsFiniteSet(1 .. Len(rs)) /\ Cardinality(1 .. Len(rs)) = Len(rs)
  BY <1>3, CountTo
<1> HIDE DEF P
<1>5. Cardinality(P) \in Nat /\ Cardinality(P) <= Len(rs)
  BY <1>3, <1>4, FS_Subset, FS_CardinalityType
<1> QED BY <1>1, <1>3, <1>5

\* A success rate of one is no drop.
LEMMA NoDrop ==
  ASSUME NEW base, base.n \in Nat, base.d \in Nat, base.n <= base.d,
         NEW m, m.n \in Nat, m.n = m.d, NEW limit \in Int, limit >= 0
  PROVE  ~ SuccessDrop(base, m, limit)
<1> DEFINE a == base.n
           b == base.d
           k == m.n
<1>1. a \in Nat /\ b \in Nat /\ k \in Nat /\ a <= b
  OBVIOUS
<1>2. SuccessDrop(base, m, limit) => 100 * (a * k - k * b) > limit * b * k
  BY DEF SuccessDrop
<1> HIDE DEF a, b, k
<1>3. (b - a) * k >= 0 /\ (b - a) * k = b * k - a * k
  BY <1>1
<1>4. a * k \in Int /\ k * b \in Int /\ b * k = k * b
  BY <1>1
<1>5. a * k - k * b <= 0
  BY <1>3, <1>4
<1>6. limit * b \in Int /\ limit * b >= 0
  BY <1>1
<1> DEFINE c == a * k - k * b
           w == limit * b * k
<1>7. w \in Int /\ w >= 0
  BY <1>1, <1>6
<1>8. c \in Int /\ c <= 0
  BY <1>4, <1>5
<1>9. SuccessDrop(base, m, limit) => 100 * c > w
  BY <1>2
<1> HIDE DEF c, w
<1> QED BY <1>7, <1>8, <1>9

\* A clear account gives no reason to block.
LEMMA ClearUnblocked ==
  ASSUME Listed(rows), Adjustable(manifest), Attainable, Clear(Candidate),
         coverage.candidate.n = coverage.candidate.d,
         policy.judge = {} \/ Candidate.judge = "known",
         policy.evidence = {} \/ Candidate.evidence.d # 0,
         policy.scenario = {} \/ Candidate.nodeSuccess.d # 0
  PROVE  ~ Blocks(Reasons(Base, Candidate))
<1> DEFINE m == Candidate
<1> SUFFICES ASSUME NEW x \in Reasons(Base, m), x.severity = "block" PROVE FALSE
  BY DEF Blocks
<1>0. m.skillCoverage = coverage.candidate
  BY CandidateShares
<1>1. /\ Clear(m)
      /\ policy.judge = {} \/ m.judge = "known"
      /\ policy.evidence = {} \/ m.evidence.d # 0
      /\ policy.scenario = {} \/ m.nodeSuccess.d # 0
  OBVIOUS
<1>2. /\ policy.limits.drop \in Int /\ policy.limits.drop >= 0
      /\ Fraction(policy.limits.toolArguments) /\ AtMostAll(policy.limits.toolArguments)
      /\ \A c \in policy.skill : /\ Fraction(c.accuracy) /\ AtMostAll(c.accuracy)
                                 /\ Fraction(c.coverage) /\ AtMostAll(c.coverage)
      /\ \A c \in policy.evidence : Fraction(c.coverage) /\ AtMostAll(c.coverage)
      /\ \A c \in policy.scenario : Fraction(c.nodes) /\ AtMostAll(c.nodes)
  BY DEF Adjustable, Attainable, policy
<1>3. m.skillCoverage.n \in Nat /\ m.skillCoverage.n = m.skillCoverage.d
  BY <1>0 DEF Adjustable, coverage
<1>4. Base.success.n \in Nat /\ Base.success.d \in Nat /\ Base.success.n <= Base.success.d
  BY BaseShare
<1> HIDE DEF m
<1>5. ASSUME x \in CoreReasons(Base, m, policy.limits) PROVE FALSE
  <2>1. ~ SuccessDrop(Base.success, m.success, policy.limits.drop)
    BY <1>1, <1>2, <1>4, NoDrop DEF Clear
  <2>2. ~ Below(m.toolArguments, policy.limits.toolArguments)
    BY <1>1, <1>2, AllIsNotBelow DEF Clear, Fraction
  <2>3. m.safety = 0 /\ m.executionFailures = 0
    BY <1>1 DEF Clear
  <2>4. \/ x \in Reason("critical_safety", "block", m.safety > 0)
        \/ x \in Reason("target_execution_failure", "block", m.executionFailures > 0)
        \/ x \in Reason("success_rate_drop", "block",
                        SuccessDrop(Base.success, m.success, policy.limits.drop))
        \/ x \in Reason("tool_argument_accuracy", "block",
                        Below(m.toolArguments, policy.limits.toolArguments))
        \/ x \in Reason("latency_growth", "warn", Grew(Base.latency, m.latency, policy.limits.latencyGrowth))
        \/ x \in Reason("cost_growth", "warn", Grew(Base.cost, m.cost, policy.limits.costGrowth))
    BY <1>5, Zenon DEF CoreReasons
  <2> QED BY <2>1, <2>2, <2>3, <2>4 DEF Reason
<1>6. ASSUME x \in SkillReasons(Base, m, policy.skill) PROVE FALSE
  <2>1. PICK c \in policy.skill :
          \/ x \in Reason("skill_telemetry_unknown", "block", c.telemetry /\ m.telemetryUnknown > 0)
          \/ x \in Reason("fabricated_skill", "block", c.unbound /\ m.unbound > 0)
          \/ x \in Reason("skill_identity_mismatch", "block", m.mismatches > 0)
          \/ x \in Reason("skill_lifecycle", "block", c.lifecycle /\ m.lifecycle > 0)
          \/ x \in Reason("required_skill_omission", "block", m.omissions > 0)
          \/ x \in Reason("skill_selection_accuracy", "block", Below(m.selection, c.accuracy))
          \/ x \in Reason("skill_coverage", "block", Below(m.skillCoverage, c.coverage))
          \/ x \in Reason("redundant_skill_call_growth", "warn", Grew(Base.calls, m.calls, c.growth))
    BY <1>6, Zenon DEF SkillReasons
  <2>2. ~ Below(m.selection, c.accuracy)
    BY <1>1, <1>2, AllIsNotBelow DEF Clear, Fraction
  <2>3. ~ Below(m.skillCoverage, c.coverage)
    BY <1>2, <1>3, AllIsNotBelow DEF Fraction
  <2>4. /\ m.telemetryUnknown = 0 /\ m.unbound = 0 /\ m.mismatches = 0
        /\ m.lifecycle = 0 /\ m.omissions = 0
    BY <1>1 DEF Clear
  <2> QED BY <2>1, <2>2, <2>3, <2>4 DEF Reason
<1>7. ASSUME x \in EvidenceReasons(m, policy.evidence) PROVE FALSE
  <2>1. PICK c \in policy.evidence :
          \/ x \in Reason("invalid_evidence_ref", "block", c.invalidRefs /\ m.invalidRefs > 0)
          \/ x \in Reason("unsupported_claim", "block", c.unsupported /\ m.unsupportedClaims > 0)
          \/ x \in Reason("evidence_coverage_unknown", "block", m.evidence.d = 0)
          \/ x \in Reason("evidence_coverage", "block", Below(m.evidence, c.coverage))
    BY <1>7, Zenon DEF EvidenceReasons
  <2>2. ~ Below(m.evidence, c.coverage)
    BY <1>1, <1>2, AllIsNotBelow DEF Clear, Fraction
  <2>3. m.invalidRefs = 0 /\ m.unsupportedClaims = 0 /\ m.evidence.d # 0
    BY <1>1, <2>1 DEF Clear
  <2> QED BY <2>1, <2>2, <2>3 DEF Reason
<1>8. ASSUME x \in JudgeReasons(m, policy.judge) PROVE FALSE
  <2>1. PICK c \in policy.judge :
          x \in IF c.required /\ m.judge # "known"
                  THEN Reason("hallucination_judge_unknown", "block", TRUE)
                  ELSE Reason("hallucination_judge_signal", "warn",
                              Below(m.supported, c.supported) \/ m.unsupported > c.maximum)
    BY <1>8, Zenon DEF JudgeReasons
  <2>2. x \in Reason("hallucination_judge_signal", "warn",
                     Below(m.supported, c.supported) \/ m.unsupported > c.maximum)
    BY <1>1, <2>1
  <2> QED BY <2>2 DEF Reason
<1>9. ASSUME x \in ScenarioReasons(m, policy.scenario) PROVE FALSE
  <2>1. PICK c \in policy.scenario :
          \/ x \in Reason("scenario_telemetry_unknown", "block", c.telemetry /\ m.scenarioUnknown > 0)
          \/ x \in Reason("scenario_node_success_rate", "block",
                          m.nodeSuccess.d = 0 \/ Below(m.nodeSuccess, c.nodes))
          \/ x \in Reason("scenario_lifecycle", "block", c.lifecycle /\ m.scenarioLifecycle > 0)
          \/ x \in Reason("scenario_handoff", "block", c.handoffs /\ m.scenarioHandoffs > 0)
    BY <1>9, Zenon DEF ScenarioReasons
  <2>2. ~ Below(m.nodeSuccess, c.nodes)
    BY <1>1, <1>2, AllIsNotBelow DEF Clear, Fraction
  <2>3. /\ m.scenarioUnknown = 0 /\ m.scenarioLifecycle = 0 /\ m.scenarioHandoffs = 0
        /\ m.nodeSuccess.d # 0
    BY <1>1, <2>1 DEF Clear
  <2> QED BY <2>1, <2>2, <2>3 DEF Reason
<1> QED BY <1>5, <1>6, <1>7, <1>8, <1>9 DEF Reasons

\* The gate blocks no candidate without a fault: not for what rounds, what is
\* compared at its limit, what the judge said or what a baseline did better.
THEOREM CleanIsNotBlocked == GateSpec => []CleanNotBlocked
<1>1. GateInv => CleanNotBlocked
  <2> SUFFICES ASSUME GateInv, stage = "done", verdict.news.block = 0, ~ policy.opa, Attainable,
                      coverage.candidate.n = coverage.candidate.d,
                      policy.judge = {} \/ Candidate.judge = "known",
                      policy.evidence = {} \/ Candidate.evidence.d # 0,
                      policy.scenario = {} \/ Candidate.nodeSuccess.d # 0,
                      \A row \in Range(rows["candidate"]) : Flawless(row)
               PROVE  verdict.decision # "BLOCK"
    BY DEF CleanNotBlocked
  <2>1. Listed(rows) /\ Adjustable(manifest)
    BY GateAssumption DEF GateInv, RowsFit, Listed, Progress
  <2>2. Clear(Candidate)
    BY <2>1, FlawlessClear
  <2>3. ~ Blocks(Reasons(Base, Candidate))
    BY <2>1, <2>2, ClearUnblocked
  <2>4. ~ (verdict.news.block > 0)
    OBVIOUS
  <2> QED BY <2>3, <2>4 DEF GateInv, Staged
<1> QED BY <1>1, GateStart, GateStep, PTL DEF GateSpec
=============================================================================
