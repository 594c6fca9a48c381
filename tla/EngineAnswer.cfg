SPECIFICATION EvaluationSpec
CONSTANTS
  Datasets <- MCOneCase
  Expected <- MCExpected
  Answers <- MCAnswers
  Bound <- MCBound
  Verdicts <- MCVerdicts
  TokenField = {"input_tokens", "judge_tokens"}
  Manifests <- MCManifests
  Sample = {"s2"}
  RunId = {"r1"}
  Message = {"m"}
  Tool = {"t"}
  Topics <- MCTopics
  MaxEvents <- MCMaxEvents
  Caller = {"a"}
  MaxRequests = 1
  MaxTokens = 1
  Usage = {0}
  Key = {k1}
  Runner = {w1}
  Call = {q1}
  NoKey = NoKey
  NoRunner = NoRunner
  Effects <- MCEffects
  Body <- MCBody
  GateRow <- MCGateRow
  MaxClaim = 0
  MaxGate = 0
INVARIANT
  EngineFailsClosed
CHECK_DEADLOCK FALSE
