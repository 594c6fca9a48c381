SPECIFICATION EvaluationSpec
CONSTANTS
  Datasets <- MCDatasets
  Expected <- MCExpected
  Answers <- MCAnswers
  Bound <- MCBound
  Verdicts <- MCVerdicts
  TokenField = {"input_tokens", "judge_tokens"}
  Manifests <- MCManifests
  Sample = {"s1", "s2"}
  RunId = {"r1", "r2"}
  Message = {"m"}
  Tool = {"t"}
  Topics <- MCTopics
  MaxEvents <- MCMaxEvents
  Caller = {"a", "b", "c"}
  MaxRequests = 2
  MaxTokens = 3
  Usage = {0, 2}
  Key = {k1}
  Runner = {w1, w2}
  Call = {q1, q2}
  NoKey = NoKey
  NoRunner = NoRunner
  Effects <- MCEffects
  Body <- MCBody
  GateRow <- MCGateRow
  MaxClaim = 2
  MaxGate = 1
INVARIANTS
  ShipTrusted
  CleanNotBlocked
  FailedForCause
  ResultInOrder
  CancelReaches
  ResultTrue
  BudgetKept
  OneRunPerKey
  OutputHasNodes
  ClaimsFenced
PROPERTY
  EndedForGood
CHECK_DEADLOCK FALSE
