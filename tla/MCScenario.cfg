CONSTANTS
  NodeCount = 4
  Ghost <- MCGhost
  Documents <- MCDocuments
SPECIFICATION FairSpec
INVARIANTS
  ValidationExact
  Lockstep
  RequiredDone
  CancelExplained
  NodesStopped
PROPERTY ScenarioEnds
CHECK_DEADLOCK FALSE
