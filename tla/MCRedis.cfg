CONSTANTS
  Run = {r1, r2}
  Worker = {w1}
  NoRun = NoRun
  NoWorker = NoWorker
  c1 = c1
  Slot <- MCSlot
  Recorded = {}
  Batches <- MCBatches
  Gated = {r1}
  MaxAttempt = 3
  Faults = {"enqueue", "api", "reply", "ack"}
  MaxCrash = 2
  MaxReady = 2
  LateRestart = FALSE
SPECIFICATION RedisSafe
INVARIANTS
  Tracked
  OneCopy
PROPERTY
  RestrictsEvalRun
CHECK_DEADLOCK FALSE
