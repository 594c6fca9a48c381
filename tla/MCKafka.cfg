CONSTANTS
  Run = {r1, r2}
  Worker = {w1, w2}
  Publisher = {p1}
  Replays = {}
  Cancels = {}
  NoRun = NoRun
  NoWorker = NoWorker
  c1 = c1
  Slot <- MCSlot
  Recorded = {}
  Batches <- MCBatches
  Gated = {r1}
  MaxAttempt = 0
  Faults = {"rebalance", "crash", "escape", "commit", "db"}
  MaxTries = 2
  MaxSend = 2
  MaxDisruption = 2
SPECIFICATION KafkaSafe
INVARIANTS
  OffsetSafe
PROPERTY
  RestrictsEvalRun
SYMMETRY Symmetry
CHECK_DEADLOCK FALSE
