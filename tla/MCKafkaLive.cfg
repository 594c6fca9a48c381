CONSTANTS
  Run = {r1}
  Worker = {w1, w2}
  Publisher = {p1}
  Replays = {}
  Cancels = {}
  NoRun = NoRun
  NoWorker = NoWorker
  c1 = c1
  Slot <- MCSlot
  Recorded = {}
  Batches <- MCBatches
  Gated = {r1}
  MaxAttempt = 2
  Faults = {"rebalance"}
  MaxTries = 2
  MaxSend = 2
  MaxDisruption = 1
SPECIFICATION KafkaSpec
INVARIANT
  ProcessedIsHandled
PROPERTY
  EventEnds
CHECK_DEADLOCK FALSE
