CONSTANTS
  Run = {r1, r2}
  Worker = {w1}
  Publisher = {p1}
  Replays = {r2}
  Cancels = {}
  NoRun = NoRun
  NoWorker = NoWorker
  c1 = c1
  Slot <- MCSlot
  Recorded = {}
  Batches <- MCBatches
  Gated = {r1}
  MaxAttempt = 0
  Faults = {}
  MaxTries = 2
  MaxSend = 2
  MaxDisruption = 0
SPECIFICATION KafkaSafe
INVARIANT
  QueuedAtomically
CHECK_DEADLOCK FALSE
