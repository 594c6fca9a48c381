CONSTANTS
  Run = {r1, r2}
  Worker = {}
  Publisher = {p1, p2}
  Replays = {r2}
  Cancels = {r2}
  NoRun = NoRun
  NoWorker = NoWorker
  c1 = c1
  Slot <- MCSlot
  Recorded = {}
  Batches <- MCBatches
  Gated = {r1}
  MaxAttempt = 0
  Faults = {"send", "crash"}
  MaxTries = 2
  MaxSend = 4
  MaxDisruption = 2
SPECIFICATION KafkaSpec
INVARIANT
  OutboxKeeps
PROPERTY
  EventLeaves
CHECK_DEADLOCK FALSE
