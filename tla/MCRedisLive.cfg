CONSTANTS
  Run = {r1, r2}
  Worker = {w1}
  NoRun = NoRun
  NoWorker = NoWorker
  c1 = c1
  Slot <- MCSlot
  Recorded = {}
  Batches <- MCBatches
  Gated = {r1}
  MaxAttempt = 3
  Faults = {"escape"}
  MaxCrash = 2
  MaxReady = 2
  LateRestart = TRUE
SPECIFICATION RedisSpec
PROPERTY PushedEnds
CHECK_DEADLOCK FALSE
