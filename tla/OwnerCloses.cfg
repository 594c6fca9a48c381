CONSTANTS
  Run = {r1}
  Worker = {w1, w2}
  NoRun = NoRun
  NoWorker = NoWorker
  b1 = b1
  c1 = c1
  c2 = c2
  c3 = c3
  Slot <- MCSlot
  Recorded <- MCRecorded
  Batches <- MCBatches
  Gated = {r1}
  MaxAttempt = 3
SPECIFICATION Spec
PROPERTY
  OwnerCloses
SYMMETRY Symmetry
CHECK_DEADLOCK FALSE
