------------------------------ MODULE MCRedis ------------------------------
(***************************************************************************)
(* RedisDispatch for TLC.  The batches of a run are EvalRun's business:    *)
(* one of one case is enough to have a worker die or stop inside it.       *)
(***************************************************************************)
EXTENDS RedisDispatch

CONSTANT c1

MCSlot == {c1}
MCBatches == <<{c1}>>
=============================================================================
