----------------------------- MODULE MCEvalRun -----------------------------
(***************************************************************************)
(* EvalRun for TLC: one case set with a recorded Baseline slot, a batch of *)
(* two Candidate slots that run side by side and a batch of one.           *)
(***************************************************************************)
EXTENDS EvalRun, TLC

CONSTANTS b1, c1, c2, c3

MCSlot == {b1, c1, c2, c3}
MCRecorded == {b1}
MCBatches == <<{c1, c2}, {c3}>>

Symmetry == Permutations(Worker)
=============================================================================
