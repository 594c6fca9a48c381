------------------------------ MODULE MCKafka ------------------------------
(***************************************************************************)
(* KafkaDispatch for TLC: one batch of one case.                           *)
(***************************************************************************)
EXTENDS KafkaDispatch, TLC

CONSTANT c1

MCSlot == {c1}
MCBatches == <<{c1}>>

Symmetry == Permutations(Worker)
=============================================================================
