-------------------------- MODULE ReleaseEvidence --------------------------
(***************************************************************************)
(* What a run promises to those who read its results: whatever number of   *)
(* attempts were begun, at most one of them publishes evidence, it does so *)
(* in one step for all cases, and a verdict comes with it or never.        *)
(***************************************************************************)
EXTENDS Naturals

CONSTANTS Run, MaxAttempt

VARIABLES
  begun,     \* begun[r]: how many attempts at run r have been begun
  evidence,  \* evidence[r]: the attempt whose results are r's evidence, or 0
  verdict    \* verdict[r]: the attempt the gate decision was taken on, or 0

vars == <<begun, evidence, verdict>>

Init ==
  /\ begun = [r \in Run |-> 0]
  /\ evidence = [r \in Run |-> 0]
  /\ verdict = [r \in Run |-> 0]

Begin(r) ==
  /\ begun[r] < MaxAttempt
  /\ begun' = [begun EXCEPT ![r] = @ + 1]
  /\ UNCHANGED <<evidence, verdict>>

Publish(r) ==
  /\ evidence[r] = 0
  /\ \E a \in 1 .. begun[r] :
       /\ evidence' = [evidence EXCEPT ![r] = a]
       /\ verdict' \in {verdict, [verdict EXCEPT ![r] = a]}
  /\ UNCHANGED begun

Next == \E r \in Run : Begin(r) \/ Publish(r)

Spec == Init /\ [][Next]_vars
=============================================================================
