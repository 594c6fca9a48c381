--------------------------- MODULE EvalRunProofs ---------------------------
(***************************************************************************)
(* The safety of EvalRun for every set of runs, workers, slots and batches *)
(* and every bound on the attempts.                                        *)
(***************************************************************************)
EXTENDS EvalRun, TLAPS

\* What an execution's place in the code says about its locals.
PlaceInv ==
  \A w \in Worker :
    /\ pc[w] = "idle" => run[w] = NoRun /\ claim[w] = 0 /\ batch[w] = 1 /\ stray[w] = 0
    /\ pc[w] # "idle" => run[w] \in Run
    /\ pc[w] \notin {"idle", "fail", "failCommit"} => claim[w] # 0
    /\ pc[w] \in {"load", "check", "run", "beat", "endBatch", "endBeat"}
         => batch[w] <= Len(Batches)
    /\ pc[w] = "commit" => cancelled[w] \/ captured[w] = Slot

\* A batch was begun astray only after the row had come to name another
\* worker, and no heartbeat succeeds after that.
StrayInv ==
  \A w \in Worker :
    /\ stray[w] <= 1
    /\ stray[w] # 0 => owner[run[w]] # w
    /\ pc[w] \in {"load", "check", "beat", "endBeat"} => stray[w] = 0

\* No result carries the number of an attempt that has still to persist.
FreshInv ==
  /\ \A r \in Run : \A s \in Slot : results[r][s] <= attempt[r]
  /\ \A w \in Worker : claim[w] # 0 =>
        \A s \in Slot : results[run[w]][s] # claim[w]

IInv == /\ TypeOK /\ PlaceInv /\ StrayInv /\ FreshInv
        /\ VerdictComplete /\ CompletedWhole /\ AttemptFence

-----------------------------------------------------------------------------
(* Typing *)

LEMMA BatchIsSlots ==
  ASSUME NEW b \in 1 .. Len(Batches)
  PROVE  Batches[b] \in SUBSET Slot
BY EvalRunAssumption

LEMMA InitIInv == Init => IInv
<1> SUFFICES ASSUME Init PROVE IInv
  OBVIOUS
<1> USE EvalRunAssumption DEF Init
<1>1. TypeOK
  BY DEF TypeOK, Status, Lease, Attempt, Location
<1>2. PlaceInv /\ StrayInv
  BY DEF PlaceInv, StrayInv
<1>4. FreshInv
  BY DEF FreshInv
<1>3. VerdictComplete /\ CompletedWhole /\ AttemptFence
  BY DEF VerdictComplete, CompletedWhole, AttemptFence
<1> QED BY <1>1, <1>2, <1>3, <1>4 DEF IInv

\* Leaving execute keeps the worker's locals well typed.
LEMMA LeaveTypes ==
  ASSUME TypeOK, NEW w \in Worker, Leave(w)
  PROVE  /\ pc' \in [Worker -> Location]
         /\ run' \in [Worker -> Run \cup {NoRun}]
         /\ claim' \in [Worker -> Attempt]
         /\ batch' \in [Worker -> 1 .. Len(Batches) + 1]
         /\ captured' \in [Worker -> SUBSET Slot]
         /\ cancelled' \in [Worker -> BOOLEAN]
         /\ stray' \in [Worker -> Nat]
         /\ sawStatus' \in [Worker -> Status]
         /\ sawLease' \in [Worker -> Lease]
BY EvalRunAssumption
   DEF TypeOK, Leave, Forget, ToPc, Location, Status, Lease, Attempt

LEMMA LoadTypes ==
  ASSUME TypeOK, NEW w \in Worker, run[w] \in Run, Load(w)
  PROVE  sawStatus' \in [Worker -> Status] /\ sawLease' \in [Worker -> Lease]
BY DEF TypeOK, Load, StatusOf

LEMMA CloseRowTypes ==
  ASSUME TypeOK, NEW w \in Worker, run[w] \in Run,
         NEW st \in Status, CloseRow(w, st)
  PROVE  /\ status' \in [Run -> Status]
         /\ owner' \in [Run -> Worker \cup {NoWorker}]
         /\ lease' \in [Run -> Lease]
         /\ attempt' \in [Run -> Attempt]
BY DEF TypeOK, CloseRow, Flushed, Lease

LEMMA TypeStep ==
  ASSUME TypeOK, PlaceInv, [Next]_vars
  PROVE  TypeOK'
<1> USE DEF rowVars, evidenceVars, apiVars, jobVars, copyVars
<1>1. ASSUME NEW r \in Run, Create(r) PROVE TypeOK'
  BY <1>1 DEF TypeOK, Create, Status
<1>2. ASSUME NEW r \in Run, CancelRead(r) PROVE TypeOK'
  BY <1>2 DEF TypeOK, CancelRead, CancelStatus
<1>3. ASSUME NEW r \in Run, CancelCommit(r) PROVE TypeOK'
  BY <1>3 DEF TypeOK, CancelCommit, Status
<1>4. ASSUME NEW r \in Run, ClaimCancelled(r) PROVE TypeOK'
  BY <1>4 DEF TypeOK, ClaimCancelled, Status
<1>5. ASSUME NEW r \in Run, LeaseExpires(r) PROVE TypeOK'
  BY <1>5 DEF TypeOK, LeaseExpires, Lease
<1>6. ASSUME NEW r \in Run, NEW w \in Worker, ClaimRun(w, r) PROVE TypeOK'
  <2>1. attempt[r] + 1 \in Attempt
    BY <1>6, EvalRunAssumption DEF TypeOK, ClaimRun, Attempt
  <2>2. attempt' = [attempt EXCEPT ![r] = attempt[r] + 1]
    BY <1>6 DEF ClaimRun, TakeRow
  <2>3. attempt' \in [Run -> Attempt] /\ attempt'[r] \in Attempt
    BY <2>1, <2>2 DEF TypeOK
  <2> QED BY <1>6, <2>3
          DEF TypeOK, ClaimRun, TakeRow, ToPc, Status, Lease, Location
<1>7. ASSUME NEW r \in Run, NEW w \in Worker, ClaimRaises(w, r) PROVE TypeOK'
  BY <1>7 DEF TypeOK, ClaimRaises, ToPc, Location
<1>8. ASSUME NEW w \in Worker, LoadRecorded(w) PROVE TypeOK'
  BY <1>8, EvalRunAssumption DEF TypeOK, LoadRecorded, ToPc, Location
<1>9. ASSUME NEW w \in Worker, StopForCancel(w) PROVE TypeOK'
  BY <1>9 DEF TypeOK, StopForCancel, ToPc, Location
<1>10. ASSUME NEW w \in Worker, StartBatch(w) PROVE TypeOK'
  BY <1>10 DEF TypeOK, StartBatch, ToPc, Location
<1>11. ASSUME NEW w \in Worker, ObserveCancel(w) PROVE TypeOK'
  <2>1. Batches[batch[w]] \in SUBSET Slot
    BY <1>11, BatchIsSlots DEF ObserveCancel, PlaceInv, TypeOK
  <2> QED BY <1>11, <2>1 DEF TypeOK, ObserveCancel, ToPc, Location
<1>12. ASSUME NEW w \in Worker, FinishBatch(w) PROVE TypeOK'
  <2>1. Batches[batch[w]] \in SUBSET Slot
    BY <1>12, BatchIsSlots DEF FinishBatch, PlaceInv, TypeOK
  <2> QED BY <1>12, <2>1 DEF TypeOK, FinishBatch, ToPc, Location
<1>13. ASSUME NEW w \in Worker, HeartbeatRead(w) PROVE TypeOK'
  BY <1>13 DEF TypeOK, HeartbeatRead, ToPc, Location
<1>14. ASSUME NEW w \in Worker, RenewDuring(w) PROVE TypeOK'
  BY <1>14 DEF TypeOK, RenewDuring, ToPc, Location, Lease
<1>15. ASSUME NEW w \in Worker, RenewAfter(w) PROVE TypeOK'
  <2>1. run[w] \in Run /\ batch[w] + 1 \in 1 .. Len(Batches) + 1
    BY <1>15, EvalRunAssumption DEF TypeOK, PlaceInv, RenewAfter
  <2>2. batch' = [batch EXCEPT ![w] = batch[w] + 1]
    BY <1>15 DEF RenewAfter
  <2>3. batch' \in [Worker -> 1 .. Len(Batches) + 1]
    BY <2>1, <2>2 DEF TypeOK
  <2> QED BY <1>15, <2>1, <2>3 DEF TypeOK, RenewAfter, ToPc, Location, Lease
<1>16. ASSUME NEW w \in Worker, Raise(w) PROVE TypeOK'
  BY <1>16 DEF TypeOK, Raise, ToPc, Location
<1>17. ASSUME NEW w \in Worker, PersistRead(w) PROVE TypeOK'
  <2>1. run[w] \in Run
    BY <1>17 DEF PersistRead, PlaceInv
  <2>2. sawStatus' \in [Worker -> Status] /\ sawLease' \in [Worker -> Lease]
    BY <1>17, <2>1, LoadTypes DEF PersistRead, TypeOK
  <2> QED BY <1>17, <2>2 DEF TypeOK, PersistRead, ToPc, Location
<1>18. ASSUME NEW w \in Worker, PersistCommit(w) PROVE TypeOK'
  <2>1. run[w] \in Run
    BY <1>18 DEF PersistCommit, PlaceInv
  <2>2. results' \in [Run -> [Slot -> Attempt]]
    BY <1>18, <2>1 DEF PersistCommit, TypeOK
  <2>3. gate' \in [Run -> Attempt]
    BY <1>18, <2>1 DEF PersistCommit, TypeOK
  <2>4. Outcome(w) \in Status
    BY DEF Outcome, Status
  <2> QED BY <1>18, <2>1, <2>2, <2>3, <2>4, LeaveTypes, CloseRowTypes
          DEF TypeOK, PersistCommit
<1>19. ASSUME NEW w \in Worker, PersistRaises(w) PROVE TypeOK'
  BY <1>19 DEF TypeOK, PersistRaises, Forget, ToPc, Location, Status, Lease
<1>20. ASSUME NEW w \in Worker, FailRead(w) PROVE TypeOK'
  <2>1. run[w] \in Run
    BY <1>20 DEF FailRead, PlaceInv
  <2>2. CASE StatusOf(w) \in {"COMPLETED", "CANCELLED"}
    BY <1>20, <2>2, LeaveTypes DEF FailRead, TypeOK
  <2>3. CASE StatusOf(w) \notin {"COMPLETED", "CANCELLED"}
    BY <1>20, <2>1, <2>3, LoadTypes DEF FailRead, TypeOK, ToPc, Location
  <2> QED BY <2>2, <2>3
<1>21. ASSUME NEW w \in Worker, FailCommit(w) PROVE TypeOK'
  <2>1. run[w] \in Run
    BY <1>21 DEF FailCommit, PlaceInv
  <2>2. "FAILED" \in Status
    BY DEF Status
  <2> QED BY <1>21, <2>1, <2>2, LeaveTypes, CloseRowTypes DEF FailCommit, TypeOK
<1>22. ASSUME NEW w \in Worker, Abort(w) PROVE TypeOK'
  BY <1>22, LeaveTypes DEF Abort, TypeOK
<1>24. ASSUME NEW r \in Run, PostEnds(r) PROVE TypeOK'
  BY <1>24 DEF TypeOK, PostEnds, Status
<1>25. ASSUME NEW r \in Run, PostRaises(r) PROVE TypeOK'
  BY <1>25 DEF TypeOK, PostRaises, Status
<1>26. ASSUME NEW r \in Run, PostFails(r) PROVE TypeOK'
  BY <1>26 DEF TypeOK, PostFails, Status
<1>23. CASE UNCHANGED vars
  BY <1>23 DEF vars, TypeOK
<1> QED
  BY <1>1, <1>2, <1>3, <1>4, <1>5, <1>6, <1>7, <1>8, <1>9, <1>10, <1>11, <1>12,
     <1>13, <1>14, <1>15, <1>16, <1>17, <1>18, <1>19, <1>20, <1>21, <1>22, <1>23, <1>24,
     <1>25, <1>26
     DEF Next, Execute

-----------------------------------------------------------------------------
(* The places of execute, and who is fenced off there *)

LEMMA PlaceStep ==
  ASSUME TypeOK, PlaceInv, [Next]_vars
  PROVE  PlaceInv'
<1> USE DEF rowVars, evidenceVars, apiVars, jobVars, copyVars
<1>1. ASSUME NEW r \in Run, Create(r) PROVE PlaceInv'
  BY <1>1 DEF TypeOK, PlaceInv, Create
<1>2. ASSUME NEW r \in Run, CancelRead(r) PROVE PlaceInv'
  BY <1>2 DEF TypeOK, PlaceInv, CancelRead
<1>3. ASSUME NEW r \in Run, CancelCommit(r) PROVE PlaceInv'
  BY <1>3 DEF TypeOK, PlaceInv, CancelCommit
<1>4. ASSUME NEW r \in Run, ClaimCancelled(r) PROVE PlaceInv'
  BY <1>4 DEF TypeOK, PlaceInv, ClaimCancelled
<1>5. ASSUME NEW r \in Run, LeaseExpires(r) PROVE PlaceInv'
  BY <1>5 DEF TypeOK, PlaceInv, LeaseExpires
<1>6. ASSUME NEW r \in Run, NEW w \in Worker, ClaimRun(w, r) PROVE PlaceInv'
  <2>1. claim' = [claim EXCEPT ![w] = attempt'[r]] /\ attempt'[r] # 0
    BY <1>6 DEF TypeOK, Attempt, ClaimRun, TakeRow
  <2>2. pc' = [pc EXCEPT ![w] = "load"] /\ run' = [run EXCEPT ![w] = r]
    BY <1>6 DEF ClaimRun, ToPc
  <2>3. batch[w] = 1 /\ 1 <= Len(Batches)
    BY <1>6, EvalRunAssumption DEF PlaceInv, ClaimRun
  <2> QED BY <1>6, <2>1, <2>2, <2>3 DEF TypeOK, PlaceInv, ClaimRun
<1>7. ASSUME NEW r \in Run, NEW w \in Worker, ClaimRaises(w, r) PROVE PlaceInv'
  BY <1>7, EvalRunAssumption DEF TypeOK, PlaceInv, ClaimRaises, ToPc
<1>8. ASSUME NEW w \in Worker, LoadRecorded(w) PROVE PlaceInv'
  BY <1>8 DEF TypeOK, PlaceInv, LoadRecorded, ToPc
<1>9. ASSUME NEW w \in Worker, StopForCancel(w) PROVE PlaceInv'
  BY <1>9 DEF TypeOK, PlaceInv, StopForCancel, ToPc
<1>10. ASSUME NEW w \in Worker, StartBatch(w) PROVE PlaceInv'
  BY <1>10 DEF TypeOK, PlaceInv, StartBatch, ToPc
<1>11. ASSUME NEW w \in Worker, ObserveCancel(w) PROVE PlaceInv'
  BY <1>11 DEF TypeOK, PlaceInv, ObserveCancel, ToPc
<1>12. ASSUME NEW w \in Worker, FinishBatch(w) PROVE PlaceInv'
  BY <1>12 DEF TypeOK, PlaceInv, FinishBatch, ToPc
<1>13. ASSUME NEW w \in Worker, HeartbeatRead(w) PROVE PlaceInv'
  BY <1>13 DEF TypeOK, PlaceInv, HeartbeatRead, ToPc
<1>14. ASSUME NEW w \in Worker, RenewDuring(w) PROVE PlaceInv'
  BY <1>14 DEF TypeOK, PlaceInv, RenewDuring, ToPc
<1>15. ASSUME NEW w \in Worker, RenewAfter(w) PROVE PlaceInv'
  BY <1>15, EvalRunAssumption DEF TypeOK, PlaceInv, RenewAfter, ToPc
<1>16. ASSUME NEW w \in Worker, Raise(w) PROVE PlaceInv'
  BY <1>16 DEF TypeOK, PlaceInv, Raise, ToPc
<1>17. ASSUME NEW w \in Worker, PersistRead(w) PROVE PlaceInv'
  BY <1>17 DEF TypeOK, PlaceInv, PersistRead, ToPc
<1>18. ASSUME NEW w \in Worker, PersistCommit(w) PROVE PlaceInv'
  BY <1>18 DEF TypeOK, PlaceInv, PersistCommit, Leave, ToPc
<1>19. ASSUME NEW w \in Worker, PersistRaises(w) PROVE PlaceInv'
  BY <1>19 DEF TypeOK, PlaceInv, PersistRaises, ToPc
<1>20. ASSUME NEW w \in Worker, FailRead(w) PROVE PlaceInv'
  <2>1. CASE StatusOf(w) \in {"COMPLETED", "CANCELLED"}
    <3>1. Leave(w)
      BY <1>20, <2>1 DEF FailRead
    <3> QED BY <3>1 DEF TypeOK, PlaceInv, Leave, ToPc
  <2>2. CASE StatusOf(w) \notin {"COMPLETED", "CANCELLED"}
    <3>1. ToPc(w, "failCommit") /\ UNCHANGED jobVars /\ pc[w] = "fail"
      BY <1>20, <2>2 DEF FailRead
    <3> QED BY <3>1 DEF TypeOK, PlaceInv, ToPc
  <2> QED BY <2>1, <2>2
<1>21. ASSUME NEW w \in Worker, FailCommit(w) PROVE PlaceInv'
  BY <1>21 DEF TypeOK, PlaceInv, FailCommit, Leave, ToPc
<1>22. ASSUME NEW w \in Worker, Abort(w) PROVE PlaceInv'
  BY <1>22 DEF TypeOK, PlaceInv, Abort, Leave, ToPc
<1>24. ASSUME NEW r \in Run, PostEnds(r) PROVE PlaceInv'
  BY <1>24 DEF TypeOK, PlaceInv, PostEnds
<1>25. ASSUME NEW r \in Run, PostRaises(r) PROVE PlaceInv'
  BY <1>25 DEF TypeOK, PlaceInv, PostRaises
<1>26. ASSUME NEW r \in Run, PostFails(r) PROVE PlaceInv'
  BY <1>26 DEF TypeOK, PlaceInv, PostFails
<1>23. CASE UNCHANGED vars
  BY <1>23 DEF TypeOK, PlaceInv, vars
<1> QED
  BY <1>1, <1>2, <1>3, <1>4, <1>5, <1>6, <1>7, <1>8, <1>9, <1>10, <1>11, <1>12,
     <1>13, <1>14, <1>15, <1>16, <1>17, <1>18, <1>19, <1>20, <1>21, <1>22, <1>23, <1>24,
     <1>25, <1>26
     DEF Next, Execute

LEMMA StrayStep ==
  ASSUME TypeOK, PlaceInv, StrayInv, [Next]_vars
  PROVE  StrayInv'
<1> USE DEF rowVars, evidenceVars, apiVars, jobVars, copyVars
<1>1. ASSUME NEW r \in Run, Create(r) PROVE StrayInv'
  BY <1>1 DEF TypeOK, PlaceInv, StrayInv, Create
<1>2. ASSUME NEW r \in Run, CancelRead(r) PROVE StrayInv'
  BY <1>2 DEF TypeOK, PlaceInv, StrayInv, CancelRead
<1>3. ASSUME NEW r \in Run, CancelCommit(r) PROVE StrayInv'
  BY <1>3 DEF TypeOK, PlaceInv, StrayInv, CancelCommit
<1>4. ASSUME NEW r \in Run, ClaimCancelled(r) PROVE StrayInv'
  BY <1>4 DEF TypeOK, PlaceInv, StrayInv, ClaimCancelled
<1>5. ASSUME NEW r \in Run, LeaseExpires(r) PROVE StrayInv'
  BY <1>5 DEF TypeOK, PlaceInv, StrayInv, LeaseExpires
<1>6. ASSUME NEW r \in Run, NEW w \in Worker, ClaimRun(w, r) PROVE StrayInv'
  BY <1>6 DEF TypeOK, PlaceInv, StrayInv, ClaimRun, TakeRow, ToPc
<1>7. ASSUME NEW r \in Run, NEW w \in Worker, ClaimRaises(w, r) PROVE StrayInv'
  BY <1>7 DEF TypeOK, PlaceInv, StrayInv, ClaimRaises, ToPc
<1>8. ASSUME NEW w \in Worker, LoadRecorded(w) PROVE StrayInv'
  BY <1>8 DEF TypeOK, PlaceInv, StrayInv, LoadRecorded, ToPc
<1>9. ASSUME NEW w \in Worker, StopForCancel(w) PROVE StrayInv'
  BY <1>9 DEF TypeOK, PlaceInv, StrayInv, StopForCancel, ToPc
<1>10. ASSUME NEW w \in Worker, StartBatch(w) PROVE StrayInv'
  BY <1>10 DEF TypeOK, PlaceInv, StrayInv, StartBatch, ToPc
<1>11. ASSUME NEW w \in Worker, ObserveCancel(w) PROVE StrayInv'
  BY <1>11 DEF TypeOK, PlaceInv, StrayInv, ObserveCancel, ToPc
<1>12. ASSUME NEW w \in Worker, FinishBatch(w) PROVE StrayInv'
  BY <1>12 DEF TypeOK, PlaceInv, StrayInv, FinishBatch, ToPc
<1>13. ASSUME NEW w \in Worker, HeartbeatRead(w) PROVE StrayInv'
  BY <1>13 DEF TypeOK, PlaceInv, StrayInv, HeartbeatRead, Owned, ToPc
<1>14. ASSUME NEW w \in Worker, RenewDuring(w) PROVE StrayInv'
  BY <1>14 DEF TypeOK, PlaceInv, StrayInv, RenewDuring, ToPc
<1>15. ASSUME NEW w \in Worker, RenewAfter(w) PROVE StrayInv'
  BY <1>15 DEF TypeOK, PlaceInv, StrayInv, RenewAfter, ToPc
<1>16. ASSUME NEW w \in Worker, Raise(w) PROVE StrayInv'
  BY <1>16 DEF TypeOK, PlaceInv, StrayInv, Raise, ToPc
<1>17. ASSUME NEW w \in Worker, PersistRead(w) PROVE StrayInv'
  BY <1>17 DEF TypeOK, PlaceInv, StrayInv, PersistRead, ToPc
<1>18. ASSUME NEW w \in Worker, PersistCommit(w) PROVE StrayInv'
  <2>1. owner' = owner /\ attempt' = attempt
    BY <1>18 DEF PersistCommit, CloseRow
  <2>2. run' = [run EXCEPT ![w] = NoRun] /\ claim' = [claim EXCEPT ![w] = 0]
    BY <1>18 DEF PersistCommit, Leave
  <2>3. stray' = [stray EXCEPT ![w] = 0] /\ pc' = [pc EXCEPT ![w] = "idle"]
    BY <1>18 DEF PersistCommit, Leave, ToPc
  <2> QED BY <2>1, <2>2, <2>3 DEF TypeOK, PlaceInv, StrayInv
<1>19. ASSUME NEW w \in Worker, PersistRaises(w) PROVE StrayInv'
  BY <1>19 DEF TypeOK, PlaceInv, StrayInv, PersistRaises, ToPc
<1>20. ASSUME NEW w \in Worker, FailRead(w) PROVE StrayInv'
  <2>1. owner' = owner
    BY <1>20 DEF FailRead
  <2>2. CASE Leave(w)
    BY <2>1, <2>2 DEF TypeOK, PlaceInv, StrayInv, Leave, ToPc
  <2>3. CASE run' = run /\ stray' = stray /\ ToPc(w, "failCommit")
    BY <2>1, <2>3 DEF TypeOK, StrayInv, ToPc
  <2> QED BY <1>20, <2>2, <2>3 DEF FailRead
<1>21. ASSUME NEW w \in Worker, FailCommit(w) PROVE StrayInv'
  <2>1. owner' = owner /\ attempt' = attempt
    BY <1>21 DEF FailCommit, CloseRow
  <2>2. run' = [run EXCEPT ![w] = NoRun] /\ claim' = [claim EXCEPT ![w] = 0]
    BY <1>21 DEF FailCommit, Leave
  <2>3. stray' = [stray EXCEPT ![w] = 0] /\ pc' = [pc EXCEPT ![w] = "idle"]
    BY <1>21 DEF FailCommit, Leave, ToPc
  <2> QED BY <2>1, <2>2, <2>3 DEF TypeOK, PlaceInv, StrayInv
<1>22. ASSUME NEW w \in Worker, Abort(w) PROVE StrayInv'
  BY <1>22 DEF TypeOK, PlaceInv, StrayInv, Abort, Leave, ToPc
<1>24. ASSUME NEW r \in Run, PostEnds(r) PROVE StrayInv'
  BY <1>24 DEF TypeOK, PlaceInv, StrayInv, PostEnds
<1>25. ASSUME NEW r \in Run, PostRaises(r) PROVE StrayInv'
  BY <1>25 DEF TypeOK, PlaceInv, StrayInv, PostRaises
<1>26. ASSUME NEW r \in Run, PostFails(r) PROVE StrayInv'
  BY <1>26 DEF TypeOK, PlaceInv, StrayInv, PostFails
<1>23. CASE UNCHANGED vars
  BY <1>23 DEF TypeOK, PlaceInv, StrayInv, vars
<1> QED
  BY <1>1, <1>2, <1>3, <1>4, <1>5, <1>6, <1>7, <1>8, <1>9, <1>10, <1>11, <1>12,
     <1>13, <1>14, <1>15, <1>16, <1>17, <1>18, <1>19, <1>20, <1>21, <1>22, <1>23, <1>24,
     <1>25, <1>26
     DEF Next, Execute

LEMMA FenceStep ==
  ASSUME TypeOK, PlaceInv, AttemptFence, [Next]_vars
  PROVE  AttemptFence'
<1> USE DEF rowVars, evidenceVars, apiVars, jobVars, copyVars
<1>1. ASSUME NEW r \in Run, Create(r) PROVE AttemptFence'
  BY <1>1 DEF TypeOK, PlaceInv, AttemptFence, Create
<1>2. ASSUME NEW r \in Run, CancelRead(r) PROVE AttemptFence'
  BY <1>2 DEF TypeOK, PlaceInv, AttemptFence, CancelRead
<1>3. ASSUME NEW r \in Run, CancelCommit(r) PROVE AttemptFence'
  BY <1>3 DEF TypeOK, PlaceInv, AttemptFence, CancelCommit
<1>4. ASSUME NEW r \in Run, ClaimCancelled(r) PROVE AttemptFence'
  BY <1>4 DEF TypeOK, PlaceInv, AttemptFence, ClaimCancelled
<1>5. ASSUME NEW r \in Run, LeaseExpires(r) PROVE AttemptFence'
  BY <1>5 DEF TypeOK, PlaceInv, AttemptFence, LeaseExpires
<1>6. ASSUME NEW r \in Run, NEW w \in Worker, ClaimRun(w, r) PROVE AttemptFence'
  <2>1. attempt' = [attempt EXCEPT ![r] = attempt[r] + 1]
    BY <1>6 DEF ClaimRun, TakeRow
  <2>2. attempt[r] \in Nat /\ attempt'[r] = attempt[r] + 1
    BY <2>1 DEF TypeOK, Attempt
  <2>3. claim' = [claim EXCEPT ![w] = attempt[r] + 1]
    BY <1>6, <2>2 DEF ClaimRun
  <2>4. run' = [run EXCEPT ![w] = r] /\ owner' = [owner EXCEPT ![r] = w]
    BY <1>6 DEF ClaimRun, TakeRow
  <2>5. \A v \in Worker : claim[v] \in Nat /\ (claim[v] # 0 => run[v] \in Run)
    BY DEF TypeOK, PlaceInv, Attempt
  <2> DEFINE Fenced(u) ==
        claim[u] # 0 =>
          /\ claim[u] <= attempt[run[u]]
          /\ owner[run[u]] = u => claim[u] = attempt[run[u]]
          /\ \A v \in Worker \ {u} : run[v] = run[u] => claim[v] # claim[u]
  <2>6. \A v \in Worker : Fenced(v)
    BY DEF AttemptFence
  <2>7. \A v \in Worker \ {w} : run[v] = r => claim[v] < attempt[r] + 1
    BY <2>2, <2>5, <2>6
  <2>8. Fenced(w)'
    BY <1>6, <2>1, <2>2, <2>3, <2>4, <2>7 DEF TypeOK
  <2>9. ASSUME NEW u \in Worker \ {w} PROVE Fenced(u)'
    <3>1. claim'[u] = claim[u] /\ run'[u] = run[u]
      BY <2>3, <2>4 DEF TypeOK
    <3>2. CASE run[u] = r
      BY <3>1, <3>2, <2>1, <2>2, <2>3, <2>4, <2>5, <2>6, <2>7 DEF TypeOK
    <3>3. CASE run[u] # r
      BY <3>1, <3>3, <2>1, <2>3, <2>4, <2>5, <2>6 DEF TypeOK
    <3> QED BY <3>2, <3>3
  <2> QED BY <2>8, <2>9 DEF AttemptFence
<1>7. ASSUME NEW r \in Run, NEW w \in Worker, ClaimRaises(w, r) PROVE AttemptFence'
  BY <1>7 DEF TypeOK, PlaceInv, AttemptFence, ClaimRaises, ToPc
<1>8. ASSUME NEW w \in Worker, LoadRecorded(w) PROVE AttemptFence'
  BY <1>8 DEF TypeOK, PlaceInv, AttemptFence, LoadRecorded, ToPc
<1>9. ASSUME NEW w \in Worker, StopForCancel(w) PROVE AttemptFence'
  BY <1>9 DEF TypeOK, PlaceInv, AttemptFence, StopForCancel, ToPc
<1>10. ASSUME NEW w \in Worker, StartBatch(w) PROVE AttemptFence'
  BY <1>10 DEF TypeOK, PlaceInv, AttemptFence, StartBatch, ToPc
<1>11. ASSUME NEW w \in Worker, ObserveCancel(w) PROVE AttemptFence'
  BY <1>11 DEF TypeOK, PlaceInv, AttemptFence, ObserveCancel, ToPc
<1>12. ASSUME NEW w \in Worker, FinishBatch(w) PROVE AttemptFence'
  BY <1>12 DEF TypeOK, PlaceInv, AttemptFence, FinishBatch, ToPc
<1>13. ASSUME NEW w \in Worker, HeartbeatRead(w) PROVE AttemptFence'
  BY <1>13 DEF TypeOK, PlaceInv, AttemptFence, HeartbeatRead, ToPc
<1>14. ASSUME NEW w \in Worker, RenewDuring(w) PROVE AttemptFence'
  BY <1>14 DEF TypeOK, PlaceInv, AttemptFence, RenewDuring, ToPc
<1>15. ASSUME NEW w \in Worker, RenewAfter(w) PROVE AttemptFence'
  BY <1>15 DEF TypeOK, PlaceInv, AttemptFence, RenewAfter, ToPc
<1>16. ASSUME NEW w \in Worker, Raise(w) PROVE AttemptFence'
  BY <1>16 DEF TypeOK, PlaceInv, AttemptFence, Raise, ToPc
<1>17. ASSUME NEW w \in Worker, PersistRead(w) PROVE AttemptFence'
  BY <1>17 DEF TypeOK, PlaceInv, AttemptFence, PersistRead, ToPc
<1>18. ASSUME NEW w \in Worker, PersistCommit(w) PROVE AttemptFence'
  <2>1. owner' = owner /\ attempt' = attempt
    BY <1>18 DEF PersistCommit, CloseRow
  <2>2. run' = [run EXCEPT ![w] = NoRun] /\ claim' = [claim EXCEPT ![w] = 0]
    BY <1>18 DEF PersistCommit, Leave
  <2>3. stray' = [stray EXCEPT ![w] = 0] /\ pc' = [pc EXCEPT ![w] = "idle"]
    BY <1>18 DEF PersistCommit, Leave, ToPc
  <2> QED BY <2>1, <2>2, <2>3 DEF TypeOK, PlaceInv, AttemptFence
<1>19. ASSUME NEW w \in Worker, PersistRaises(w) PROVE AttemptFence'
  BY <1>19 DEF TypeOK, PlaceInv, AttemptFence, PersistRaises, ToPc
<1>20. ASSUME NEW w \in Worker, FailRead(w) PROVE AttemptFence'
  <2>1. owner' = owner /\ attempt' = attempt
    BY <1>20 DEF FailRead
  <2>2. CASE Leave(w)
    BY <2>1, <2>2 DEF TypeOK, PlaceInv, AttemptFence, Leave
  <2>3. CASE run' = run /\ claim' = claim
    BY <2>1, <2>3 DEF AttemptFence
  <2> QED BY <1>20, <2>2, <2>3 DEF FailRead
<1>21. ASSUME NEW w \in Worker, FailCommit(w) PROVE AttemptFence'
  <2>1. owner' = owner /\ attempt' = attempt
    BY <1>21 DEF FailCommit, CloseRow
  <2>2. run' = [run EXCEPT ![w] = NoRun] /\ claim' = [claim EXCEPT ![w] = 0]
    BY <1>21 DEF FailCommit, Leave
  <2>3. stray' = [stray EXCEPT ![w] = 0] /\ pc' = [pc EXCEPT ![w] = "idle"]
    BY <1>21 DEF FailCommit, Leave, ToPc
  <2> QED BY <2>1, <2>2, <2>3 DEF TypeOK, PlaceInv, AttemptFence
<1>22. ASSUME NEW w \in Worker, Abort(w) PROVE AttemptFence'
  BY <1>22 DEF TypeOK, PlaceInv, AttemptFence, Abort, Leave, ToPc
<1>24. ASSUME NEW r \in Run, PostEnds(r) PROVE AttemptFence'
  BY <1>24 DEF TypeOK, PlaceInv, AttemptFence, PostEnds
<1>25. ASSUME NEW r \in Run, PostRaises(r) PROVE AttemptFence'
  BY <1>25 DEF TypeOK, PlaceInv, AttemptFence, PostRaises
<1>26. ASSUME NEW r \in Run, PostFails(r) PROVE AttemptFence'
  BY <1>26 DEF TypeOK, PlaceInv, AttemptFence, PostFails
<1>23. CASE UNCHANGED vars
  BY <1>23 DEF TypeOK, PlaceInv, AttemptFence, vars
<1> QED
  BY <1>1, <1>2, <1>3, <1>4, <1>5, <1>6, <1>7, <1>8, <1>9, <1>10, <1>11, <1>12,
     <1>13, <1>14, <1>15, <1>16, <1>17, <1>18, <1>19, <1>20, <1>21, <1>22, <1>23, <1>24,
     <1>25, <1>26
     DEF Next, Execute

-----------------------------------------------------------------------------
(* Who writes results, gates and the status COMPLETED *)

LEMMA EvidenceWriter ==
  ASSUME [Next]_vars
  PROVE  \/ results' = results /\ gate' = gate
         \/ \E w \in Worker : PersistCommit(w)
BY DEF Next, Execute, vars, evidenceVars, rowVars, Create, PostEnds, PostRaises,
       PostFails, CancelRead, CancelCommit,
       ClaimCancelled, LeaseExpires, ClaimRun, ClaimRaises, LoadRecorded,
       StopForCancel, StartBatch, ObserveCancel, FinishBatch, HeartbeatRead,
       RenewDuring, RenewAfter, Raise, PersistRead, PersistRaises, FailRead,
       FailCommit, Abort

\* What a persist by w does to the evidence of its run and of the others.
LEMMA PersistEffect ==
  ASSUME TypeOK, PlaceInv, NEW w \in Worker, PersistCommit(w)
  PROVE  /\ run[w] \in Run /\ claim[w] \in 1 .. MaxAttempt
         /\ \A r \in Run \ {run[w]} : results'[r] = results[r] /\ gate'[r] = gate[r]
         /\ \A s \in captured[w] :
               results[run[w]][s] = 0 /\ results'[run[w]][s] = claim[w]
         /\ \A s \in Slot \ captured[w] : results'[run[w]][s] = results[run[w]][s]
         /\ gate'[run[w]] = IF Judged(w) THEN claim[w] ELSE gate[run[w]]
         /\ captured[w] \subseteq Slot
         /\ ~ cancelled[w] => captured[w] = Slot
<1>1. run[w] \in Run /\ claim[w] \in 1 .. MaxAttempt
  <2>1. pc[w] = "commit"
    BY DEF PersistCommit
  <2>2. run[w] \in Run /\ claim[w] # 0
    BY <2>1 DEF PlaceInv
  <2>3. claim[w] \in 0 .. MaxAttempt
    BY DEF TypeOK, Attempt
  <2> QED BY <2>2, <2>3, EvalRunAssumption
<1>2. captured[w] \subseteq Slot /\ (~ cancelled[w] => captured[w] = Slot)
  BY DEF PersistCommit, PlaceInv, TypeOK
<1>3. \A s \in captured[w] : results[run[w]][s] = 0
  BY DEF PersistCommit, Unwritten
<1>4. results' = [results EXCEPT ![run[w]] =
        [s \in Slot |-> IF s \in captured[w] THEN claim[w] ELSE results[run[w]][s]]]
  BY DEF PersistCommit
<1>5. gate' = [gate EXCEPT ![run[w]] = IF Judged(w) THEN claim[w] ELSE gate[run[w]]]
  BY DEF PersistCommit
<1> QED BY <1>1, <1>2, <1>3, <1>4, <1>5 DEF TypeOK

LEMMA CompletedWriter ==
  ASSUME TypeOK, PlaceInv, [Next]_vars,
         NEW r \in Run, status[r] # "COMPLETED", status'[r] = "COMPLETED"
  PROVE  \E w \in Worker : PersistCommit(w) /\ run[w] = r /\ ~ cancelled[w]
<1> USE DEF rowVars
<1>1. ASSUME NEW q \in Run, Create(q) PROVE FALSE
  BY <1>1 DEF TypeOK, Create
<1>2. ASSUME NEW q \in Run, CancelCommit(q) PROVE FALSE
  BY <1>2 DEF TypeOK, CancelCommit
<1>3. ASSUME NEW q \in Run, ClaimCancelled(q) PROVE FALSE
  BY <1>3 DEF TypeOK, ClaimCancelled
<1>4. ASSUME NEW q \in Run, NEW w \in Worker, ClaimRun(w, q) PROVE FALSE
  BY <1>4 DEF TypeOK, ClaimRun, TakeRow
<1>5. ASSUME NEW w \in Worker, FailCommit(w) PROVE FALSE
  BY <1>5 DEF TypeOK, PlaceInv, FailCommit, CloseRow, Flushed
<1>6. ASSUME NEW w \in Worker, PersistCommit(w)
      PROVE  run[w] = r /\ ~ cancelled[w]
  BY <1>6 DEF TypeOK, PlaceInv, PersistCommit, CloseRow, Flushed, Outcome
<1>7. status' # status
  OBVIOUS
<1>8. ASSUME NEW q \in Run, PostFails(q) PROVE FALSE
  BY <1>8 DEF TypeOK, PostFails
<1> QED
  BY <1>1, <1>2, <1>3, <1>4, <1>5, <1>6, <1>7, <1>8
     DEF Next, Execute, vars, PostEnds, PostRaises, CancelRead, LeaseExpires, ClaimRaises, LoadRecorded,
         StopForCancel, StartBatch, ObserveCancel, FinishBatch, HeartbeatRead,
         RenewDuring, RenewAfter, Raise, PersistRead, PersistRaises, FailRead, Abort

\* Only ClaimRun changes a row's attempt or gives a worker a claim.
LEMMA ClaimWriter ==
  ASSUME TypeOK, PlaceInv, [Next]_vars
  PROVE  \/ \E w \in Worker, r \in Run : ClaimRun(w, r)
         \/ /\ attempt' = attempt
            /\ \A w \in Worker :
                 claim'[w] = 0 \/ (claim'[w] = claim[w] /\ run'[w] = run[w])
<1> USE DEF rowVars, evidenceVars, apiVars, jobVars, copyVars, TypeOK
<1>1. ASSUME NEW w \in Worker, Leave(w)
      PROVE  \A v \in Worker : claim'[v] = 0 \/ (claim'[v] = claim[v] /\ run'[v] = run[v])
  BY <1>1 DEF Leave
<1>2. ASSUME NEW w \in Worker, PersistCommit(w) \/ FailCommit(w)
      PROVE  Leave(w) /\ attempt' = attempt
  BY <1>2 DEF PersistCommit, FailCommit, CloseRow
<1>3. ASSUME NEW w \in Worker, Abort(w) \/ FailRead(w)
      PROVE  attempt' = attempt /\ (Leave(w) \/ UNCHANGED <<run, claim>>)
  BY <1>3 DEF Abort, FailRead
<1>4. ASSUME NEW w \in Worker, NEW r \in Run, ClaimRaises(w, r)
      PROVE  /\ attempt' = attempt
             /\ \A v \in Worker : claim'[v] = 0 \/ (claim'[v] = claim[v] /\ run'[v] = run[v])
  BY <1>4 DEF ClaimRaises, PlaceInv
<1> QED
  BY <1>1, <1>2, <1>3, <1>4
     DEF Next, Execute, vars, Create, PostEnds, PostRaises,
       PostFails, CancelRead, CancelCommit, ClaimCancelled,
         LeaseExpires, LoadRecorded, StopForCancel, StartBatch, ObserveCancel,
         FinishBatch, HeartbeatRead, RenewDuring, RenewAfter, Raise, PersistRead,
         PersistRaises

LEMMA FreshStep ==
  ASSUME TypeOK, PlaceInv, AttemptFence, FreshInv, [Next]_vars
  PROVE  FreshInv'
<1>1. ASSUME NEW w \in Worker, NEW r \in Run, ClaimRun(w, r) PROVE FreshInv'
  <2>1. results' = results /\ attempt' = [attempt EXCEPT ![r] = attempt[r] + 1]
    BY <1>1 DEF ClaimRun, TakeRow, evidenceVars
  <2>2. \A q \in Run : attempt[q] \in Nat /\ attempt'[q] \in Nat /\ attempt[q] <= attempt'[q]
    BY <2>1 DEF TypeOK, Attempt
  <2>3. \A q \in Run, s \in Slot : results[q][s] \in Nat /\ results[q][s] <= attempt[q]
    BY DEF FreshInv, TypeOK, Attempt
  <2>4. claim' = [claim EXCEPT ![w] = attempt[r] + 1] /\ run' = [run EXCEPT ![w] = r]
    BY <1>1, <2>1 DEF ClaimRun, TypeOK
  <2>5. \A q \in Run, s \in Slot : results'[q][s] <= attempt'[q]
    BY <2>1, <2>2, <2>3
  <2>6. \A s \in Slot : results'[r][s] # attempt[r] + 1
    BY <2>1, <2>2, <2>3
  <2> QED BY <2>1, <2>4, <2>5, <2>6 DEF FreshInv, TypeOK
<1>2. CASE /\ attempt' = attempt
           /\ \A w \in Worker : claim'[w] = 0 \/ (claim'[w] = claim[w] /\ run'[w] = run[w])
  <2>1. CASE results' = results /\ gate' = gate
    BY <1>2, <2>1 DEF FreshInv
  <2>2. ASSUME NEW w \in Worker, PersistCommit(w) PROVE FreshInv'
    <3>1. PICK q \in Run, a \in 1 .. MaxAttempt : q = run[w] /\ a = claim[w]
      BY <2>2, PersistEffect
    <3>2. a <= attempt[q] /\ \A v \in Worker \ {w} : run[v] = q => claim[v] # a
      BY <3>1 DEF AttemptFence
    <3>3. \A r \in Run \ {q} : results'[r] = results[r]
      BY <2>2, <3>1, PersistEffect
    <3>4. \A s \in Slot : results'[q][s] = a \/ results'[q][s] = results[q][s]
      BY <2>2, <3>1, PersistEffect
    <3>5. \A r \in Run, s \in Slot : results'[r][s] <= attempt'[r]
      BY <1>2, <3>2, <3>3, <3>4 DEF FreshInv
    <3>6. claim'[w] = 0
      BY <2>2 DEF PersistCommit, Leave, TypeOK
    <3>7. ASSUME NEW v \in Worker, claim'[v] # 0, NEW s \in Slot
          PROVE  results'[run'[v]][s] # claim'[v]
      <4>1. v # w /\ claim'[v] = claim[v] /\ run'[v] = run[v] /\ run[v] \in Run
        BY <1>2, <3>6, <3>7 DEF PlaceInv
      <4>2. results[run[v]][s] # claim[v]
        BY <3>7, <4>1 DEF FreshInv
      <4> QED BY <3>2, <3>3, <3>4, <4>1, <4>2
    <3> QED BY <3>5, <3>7 DEF FreshInv
  <2> QED BY <2>1, <2>2, EvidenceWriter
<1> QED BY <1>1, <1>2, ClaimWriter

LEMMA VerdictStep ==
  ASSUME TypeOK, PlaceInv, VerdictComplete, [Next]_vars
  PROVE  VerdictComplete'
<1>1. CASE results' = results /\ gate' = gate
  BY <1>1 DEF VerdictComplete
<1>2. ASSUME NEW w \in Worker, PersistCommit(w) PROVE VerdictComplete'
  <2> DEFINE q == run[w]
  <2> SUFFICES ASSUME NEW r \in Run, gate'[r] # 0, NEW s \in Slot
               PROVE  results'[r][s] = gate'[r]
    BY DEF VerdictComplete
  <2>1. CASE r # q
    BY <1>2, <2>1, PersistEffect DEF VerdictComplete
  <2>2. CASE r = q /\ Judged(w)
    BY <1>2, <2>2, PersistEffect DEF Judged
  <2>3. CASE r = q /\ ~ Judged(w)
    <3>1. gate[q] # 0 /\ gate'[q] = gate[q]
      BY <1>2, <2>3, PersistEffect
    <3>2. results[q][s] = gate[q]
      BY <3>1, <2>3 DEF VerdictComplete
    <3>3. s \notin captured[w]
      BY <1>2, <3>1, <3>2, PersistEffect
    <3> QED BY <1>2, <2>3, <3>1, <3>2, <3>3, PersistEffect
  <2> QED BY <2>1, <2>2, <2>3
<1> QED BY <1>1, <1>2, EvidenceWriter

LEMMA CompletedStep ==
  ASSUME TypeOK, PlaceInv, CompletedWhole, [Next]_vars
  PROVE  CompletedWhole'
<1> DEFINE Whole(r, a) == (\A s \in Slot : results[r][s] = a) /\ (r \in Gated => gate[r] = a)
<1> SUFFICES ASSUME NEW r \in Run, status'[r] = "COMPLETED"
             PROVE  \E a \in 1 .. MaxAttempt : Whole(r, a)'
  BY DEF CompletedWhole
<1>1. CASE status[r] # "COMPLETED"
  <2>1. PICK w \in Worker : PersistCommit(w) /\ run[w] = r /\ ~ cancelled[w]
    BY <1>1, CompletedWriter
  <2>2. \A s \in Slot : results'[r][s] = claim[w]
    BY <2>1, PersistEffect
  <2>3. r \in Gated => gate'[r] = claim[w]
    BY <2>1, PersistEffect DEF Judged
  <2>4. claim[w] \in 1 .. MaxAttempt
    BY <2>1, PersistEffect
  <2> QED BY <2>2, <2>3, <2>4
<1>2. CASE status[r] = "COMPLETED"
  <2>1. PICK a \in 1 .. MaxAttempt : Whole(r, a)
    BY <1>2 DEF CompletedWhole
  <2>2. CASE results' = results /\ gate' = gate
    BY <2>1, <2>2
  <2>3. ASSUME NEW w \in Worker, PersistCommit(w) PROVE Whole(r, a)'
    <3>1. CASE run[w] # r
      BY <2>1, <2>3, <3>1, PersistEffect
    <3>2. CASE run[w] = r
      <4>1. captured[w] = {}
        BY <2>1, <2>3, <3>2, PersistEffect
      <4>2. ~ Judged(w)
        BY <2>3, <4>1, EvalRunAssumption, PersistEffect DEF Judged
      <4> QED BY <2>1, <2>3, <3>2, <4>1, <4>2, PersistEffect
    <3> QED BY <3>1, <3>2
  <2> QED BY <2>1, <2>2, <2>3, EvidenceWriter
<1> QED BY <1>1, <1>2

LEMMA WriteOnceStep ==
  ASSUME TypeOK, PlaceInv, VerdictComplete, [Next]_vars, NEW r \in Run
  PROVE  /\ gate[r] # 0 => gate'[r] = gate[r]
         /\ \A s \in Slot : results[r][s] # 0 => results'[r][s] = results[r][s]
<1>1. CASE results' = results /\ gate' = gate
  BY <1>1
<1>2. ASSUME NEW w \in Worker, PersistCommit(w), run[w] = r
      PROVE  gate[r] # 0 => gate'[r] = gate[r]
  <2> SUFFICES ASSUME gate[r] # 0 PROVE gate'[r] = gate[r]
    OBVIOUS
  <2>1. \A s \in Slot : results[r][s] # 0
    BY DEF VerdictComplete
  <2>2. captured[w] = {}
    BY <1>2, <2>1, PersistEffect
  <2>3. ~ Judged(w)
    BY <1>2, <2>2, EvalRunAssumption, PersistEffect DEF Judged
  <2> QED BY <1>2, <2>3, PersistEffect
<1>3. ASSUME NEW w \in Worker, PersistCommit(w), run[w] = r
      PROVE  \A s \in Slot : results[r][s] # 0 => results'[r][s] = results[r][s]
  BY <1>3, PersistEffect
<1>4. ASSUME NEW w \in Worker, PersistCommit(w), run[w] # r
      PROVE  results'[r] = results[r] /\ gate'[r] = gate[r]
  BY <1>4, PersistEffect
<1> QED BY <1>1, <1>2, <1>3, <1>4, EvidenceWriter

-----------------------------------------------------------------------------
(* The theorems *)

LEMMA IInvStep == IInv /\ [Next]_vars => IInv'
BY TypeStep, PlaceStep, StrayStep, FreshStep, VerdictStep, CompletedStep, FenceStep DEF IInv

LEMMA Invariance == Spec => []IInv
BY InitIInv, IInvStep, PTL DEF Spec

\* The variables keep their types, whatever the workers, the API and the crashes do.
THEOREM TypeCorrect == Spec => []TypeOK
<1>1. IInv => TypeOK
  BY DEF IInv
<1> QED BY <1>1, Invariance, PTL

\* No interleaving of persists makes a gate decision rest on results of another attempt.
THEOREM VerdictsComplete == Spec => []VerdictComplete
<1>1. IInv => VerdictComplete
  BY DEF IInv
<1> QED BY <1>1, Invariance, PTL

\* COMPLETED is never said of a run with missing or mixed results.
THEOREM CompletedIsWhole == Spec => []CompletedWhole
<1>1. IInv => CompletedWhole
  BY DEF IInv
<1> QED BY <1>1, Invariance, PTL

\* A worker the row names executes the latest attempt; attempt numbers are not shared.
THEOREM AttemptsFenced == Spec => []AttemptFence
<1>1. IInv => AttemptFence
  BY DEF IInv
<1> QED BY <1>1, Invariance, PTL

\* A worker that lost its lease begins at most one more batch.
THEOREM StrayBounded == Spec => []StrayBound
<1>1. IInv => StrayBound
  BY DEF IInv, StrayInv, StrayBound
<1> QED BY <1>1, Invariance, PTL

\* What a persist has written, no later one changes.
THEOREM WrittenOnce == Spec => ResultsWriteOnce
<1>1. IInv /\ [Next]_vars =>
        [\A r \in Run :
           /\ gate[r] # 0 => gate'[r] = gate[r]
           /\ \A s \in Slot : results[r][s] # 0 => results'[r][s] = results[r][s]]_vars
  BY WriteOnceStep DEF IInv
<1> QED BY <1>1, Invariance, PTL DEF Spec, ResultsWriteOnce

-----------------------------------------------------------------------------
(* The refinement of ReleaseEvidence *)

LEMMA EvidenceIs ==
  ASSUME NEW r \in Run, NEW a \in 1 .. MaxAttempt
  PROVE  /\ (\A s \in Slot : results[r][s] = a) => Evidence(r) = a
         /\ (\A s \in Slot : results'[r][s] = a) => Evidence(r)' = a
<1>1. ASSUME \A s \in Slot : results[r][s] = a PROVE Evidence(r) = a
  <2>1. \A b \in 1 .. MaxAttempt : (\A s \in Slot : results[r][s] = b) => b = a
    BY <1>1, EvalRunAssumption
  <2> QED BY <1>1, <2>1 DEF Evidence
<1>2. ASSUME \A s \in Slot : results'[r][s] = a PROVE Evidence(r)' = a
  <2>1. \A b \in 1 .. MaxAttempt : (\A s \in Slot : results'[r][s] = b) => b = a
    BY <1>2, EvalRunAssumption
  <2> QED BY <1>2, <2>1 DEF Evidence
<1> QED BY <1>1, <1>2

LEMMA EvidenceIsNot ==
  ASSUME NEW r \in Run, NEW s \in Slot
  PROVE  /\ results[r][s] = 0 => Evidence(r) = 0
         /\ \A p \in Slot : results'[r][s] # results'[r][p] => Evidence(r)' = 0
BY DEF Evidence

\* The persist that completes the evidence publishes it; any other one writes
\* results that never become evidence.
LEMMA PublishStep ==
  ASSUME IInv, NEW w \in Worker, PersistCommit(w)
  PROVE  [Contract!Next]_Contract!vars
<1> USE DEF IInv
<1>1. PICK q \in Run : q = run[w]
  BY PersistEffect
<1>2. PICK a \in 1 .. attempt[q] : a = claim[w]
  <2>1. claim[w] \in 1 .. MaxAttempt
    BY PersistEffect
  <2>2. claim[w] <= attempt[q] /\ attempt[q] \in Nat
    BY <1>1, <2>1 DEF AttemptFence, TypeOK, Attempt
  <2> QED BY <2>1, <2>2
<1>3. a \in 1 .. MaxAttempt
  BY <1>1, <1>2, PersistEffect
<1>4. attempt' = attempt
  BY DEF PersistCommit, CloseRow
<1>5. \A r \in Run \ {q} : results'[r] = results[r] /\ gate'[r] = gate[r]
  BY <1>1, PersistEffect
<1>6. \A r \in Run \ {q} : Evidence(r)' = Evidence(r)
  BY <1>5 DEF Evidence
<1>7. gate \in [Run -> Attempt] /\ gate' \in [Run -> Attempt]
  <2>1. gate' = [gate EXCEPT ![q] = IF Judged(w) THEN claim[w] ELSE gate[q]]
    BY <1>1 DEF PersistCommit
  <2>2. claim[w] \in Attempt
    BY DEF TypeOK
  <2> QED BY <2>1, <2>2 DEF TypeOK
<1>8. CASE captured[w] = Slot
  <2>1. PICK s \in Slot : results[q][s] = 0
    BY <1>1, <1>8, EvalRunAssumption, PersistEffect
  <2>2. Evidence(q) = 0
    BY <2>1, EvidenceIsNot
  <2>3. Evidence(q)' = a
    BY <1>1, <1>2, <1>3, <1>8, EvidenceIs, PersistEffect
  <2>4. [r \in Run |-> Evidence(r)]' = [[r \in Run |-> Evidence(r)] EXCEPT ![q] = a]
    BY <1>6, <2>3
  <2>5. gate' \in {gate, [gate EXCEPT ![q] = a]}
    <3>1. gate'[q] \in {gate[q], a}
      BY <1>1, <1>2, PersistEffect
    <3> QED BY <1>5, <1>7, <3>1
  <2> QED BY <1>4, <2>2, <2>4, <2>5 DEF Contract!Next, Contract!Publish
<1>9. CASE captured[w] # Slot
  <2>1. gate'[q] = gate[q]
    BY <1>1, <1>9, PersistEffect DEF Judged
  <2>2. gate' = gate
    BY <1>5, <1>7, <2>1
  <2>3. Evidence(q)' = Evidence(q)
    <3>1. CASE captured[w] = {}
      <4>1. \A s \in Slot : results'[q][s] = results[q][s]
        BY <1>1, <3>1, PersistEffect
      <4> QED BY <4>1 DEF Evidence
    <3>2. CASE captured[w] # {}
      <4>1. PICK s \in captured[w], p \in Slot \ captured[w] : TRUE
        BY <1>9, <3>2, PersistEffect
      <4>2. s \in Slot /\ results[q][s] = 0 /\ results'[q][s] = a
        BY <1>1, <1>2, <4>1, PersistEffect
      <4>3. results'[q][p] # a
        <5>1. results'[q][p] = results[q][p]
          BY <1>1, <4>1, PersistEffect
        <5>2. results[q][p] # a
          BY <1>1, <1>2, <4>1 DEF FreshInv
        <5> QED BY <5>1, <5>2
      <4> QED BY <4>1, <4>2, <4>3, EvidenceIsNot
    <3> QED BY <3>1, <3>2
  <2> QED BY <1>4, <1>6, <2>2, <2>3 DEF Contract!vars
<1> QED BY <1>8, <1>9

LEMMA ContractInit ==
  ASSUME Init
  PROVE  Contract!Init
<1>1. \A r \in Run : Evidence(r) = 0
  BY EvalRunAssumption DEF Init, Evidence
<1> QED BY <1>1 DEF Init, Contract!Init

LEMMA ContractStep ==
  ASSUME IInv, [Next]_vars
  PROVE  [Contract!Next]_Contract!vars
<1>1. ASSUME NEW w \in Worker, PersistCommit(w) PROVE [Contract!Next]_Contract!vars
  BY <1>1, PublishStep
<1>2. ASSUME NEW w \in Worker, NEW r \in Run, ClaimRun(w, r)
      PROVE  Contract!Begin(r)
  BY <1>2 DEF ClaimRun, TakeRow, evidenceVars, Evidence, Contract!Begin
<1>3. CASE attempt' = attempt /\ results' = results /\ gate' = gate
  BY <1>3 DEF Evidence, Contract!vars
<1>4. ASSUME NEW w \in Worker, FailCommit(w)
      PROVE  attempt' = attempt /\ results' = results /\ gate' = gate
  BY <1>4 DEF FailCommit, CloseRow, evidenceVars
<1> QED
  BY <1>1, <1>2, <1>3, <1>4
     DEF Next, Execute, vars, evidenceVars, rowVars, Create, PostEnds, PostRaises,
       PostFails, CancelRead, CancelCommit,
         ClaimCancelled, LeaseExpires, ClaimRaises, LoadRecorded, StopForCancel,
         StartBatch, ObserveCancel, FinishBatch, HeartbeatRead, RenewDuring,
         RenewAfter, Raise, PersistRead, PersistRaises, FailRead, Abort,
         Contract!Next

\* Runs implement their contract: whatever the workers do, the evidence of a run
\* appears once, as a whole, from one attempt, and the verdict with it or never.
THEOREM Implements == Spec => ImplementsContract
<1>1. Init => Contract!Init
  BY ContractInit
<1>2. IInv /\ [Next]_vars => [Contract!Next]_Contract!vars
  BY ContractStep
<1> QED BY <1>1, <1>2, Invariance, PTL DEF Spec, ImplementsContract, Contract!Spec
=============================================================================
