------------------------------ MODULE EvalRun ------------------------------
(***************************************************************************)
(* The life of an evaluation run: its row in the table eval_runs, the      *)
(* results and the gate written for it, the executions of it by worker     *)
(* processes (InspectRunExecutor in execution.py) and the cancel request   *)
(* of the API (api/routes.py).                                             *)
(*                                                                         *)
(* How a run's id reaches a worker is left open: an idle worker may be     *)
(* handed any id at any time.  Every delivery mechanism of the repository  *)
(* (Redis lists, Kafka topic) is a restriction of that, so what is proved  *)
(* of this module holds under both.  RedisDispatch adds the Redis one.     *)
(*                                                                         *)
(* A database session that reads a row without a lock and commits later is *)
(* two steps here, a read and a commit, because PostgreSQL's READ          *)
(* COMMITTED lets other sessions commit in between.  Only _claim reads     *)
(* under FOR UPDATE and is one step.                                       *)
(***************************************************************************)
EXTENDS Naturals, Sequences

CONSTANTS
  Run,          \* ids of evaluation runs
  Worker,       \* worker processes; a restarted process has a new worker_id,
                \* but the old one's execution is gone, so the name is reused
  NoRun, NoWorker,
  Slot,         \* the (version role, case) pairs a run has to produce
  Recorded,     \* the slots copied from a recorded Baseline run
  Batches,      \* the live batches of slots, Baseline's before Candidate's
  Gated,        \* runs with a gate policy and a Baseline version
  MaxAttempt    \* bound on the claims of one run

ASSUME EvalRunAssumption ==
  /\ NoRun \notin Run
  /\ NoWorker \notin Worker
  /\ Slot # {}
  /\ Recorded \subseteq Slot
  /\ Batches \in Seq(SUBSET Slot)
  /\ Len(Batches) > 0
  /\ Slot = Recorded \cup UNION {Batches[i] : i \in 1 .. Len(Batches)}
  /\ Gated \subseteq Run
  /\ MaxAttempt \in Nat

VARIABLES
  status, owner, lease, attempt,  \* columns of eval_runs: status, worker_id,
                                  \* lease_expires_at against now(), attempt
  results,  \* results[r][s]: the attempt that wrote slot s's CaseResult, or 0
  gate,     \* gate[r]: the attempt that wrote the GateResult, or 0
  post,     \* post[r]: where the request that created r stands with enqueueing
            \* it: "open" before or in enqueue, "raised" when that has raised
  cancel,   \* cancel[r]: the status an open cancel request is about to commit
  pc,       \* pc[w]: where worker w stands in InspectRunExecutor.execute
  run, claim, batch, captured, cancelled,
            \* the locals of that call: the run, the number of the attempt it
            \* claimed, the next batch, the slots captured, the cancelled flag
  stray,    \* history: the batches this call began while the row did not name
            \* w as the owner
  sawStatus, sawLease
            \* the two columns as w's session loaded them before its commit

rowVars == <<status, owner, lease, attempt>>
evidenceVars == <<results, gate>>
jobVars == <<run, claim, batch, captured, cancelled, stray>>
copyVars == <<sawStatus, sawLease>>
apiVars == <<post, cancel>>
vars == <<rowVars, evidenceVars, apiVars, pc, jobVars, copyVars>>

-----------------------------------------------------------------------------
(* Types *)

Final == {"COMPLETED", "CANCELLED", "FAILED"}
Status == {"ABSENT", "QUEUED", "RUNNING", "CANCEL_REQUESTED",
           "COMPLETED", "CANCELLED", "FAILED"}
Lease == {"none", "live", "expired"}
Attempt == 0 .. MaxAttempt
Location == {"idle", "load", "check", "run", "beat", "endBatch", "endBeat",
             "persist", "commit", "fail", "failCommit"}

TypeOK ==
  /\ status \in [Run -> Status]
  /\ owner \in [Run -> Worker \cup {NoWorker}]
  /\ lease \in [Run -> Lease]
  /\ attempt \in [Run -> Attempt]
  /\ results \in [Run -> [Slot -> Attempt]]
  /\ gate \in [Run -> Attempt]
  /\ post \in [Run -> {"none", "open", "raised"}]
  /\ cancel \in [Run -> {"none", "CANCELLED", "CANCEL_REQUESTED"}]
  /\ pc \in [Worker -> Location]
  /\ run \in [Worker -> Run \cup {NoRun}]
  /\ claim \in [Worker -> Attempt]
  /\ batch \in [Worker -> 1 .. Len(Batches) + 1]
  /\ captured \in [Worker -> SUBSET Slot]
  /\ cancelled \in [Worker -> BOOLEAN]
  /\ stray \in [Worker -> Nat]
  /\ sawStatus \in [Worker -> Status]
  /\ sawLease \in [Worker -> Lease]

Init ==
  /\ status = [r \in Run |-> "ABSENT"]
  /\ owner = [r \in Run |-> NoWorker]
  /\ lease = [r \in Run |-> "none"]
  /\ attempt = [r \in Run |-> 0]
  /\ results = [r \in Run |-> [s \in Slot |-> 0]]
  /\ gate = [r \in Run |-> 0]
  /\ post = [r \in Run |-> "none"]
  /\ cancel = [r \in Run |-> "none"]
  /\ pc = [w \in Worker |-> "idle"]
  /\ run = [w \in Worker |-> NoRun]
  /\ claim = [w \in Worker |-> 0]
  /\ batch = [w \in Worker |-> 1]
  /\ captured = [w \in Worker |-> {}]
  /\ cancelled = [w \in Worker |-> FALSE]
  /\ stray = [w \in Worker |-> 0]
  /\ sawStatus = [w \in Worker |-> "ABSENT"]
  /\ sawLease = [w \in Worker |-> "none"]

-----------------------------------------------------------------------------
(* Helpers *)

StatusOf(w) == status[run[w]]
ToPc(w, l) == pc' = [pc EXCEPT ![w] = l]

\* session.get: the columns as they are now, kept until the commit.
Load(w) ==
  /\ sawStatus' = [sawStatus EXCEPT ![w] = StatusOf(w)]
  /\ sawLease' = [sawLease EXCEPT ![w] = lease[run[w]]]

Forget(w) ==
  /\ sawStatus' = [sawStatus EXCEPT ![w] = "ABSENT"]
  /\ sawLease' = [sawLease EXCEPT ![w] = "none"]

\* The session flushes only the columns whose value differs from the one it
\* loaded; another session's commit in between survives in the others.
Flushed(old, new, current) == IF new = old THEN current ELSE new

\* A session commits status st and lease NULL on the row it loaded.
CloseRow(w, st) ==
  /\ status' = [status EXCEPT ![run[w]] = Flushed(sawStatus[w], st, @)]
  /\ lease' = [lease EXCEPT ![run[w]] = Flushed(sawLease[w], "none", @)]
  /\ UNCHANGED <<owner, attempt>>

\* execute returns, or the process is gone.
Leave(w) ==
  /\ ToPc(w, "idle")
  /\ run' = [run EXCEPT ![w] = NoRun]
  /\ claim' = [claim EXCEPT ![w] = 0]
  /\ batch' = [batch EXCEPT ![w] = 1]
  /\ captured' = [captured EXCEPT ![w] = {}]
  /\ cancelled' = [cancelled EXCEPT ![w] = FALSE]
  /\ stray' = [stray EXCEPT ![w] = 0]
  /\ Forget(w)

-----------------------------------------------------------------------------
(* The API: a run is created, and its cancellation requested.              *)

Create(r) ==
  /\ status[r] = "ABSENT"
  /\ status' = [status EXCEPT ![r] = "QUEUED"]
  /\ post' = [post EXCEPT ![r] = "open"]
  /\ UNCHANGED <<owner, lease, attempt, evidenceVars, cancel, pc, jobVars, copyVars>>

\* The request is over: the id is enqueued, or the API process died before, or
\* the request was a replay, which does not look at enqueue's exception.
PostEnds(r) ==
  /\ post[r] # "none"
  /\ post' = [post EXCEPT ![r] = "none"]
  /\ UNCHANGED <<rowVars, evidenceVars, cancel, pc, jobVars, copyVars>>

PostRaises(r) ==
  /\ post[r] = "open"
  /\ post' = [post EXCEPT ![r] = "raised"]
  /\ UNCHANGED <<rowVars, evidenceVars, cancel, pc, jobVars, copyVars>>

\* post_eval_run's session still holds the row as it inserted it, QUEUED, so
\* this overwrites whatever a worker has made of the run since.
PostFails(r) ==
  /\ post[r] = "raised"
  /\ status' = [status EXCEPT ![r] = "FAILED"]
  /\ post' = [post EXCEPT ![r] = "none"]
  /\ UNCHANGED <<owner, lease, attempt, evidenceVars, cancel, pc, jobVars, copyVars>>

CancelMutantStatus(st) == IF st = "QUEUED" THEN "FAILED" ELSE "CANCEL_REQUESTED"

\* What cancel_eval_run assigns after it has read status st.
CancelStatus(st) == IF st = "QUEUED" THEN "CANCELLED" ELSE "CANCEL_REQUESTED"

CancelRead(r) ==
  /\ cancel[r] = "none"
  /\ status[r] \in {"QUEUED", "RUNNING"}
  /\ cancel' = [cancel EXCEPT ![r] = CancelStatus(status[r])]
  /\ UNCHANGED <<rowVars, evidenceVars, post, pc, jobVars, copyVars>>

CancelCommit(r) ==
  /\ cancel[r] # "none"
  /\ status' = [status EXCEPT ![r] = cancel[r]]
  /\ cancel' = [cancel EXCEPT ![r] = "none"]
  /\ UNCHANGED <<owner, lease, attempt, evidenceVars, post, pc, jobVars, copyVars>>

-----------------------------------------------------------------------------
(* _claim                                                                  *)

Claimable(r) ==
  \/ status[r] = "QUEUED"
  \/ status[r] = "RUNNING" /\ lease[r] # "live"

\* execute(r) ends at once and leaves everything as it is: the row is absent
\* or final, another worker's lease on it is live, or SKIP LOCKED passed over
\* it because a _persist holds the KEY SHARE lock of its inserted results.
ClaimRefused(r) ==
  \/ status[r] \in {"ABSENT"} \cup Final
  \/ status[r] = "RUNNING" /\ lease[r] = "live"
  \/ \E w \in Worker : pc[w] = "commit" /\ run[w] = r /\ captured[w] # {}

ClaimCancelled(r) ==
  /\ status[r] = "CANCEL_REQUESTED"
  /\ status' = [status EXCEPT ![r] = "CANCELLED"]
  /\ UNCHANGED <<owner, lease, attempt, evidenceVars, apiVars, pc, jobVars, copyVars>>

TakeRowMutantOwner(w, r) ==
  /\ status' = [status EXCEPT ![r] = "RUNNING"]
  /\ owner' = [owner EXCEPT ![r] = IF @ = NoWorker THEN w ELSE @]
  /\ lease' = [lease EXCEPT ![r] = "live"]
  /\ attempt' = [attempt EXCEPT ![r] = @ + 1]

\* What a successful _claim by w commits.
TakeRow(w, r) ==
  /\ status' = [status EXCEPT ![r] = "RUNNING"]
  /\ owner' = [owner EXCEPT ![r] = w]
  /\ lease' = [lease EXCEPT ![r] = "live"]
  /\ attempt' = [attempt EXCEPT ![r] = @ + 1]

ClaimRun(w, r) ==
  /\ pc[w] = "idle"
  /\ Claimable(r)
  /\ attempt[r] < MaxAttempt
  /\ TakeRow(w, r)
  /\ ToPc(w, "load")
  /\ run' = [run EXCEPT ![w] = r]
  /\ claim' = [claim EXCEPT ![w] = attempt'[r]]
  /\ UNCHANGED <<evidenceVars, apiVars, batch, captured, cancelled, stray, copyVars>>

\* A claimable run whose dataset, versions or policy bundle no longer check
\* out: the claim is rolled back and execute goes to _mark_failed.
ClaimRaises(w, r) ==
  /\ pc[w] = "idle"
  /\ Claimable(r)
  /\ ToPc(w, "fail")
  /\ run' = [run EXCEPT ![w] = r]
  /\ UNCHANGED <<rowVars, evidenceVars, apiVars, claim, batch, captured, cancelled, stray, copyVars>>

-----------------------------------------------------------------------------
(* The versions and batches of execute                                     *)

LoadRecorded(w) ==
  /\ pc[w] = "load"
  /\ captured' = [captured EXCEPT ![w] = Recorded]
  /\ ToPc(w, "check")
  /\ UNCHANGED <<rowVars, evidenceVars, apiVars, run, claim, batch, cancelled, stray, copyVars>>

\* Between two batches: a cancel request ends the loops, else the next batch
\* is built and started.
StopForCancel(w) ==
  /\ pc[w] = "check"
  /\ StatusOf(w) = "CANCEL_REQUESTED"
  /\ cancelled' = [cancelled EXCEPT ![w] = TRUE]
  /\ ToPc(w, "persist")
  /\ UNCHANGED <<rowVars, evidenceVars, apiVars, run, claim, batch, captured, stray, copyVars>>

StartBatch(w) ==
  /\ pc[w] = "check"
  /\ StatusOf(w) # "CANCEL_REQUESTED"
  /\ stray' = [stray EXCEPT ![w] = IF owner[run[w]] = w THEN @ ELSE @ + 1]
  /\ ToPc(w, "run")
  /\ UNCHANGED <<rowVars, evidenceVars, apiVars, run, claim, batch, captured, cancelled, copyVars>>

\* While the batch runs: the heartbeat loop sees a cancel request and keeps
\* whatever part of the batch the harness had captured by then.
ObserveCancel(w) ==
  /\ pc[w] = "run"
  /\ StatusOf(w) = "CANCEL_REQUESTED"
  /\ \E part \in SUBSET Batches[batch[w]] :
       captured' = [captured EXCEPT ![w] = @ \cup part]
  /\ cancelled' = [cancelled EXCEPT ![w] = TRUE]
  /\ ToPc(w, "persist")
  /\ UNCHANGED <<rowVars, evidenceVars, apiVars, run, claim, batch, stray, copyVars>>

FinishBatch(w) ==
  /\ pc[w] = "run"
  /\ captured' = [captured EXCEPT ![w] = @ \cup Batches[batch[w]]]
  /\ ToPc(w, "endBatch")
  /\ UNCHANGED <<rowVars, evidenceVars, apiVars, run, claim, batch, cancelled, stray, copyVars>>

OwnedMutant(w) == StatusOf(w) \notin Final

\* The test of _heartbeat.
Owned(w) == owner[run[w]] = w /\ StatusOf(w) \notin Final

\* _heartbeat reads the row, in the loop beside a running batch or after it.
HeartbeatRead(w) ==
  /\ \/ pc[w] = "run" /\ StatusOf(w) # "CANCEL_REQUESTED"
     \/ pc[w] = "endBatch"
  /\ ToPc(w, IF ~ Owned(w) THEN "fail" ELSE IF pc[w] = "run" THEN "beat" ELSE "endBeat")
  /\ UNCHANGED <<rowVars, evidenceVars, apiVars, jobVars, copyVars>>

\* ... and commits the renewed lease, back beside the batch,
RenewDuring(w) ==
  /\ pc[w] = "beat"
  /\ lease' = [lease EXCEPT ![run[w]] = "live"]
  /\ ToPc(w, "run")
  /\ UNCHANGED <<status, owner, attempt, evidenceVars, apiVars, jobVars, copyVars>>

\* or on to the next batch and, after the last one, out of the loops.
RenewAfter(w) ==
  /\ pc[w] = "endBeat"
  /\ lease' = [lease EXCEPT ![run[w]] = "live"]
  /\ batch' = [batch EXCEPT ![w] = @ + 1]
  /\ ToPc(w, IF batch[w] = Len(Batches) THEN "persist" ELSE "check")
  /\ UNCHANGED <<status, owner, attempt, evidenceVars, apiVars, run, claim,
                 captured, cancelled, stray, copyVars>>

\* Anything the executor calls outside its own sessions may raise: the copy of
\* the recorded Baseline, the adapter factory, the harness, a capture count.
Raise(w) ==
  /\ pc[w] \in {"load", "check", "run"}
  /\ ToPc(w, "fail")
  /\ UNCHANGED <<rowVars, evidenceVars, apiVars, jobVars, copyVars>>

-----------------------------------------------------------------------------
(* _persist                                                                *)

PersistRead(w) ==
  /\ pc[w] = "persist"
  /\ IF cancelled[w] \/ captured[w] = Slot
       THEN Load(w) /\ ToPc(w, "commit")
       ELSE ToPc(w, "fail") /\ UNCHANGED copyVars
  /\ UNCHANGED <<rowVars, evidenceVars, apiVars, jobVars>>

UnwrittenMutant(w) == TRUE

\* uq_case_results_attempt: CaseResult.attempt keeps its default, so a slot
\* of a run takes one row, whichever attempt inserts it.
Unwritten(w) == \A s \in captured[w] : results[run[w]][s] = 0

OutcomeMutant(w) == "COMPLETED"
Outcome(w) == IF cancelled[w] THEN "CANCELLED" ELSE "COMPLETED"

JudgedMutant(w) == run[w] \in Gated

\* Only an uncancelled run with a policy and a Baseline gets a GateResult.
Judged(w) == ~ cancelled[w] /\ run[w] \in Gated

\* Results, status and gate of one transaction.
PersistCommit(w) ==
  /\ pc[w] = "commit"
  /\ Unwritten(w)
  /\ results' = [results EXCEPT ![run[w]] =
       [s \in Slot |-> IF s \in captured[w] THEN claim[w] ELSE @[s]]]
  /\ gate' = [gate EXCEPT ![run[w]] = IF Judged(w) THEN claim[w] ELSE @]
  /\ CloseRow(w, Outcome(w))
  /\ Leave(w)
  /\ UNCHANGED apiVars

\* A duplicate key, or any other database error, rolls all of it back.
PersistRaises(w) ==
  /\ pc[w] = "commit"
  /\ ToPc(w, "fail")
  /\ Forget(w)
  /\ UNCHANGED <<rowVars, evidenceVars, apiVars, jobVars>>

-----------------------------------------------------------------------------
(* _mark_failed                                                            *)

FailRead(w) ==
  /\ pc[w] = "fail"
  /\ IF StatusOf(w) \in {"COMPLETED", "CANCELLED"}
       THEN Leave(w)
       ELSE Load(w) /\ ToPc(w, "failCommit") /\ UNCHANGED jobVars
  /\ UNCHANGED <<rowVars, evidenceVars, apiVars>>

FailCommit(w) ==
  /\ pc[w] = "failCommit"
  /\ CloseRow(w, "FAILED")
  /\ Leave(w)
  /\ UNCHANGED <<evidenceVars, apiVars>>

-----------------------------------------------------------------------------
(* Time and crashes                                                        *)

LeaseExpires(r) ==
  /\ lease[r] = "live"
  /\ lease' = [lease EXCEPT ![r] = "expired"]
  /\ UNCHANGED <<status, owner, attempt, evidenceVars, apiVars, pc, jobVars, copyVars>>

\* The process dies, or the database refuses even _mark_failed and the
\* exception leaves execute.  Open transactions are rolled back.
Abort(w) ==
  /\ pc[w] # "idle"
  /\ Leave(w)
  /\ UNCHANGED <<rowVars, evidenceVars, apiVars>>

-----------------------------------------------------------------------------
Execute(w) ==
  \/ LoadRecorded(w)
  \/ StopForCancel(w)
  \/ StartBatch(w)
  \/ ObserveCancel(w)
  \/ FinishBatch(w)
  \/ HeartbeatRead(w)
  \/ RenewDuring(w)
  \/ RenewAfter(w)
  \/ Raise(w)
  \/ PersistRead(w)
  \/ PersistCommit(w)
  \/ PersistRaises(w)
  \/ FailRead(w)
  \/ FailCommit(w)

Next ==
  \/ \E r \in Run :
       \/ Create(r)
       \/ PostEnds(r)
       \/ PostRaises(r)
       \/ PostFails(r)
       \/ CancelRead(r)
       \/ CancelCommit(r)
       \/ ClaimCancelled(r)
       \/ LeaseExpires(r)
       \/ \E w \in Worker : ClaimRun(w, r) \/ ClaimRaises(w, r)
  \/ \E w \in Worker : Execute(w) \/ Abort(w)

Spec == Init /\ [][Next]_vars

-----------------------------------------------------------------------------
(* Safety                                                                  *)

\* A gate decision never rests on a mixture: when a run has a GateResult, each
\* of its slots holds a result, and all of them were written by the attempt
\* that wrote the gate, however many workers, stale or not, persisted the run.
VerdictComplete ==
  \A r \in Run : gate[r] # 0 => \A s \in Slot : results[r][s] = gate[r]

\* A run that says COMPLETED has its full set of results from one attempt, and
\* its gate from the same attempt when it is a gated run.
CompletedWhole ==
  \A r \in Run : status[r] = "COMPLETED" =>
    \E a \in 1 .. MaxAttempt :
      /\ \A s \in Slot : results[r][s] = a
      /\ r \in Gated => gate[r] = a

\* worker_id is a usable fencing token although it names a process and not a
\* claim: the execution whose worker the row names is the latest attempt, and
\* no two executions of a run in progress share an attempt number.
AttemptFence ==
  \A w \in Worker : claim[w] # 0 =>
    /\ claim[w] <= attempt[run[w]]
    /\ owner[run[w]] = w => claim[w] = attempt[run[w]]
    /\ \A v \in Worker \ {w} :
         run[v] = run[w] => claim[v] # claim[w]

\* "Ownership fencing before subsequent batches" (progress.md:113): a worker
\* that lost its run begins at most one more batch, the one it starts between
\* its last successful heartbeat and the next.
StrayBound == \A w \in Worker : stray[w] <= 1

\* Results and gates are written once: no later persist, of whichever attempt,
\* changes or removes a CaseResult or a GateResult.
ResultsWriteOnce ==
  [][\A r \in Run :
       /\ gate[r] # 0 => gate'[r] = gate[r]
       /\ \A s \in Slot : results[r][s] # 0 => results'[r][s] = results[r][s]]_vars

-----------------------------------------------------------------------------
(* What the code does not keep                                             *)

\* findings.md:105, "The executor now runs a periodic heartbeat concurrently
\* and aborts if database lease ownership is lost": an execution that had
\* claimed a RUNNING run and closes it is the one whose worker the row names.
\* It is violated: neither _persist nor _mark_failed looks at worker_id.
OwnerCloses ==
  [][\A w \in Worker :
       LET r == run[w] IN
       (/\ pc[w] \in {"commit", "failCommit"} /\ pc'[w] = "idle" /\ claim[w] # 0
        /\ status[r] = "RUNNING" /\ status'[r] # "RUNNING")
         => owner[r] = w]_vars

-----------------------------------------------------------------------------
(* The contract with the readers of the evidence (gate, comparison, replay,
   recorded Baselines) is the specification ReleaseEvidence.               *)

\* The attempt that produced a full set of results for r, or 0.
Evidence(r) ==
  IF \E a \in 1 .. MaxAttempt : \A s \in Slot : results[r][s] = a
    THEN CHOOSE a \in 1 .. MaxAttempt : \A s \in Slot : results[r][s] = a
    ELSE 0

Contract == INSTANCE ReleaseEvidence WITH
  begun <- attempt,
  evidence <- [r \in Run |-> Evidence(r)],
  verdict <- gate

\* Every run publishes its evidence at most once, as a whole, and the verdict
\* only in the same step.
ImplementsContract == Contract!Spec
=============================================================================
