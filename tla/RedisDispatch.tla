--------------------------- MODULE RedisDispatch ---------------------------
(***************************************************************************)
(* Evaluation runs dispatched by Redis: the lists "ready" and "processing" *)
(* of RedisRunQueue, the worker process around them (queue.py, worker.py)  *)
(* and the requests that enqueue (api/routes.py), composed with EvalRun.   *)
(*                                                                         *)
(* What can fail is a parameter: Faults names the kinds a configuration    *)
(* allows, MaxCrash bounds the worker crashes.                             *)
(***************************************************************************)
EXTENDS EvalRun, FiniteSets

CONSTANTS
  Faults,     \* a subset of FaultKind
  MaxCrash,   \* bound on the crashes of worker processes
  MaxReady,   \* bound on the length of the ready list
  LateRestart \* TRUE: a worker starts only when no lease is live, i.e. it
              \* stays down for lease_seconds after a crash

\* "enqueue": LPUSH raises, having pushed or not; "api": the API process dies
\* before it enqueues; "reply": a BRPOPLPUSH moves an id whose reply is lost;
\* "ack": ack or requeue raises; "escape": _mark_failed itself raises.
FaultKind == {"enqueue", "api", "reply", "ack", "escape"}

ASSUME RedisAssumption ==
  /\ Faults \subseteq FaultKind
  /\ MaxCrash \in Nat
  /\ MaxReady \in Nat
  /\ LateRestart \in BOOLEAN

VARIABLES
  ready,      \* the list of ready ids: LPUSH appends, BRPOPLPUSH takes the head
  processing, \* processing[r]: how often id r is on the processing list
  mode,       \* mode[w]: where w's process stands in run_worker
  hand,       \* hand[w]: the id w is handling, or NoRun
  scan,       \* scan[w]: what is left of the processing_ids w read at its start
  crashes,    \* how many worker processes have died
  abandoned   \* history: the runs whose request ended without pushing their id

queueVars == <<ready, processing, mode, hand, scan, crashes, abandoned>>
redisVars == <<vars, queueVars>>

Mode == {"down", "recover", "requeue", "poll", "claim", "execute", "ack", "escape"}
Placed(list, r) == Cardinality({i \in DOMAIN list : list[i] = r})
Copies(r) == Placed(ready, r) + processing[r]

RedisTypeOK ==
  /\ TypeOK
  /\ ready \in Seq(Run) /\ Len(ready) <= MaxReady
  /\ processing \in [Run -> Nat]
  /\ mode \in [Worker -> Mode]
  /\ hand \in [Worker -> Run \cup {NoRun}]
  /\ scan \in [Worker -> [Run -> Nat]]
  /\ crashes \in 0 .. MaxCrash
  /\ abandoned \subseteq Run

Nothing == [r \in Run |-> 0]

RedisInit ==
  /\ Init
  /\ ready = <<>>
  /\ processing = Nothing
  /\ mode = [w \in Worker |-> "down"]
  /\ hand = [w \in Worker |-> NoRun]
  /\ scan = [w \in Worker |-> Nothing]
  /\ crashes = 0
  /\ abandoned = {}

-----------------------------------------------------------------------------
(* Helpers *)

ToMode(w, m) == mode' = [mode EXCEPT ![w] = m]
Hold(w, r) == hand' = [hand EXCEPT ![w] = r]
Minus(bag, r) == [bag EXCEPT ![r] = IF @ = 0 THEN 0 ELSE @ - 1]

LPush(r) == Len(ready) < MaxReady /\ ready' = Append(ready, r)
LRem(r) == processing' = Minus(processing, r)

MoveBackMutant(r) == LPush(r) /\ UNCHANGED processing

\* The MULTI of requeue: LREM and LPUSH together.
MoveBack(r) == LPush(r) /\ LRem(r)

PopPushMutant(r) ==
  /\ ready # <<>>
  /\ r = Head(ready)
  /\ ready' = Tail(ready)
  /\ UNCHANGED processing

\* BRPOPLPUSH.
PopPush(r) ==
  /\ ready # <<>>
  /\ r = Head(ready)
  /\ ready' = Tail(ready)
  /\ processing' = [processing EXCEPT ![r] = @ + 1]

DieMutant(w) ==
  /\ ToMode(w, "down") /\ Hold(w, NoRun)
  /\ scan' = [scan EXCEPT ![w] = Nothing]
  /\ IF pc[w] # "idle"
       THEN /\ Leave(w)
            /\ lease' = [lease EXCEPT ![run[w]] = "none"]
            /\ UNCHANGED <<status, owner, attempt, evidenceVars, apiVars>>
       ELSE UNCHANGED vars

\* The worker process ends, with whatever execution it had open.
Die(w) ==
  /\ ToMode(w, "down") /\ Hold(w, NoRun)
  /\ scan' = [scan EXCEPT ![w] = Nothing]
  /\ IF pc[w] # "idle" THEN Abort(w) ELSE UNCHANGED vars

-----------------------------------------------------------------------------
(* The requests: post_eval_run and replay_eval_run enqueue after they have
   committed the row, cancel_eval_run does not touch the queue.            *)

RowRequest ==
  /\ \E r \in Run : Create(r) \/ CancelRead(r) \/ CancelCommit(r) \/ PostFails(r)
  /\ UNCHANGED queueVars

Push(r) ==
  /\ post[r] = "open"
  /\ PostEnds(r)
  /\ LPush(r)
  /\ UNCHANGED <<processing, mode, hand, scan, crashes, abandoned>>

\* LPUSH raises in the client, before or after the server has done it.
PushRaises(r) ==
  /\ "enqueue" \in Faults
  /\ PostRaises(r)
  /\ \/ LPush(r) /\ UNCHANGED abandoned
     \/ abandoned' = abandoned \cup {r} /\ UNCHANGED ready
  /\ UNCHANGED <<processing, mode, hand, scan, crashes>>

ApiDies(r) ==
  /\ "api" \in Faults
  /\ post[r] = "open"
  /\ PostEnds(r)
  /\ abandoned' = abandoned \cup {r}
  /\ UNCHANGED <<ready, processing, mode, hand, scan, crashes>>

-----------------------------------------------------------------------------
(* run_worker: recovery of the ids found on the processing list            *)

Start(w) ==
  /\ mode[w] = "down"
  /\ LateRestart => \A r \in Run : lease[r] # "live"
  /\ scan' = [scan EXCEPT ![w] = processing]
  /\ ToMode(w, "recover")
  /\ UNCHANGED <<vars, ready, processing, hand, crashes, abandoned>>

RecoverableMutant(r) == status[r] = "QUEUED"

\* is_recoverable reads the row as it is now.
Recoverable(r) ==
  /\ status[r] \notin Final \cup {"ABSENT"}
  /\ status[r] = "QUEUED" \/ lease[r] # "live"

Recover(w) ==
  /\ mode[w] = "recover"
  /\ \E r \in Run :
       /\ scan[w][r] > 0
       /\ scan' = [scan EXCEPT ![w] = Minus(@, r)]
       /\ IF Recoverable(r)
            THEN Hold(w, r) /\ ToMode(w, "requeue")
            ELSE UNCHANGED <<hand, mode>>
  /\ UNCHANGED <<vars, ready, processing, crashes, abandoned>>

Requeue(w) ==
  /\ mode[w] = "requeue"
  /\ MoveBack(hand[w])
  /\ Hold(w, NoRun) /\ ToMode(w, "recover")
  /\ UNCHANGED <<vars, scan, crashes, abandoned>>

Listen(w) ==
  /\ mode[w] = "recover"
  /\ scan[w] = Nothing
  /\ ToMode(w, "poll")
  /\ UNCHANGED <<vars, ready, processing, hand, scan, crashes, abandoned>>

-----------------------------------------------------------------------------
(* process_once                                                            *)

Poll(w) ==
  /\ mode[w] = "poll"
  /\ \E r \in Run : PopPush(r) /\ Hold(w, r)
  /\ ToMode(w, "claim")
  /\ UNCHANGED <<vars, scan, crashes, abandoned>>

\* The server moves an id, the client times out; run_forever polls again.
ReplyLost(w) ==
  /\ "reply" \in Faults
  /\ mode[w] = "poll"
  /\ \E r \in Run : PopPush(r)
  /\ UNCHANGED <<vars, mode, hand, scan, crashes, abandoned>>

Claim(w) ==
  /\ mode[w] = "claim"
  /\ LET r == hand[w] IN
     \/ ClaimRun(w, r) /\ ToMode(w, "execute")
     \/ ClaimRaises(w, r) /\ ToMode(w, "execute")
     \/ ClaimCancelled(r) /\ ToMode(w, "ack")
     \/ ClaimRefused(r) /\ UNCHANGED vars /\ ToMode(w, "ack")
  /\ UNCHANGED <<ready, processing, hand, scan, crashes, abandoned>>

\* The steps of execute after the claim; the last one returns to process_once.
Inside(w, step) ==
  /\ mode[w] = "execute"
  /\ step
  /\ IF pc'[w] = "idle" THEN ToMode(w, "ack") ELSE UNCHANGED mode
  /\ UNCHANGED <<ready, processing, hand, scan, crashes, abandoned>>

Work(w) == Inside(w, Execute(w))

Ack(w) ==
  /\ mode[w] = "ack"
  /\ LRem(hand[w])
  /\ Hold(w, NoRun) /\ ToMode(w, "poll")
  /\ UNCHANGED <<vars, ready, scan, crashes, abandoned>>

\* The call after execute raises a RedisError without having been done, and
\* run_forever polls again; one that is done and loses its reply is Ack.
AckRaises(w) ==
  /\ "ack" \in Faults
  /\ mode[w] \in {"ack", "escape"}
  /\ Hold(w, NoRun) /\ ToMode(w, "poll")
  /\ UNCHANGED <<vars, ready, processing, scan, crashes, abandoned>>

\* _mark_failed raises, execute lets it through, process_once requeues and
\* re-raises, and run_forever lets everything but a RedisError end the process.
Escape(w) ==
  /\ "escape" \in Faults
  /\ crashes < MaxCrash
  /\ mode[w] = "execute"
  /\ pc[w] \in {"fail", "failCommit"}
  /\ Abort(w)
  /\ ToMode(w, "escape")
  /\ crashes' = crashes + 1
  /\ UNCHANGED <<ready, processing, hand, scan, abandoned>>

RequeueAndDie(w) ==
  /\ mode[w] = "escape"
  /\ MoveBack(hand[w])
  /\ Die(w)
  /\ UNCHANGED <<crashes, abandoned>>

Crash(w) ==
  /\ mode[w] # "down"
  /\ crashes < MaxCrash
  /\ Die(w)
  /\ crashes' = crashes + 1
  /\ UNCHANGED <<ready, processing, abandoned>>

TimePasses ==
  /\ \E r \in Run : LeaseExpires(r)
  /\ UNCHANGED queueVars

RedisNext ==
  \/ RowRequest
  \/ \E r \in Run : Push(r) \/ PushRaises(r) \/ ApiDies(r)
  \/ \E w \in Worker :
       \/ Start(w) \/ Recover(w) \/ Requeue(w) \/ Listen(w)
       \/ Poll(w) \/ ReplyLost(w) \/ Claim(w) \/ Work(w)
       \/ Ack(w) \/ AckRaises(w)
       \/ Escape(w) \/ RequeueAndDie(w) \/ Crash(w)
  \/ TimePasses

RedisSafe == RedisInit /\ [][RedisNext]_redisVars

-----------------------------------------------------------------------------
(* Safety of the dispatch with one worker process at a time, which is what
   docker-compose.yml runs.                                                *)

\* No run in progress is lost: while a run waits or is executed its id is on
\* one of the lists, unless the request that created it never pushed it.
Tracked ==
  \A r \in Run : status[r] \in {"QUEUED", "RUNNING"} =>
    Copies(r) > 0 \/ post[r] = "open" \/ r \in abandoned

\* Recovery and requeueing move ids and never multiply them: a run is handed
\* out once per push, however often the worker crashes or loses replies.
OneCopy == \A r \in Run : Copies(r) <= 1

\* The dispatch only restricts EvalRun: whatever holds of every behaviour of
\* EvalRun holds of the runs dispatched by Redis.
RestrictsEvalRun == Spec

-----------------------------------------------------------------------------
(* Liveness *)

\* Nobody executes r any more and its lease runs out.
Orphaned(r) == \A w \in Worker : run[w] # r
LeaseRunsOut(r) == Orphaned(r) /\ LeaseExpires(r) /\ UNCHANGED queueVars

\* The worker process is started again by its operator, its event loop goes on,
\* Redis and PostgreSQL answer, and a batch ends although heartbeats interrupt
\* its wait again and again: Inspect limits the time of every case.
Fairness ==
  /\ \A w \in Worker :
       /\ WF_redisVars(Start(w) \/ Recover(w) \/ Requeue(w) \/ Listen(w) \/ Poll(w))
       /\ WF_redisVars(Claim(w) \/ Work(w) \/ Ack(w) \/ RequeueAndDie(w))
       /\ SF_redisVars(Inside(w, FinishBatch(w)))
  /\ \A r \in Run : WF_redisVars(LeaseRunsOut(r))

RedisSpec == RedisSafe /\ Fairness

\* A run that has been pushed ends.
PushedEnds ==
  \A r \in Run :
    status[r] = "QUEUED" /\ Copies(r) > 0 ~> status[r] \in Final
=============================================================================
