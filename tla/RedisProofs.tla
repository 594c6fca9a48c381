---------------------------- MODULE RedisProofs ----------------------------
(***************************************************************************)
(* The Redis dispatch restricts EvalRun, for every set of faults and every *)
(* bound, and with any number of worker processes.  So the theorems about  *)
(* EvalRun are theorems about the runs it dispatches.  And with one worker *)
(* process at a time no run is lost and none is multiplied.                *)
(***************************************************************************)
EXTENDS RedisDispatch, EvalRunProofs, FiniteSetTheorems

\* A process that dies aborts its execution or had none.
LEMMA DieRestricts ==
  ASSUME NEW w \in Worker, Die(w)
  PROVE  [Next]_vars
BY DEF Die, Next

LEMMA RequestRestricts ==
  ASSUME RowRequest \/ \E r \in Run : Push(r) \/ PushRaises(r) \/ ApiDies(r)
  PROVE  [Next]_vars
BY DEF RowRequest, Push, PushRaises, ApiDies, Next

LEMMA WorkerRestricts ==
  ASSUME NEW w \in Worker, hand[w] \in Run,
         Claim(w) \/ Work(w) \/ Escape(w)
  PROVE  [Next]_vars
BY DEF Claim, Work, Inside, Escape, Next

\* Every mode that uses the id in hand has one.
HandInv ==
  /\ \A w \in Worker :
       /\ mode[w] \in Mode
       /\ mode[w] \in {"requeue", "claim", "execute", "ack", "escape"} => hand[w] \in Run
  /\ mode \in [Worker -> Mode]
  /\ hand \in [Worker -> Run \cup {NoRun}]

LEMMA HandInit == RedisInit => HandInv
BY DEF RedisInit, HandInv, Mode

LEMMA HandStep ==
  ASSUME HandInv, [RedisNext]_redisVars
  PROVE  HandInv'
<1> USE DEF queueVars, Mode, ToMode, Hold
<1>1. CASE RowRequest \/ TimePasses \/ UNCHANGED redisVars
  BY <1>1 DEF RowRequest, TimePasses, redisVars, HandInv
<1>2. ASSUME NEW r \in Run, Push(r) \/ PushRaises(r) \/ ApiDies(r) PROVE HandInv'
  BY <1>2 DEF Push, PushRaises, ApiDies, HandInv
<1>3. ASSUME NEW w \in Worker, Start(w) \/ Listen(w) \/ ReplyLost(w) PROVE HandInv'
  BY <1>3 DEF Start, Listen, ReplyLost, HandInv
<1>4. ASSUME NEW w \in Worker, Recover(w) PROVE HandInv'
  BY <1>4 DEF Recover, HandInv
<1>5. ASSUME NEW w \in Worker, Requeue(w) \/ Ack(w) \/ AckRaises(w) PROVE HandInv'
  BY <1>5 DEF Requeue, Ack, AckRaises, HandInv
<1>6. ASSUME NEW w \in Worker, Poll(w) PROVE HandInv'
  BY <1>6 DEF Poll, HandInv
<1>7. ASSUME NEW w \in Worker, Claim(w) PROVE HandInv'
  BY <1>7 DEF Claim, HandInv
<1>8. ASSUME NEW w \in Worker, Work(w) PROVE HandInv'
  BY <1>8 DEF Work, Inside, HandInv
<1>9. ASSUME NEW w \in Worker, Escape(w) PROVE HandInv'
  BY <1>9 DEF Escape, HandInv
<1>10. ASSUME NEW w \in Worker, RequeueAndDie(w) \/ Crash(w) PROVE HandInv'
  BY <1>10 DEF RequeueAndDie, Crash, Die, HandInv
<1> QED
  BY <1>1, <1>2, <1>3, <1>4, <1>5, <1>6, <1>7, <1>8, <1>9, <1>10 DEF RedisNext

LEMMA RestrictsStep ==
  ASSUME HandInv, [RedisNext]_redisVars
  PROVE  [Next]_vars
<1>1. ASSUME NEW w \in Worker,
             Start(w) \/ Recover(w) \/ Requeue(w) \/ Listen(w) \/ Poll(w)
               \/ ReplyLost(w) \/ Ack(w) \/ AckRaises(w)
      PROVE  UNCHANGED vars
  BY <1>1 DEF Start, Recover, Requeue, Listen, Poll, ReplyLost, Ack, AckRaises
<1>2. ASSUME NEW w \in Worker, Claim(w) \/ Work(w) \/ Escape(w) PROVE [Next]_vars
  <2>1. hand[w] \in Run
    BY <1>2 DEF HandInv, Claim, Work, Inside, Escape
  <2> QED BY <1>2, <2>1, WorkerRestricts
<1>3. ASSUME NEW w \in Worker, RequeueAndDie(w) \/ Crash(w) PROVE [Next]_vars
  BY <1>3, DieRestricts DEF RequeueAndDie, Crash
<1>4. CASE TimePasses \/ UNCHANGED redisVars
  BY <1>4 DEF TimePasses, redisVars, Next
<1> QED BY <1>1, <1>2, <1>3, <1>4, RequestRestricts DEF RedisNext

\* Every behaviour of the dispatch is one of EvalRun.
THEOREM DispatchRestricts == RedisSafe => RestrictsEvalRun
<1>1. RedisInit => Init
  BY DEF RedisInit
<1> QED BY <1>1, HandInit, HandStep, RestrictsStep, PTL
        DEF RedisSafe, RestrictsEvalRun, Spec

-----------------------------------------------------------------------------
(* Types *)

QueueTypeOK ==
  /\ ready \in Seq(Run) /\ Len(ready) <= MaxReady
  /\ processing \in [Run -> Nat]
  /\ scan \in [Worker -> [Run -> Nat]]
  /\ crashes \in 0 .. MaxCrash
  /\ abandoned \subseteq Run

LEMMA MinusTyped ==
  ASSUME NEW bag \in [Run -> Nat], NEW r \in Run
  PROVE  Minus(bag, r) \in [Run -> Nat]
BY DEF Minus

LEMMA ReadyTyped ==
  ASSUME ready \in Seq(Run), Len(ready) <= MaxReady, NEW r \in Run
  PROVE  /\ LPush(r) => ready' \in Seq(Run) /\ Len(ready') <= MaxReady
         /\ PopPush(r) => ready' \in Seq(Run) /\ Len(ready') <= MaxReady
<1>1. MaxReady \in Nat /\ Len(ready) \in Nat
  BY RedisAssumption
<1>2. ASSUME LPush(r) PROVE ready' \in Seq(Run) /\ Len(ready') <= MaxReady
  BY <1>1, <1>2 DEF LPush
<1>3. ASSUME PopPush(r) PROVE ready' \in Seq(Run) /\ Len(ready') <= MaxReady
  BY <1>1, <1>3 DEF PopPush
<1> QED
  BY <1>2, <1>3

LEMMA QueueInit == RedisInit => QueueTypeOK
BY RedisAssumption DEF RedisInit, QueueTypeOK, Nothing

LEMMA QueueStep ==
  ASSUME HandInv, QueueTypeOK, [RedisNext]_redisVars
  PROVE  QueueTypeOK'
<1> USE RedisAssumption DEF QueueTypeOK, queueVars
<1>1. CASE RowRequest \/ TimePasses \/ UNCHANGED redisVars
  BY <1>1 DEF RowRequest, TimePasses, redisVars
<1>2. ASSUME NEW r \in Run, Push(r) \/ PushRaises(r) \/ ApiDies(r) PROVE QueueTypeOK'
  BY <1>2, ReadyTyped DEF Push, PushRaises, ApiDies
<1>3. ASSUME NEW w \in Worker, Start(w) \/ Listen(w) PROVE QueueTypeOK'
  BY <1>3 DEF Start, Listen
<1>4. ASSUME NEW w \in Worker, Recover(w) PROVE QueueTypeOK'
  <2>1. PICK r \in Run : scan' = [scan EXCEPT ![w] = Minus(scan[w], r)]
    BY <1>4 DEF Recover
  <2> QED
    BY <1>4, <2>1, MinusTyped DEF Recover
<1>5. ASSUME NEW w \in Worker, Poll(w) \/ ReplyLost(w) PROVE QueueTypeOK'
  <2>1. PICK r \in Run : PopPush(r)
    BY <1>5 DEF Poll, ReplyLost
  <2>2. processing' \in [Run -> Nat]
    BY <2>1 DEF PopPush
  <2> QED
    BY <1>5, <2>1, <2>2, ReadyTyped DEF Poll, ReplyLost
<1>6. ASSUME NEW w \in Worker, Claim(w) \/ Work(w) PROVE QueueTypeOK'
  BY <1>6 DEF Claim, Work, Inside
<1>7. ASSUME NEW w \in Worker, Ack(w) \/ AckRaises(w) PROVE QueueTypeOK'
  BY <1>7, MinusTyped DEF Ack, AckRaises, LRem, HandInv
<1>8. ASSUME NEW w \in Worker, Requeue(w) PROVE QueueTypeOK'
  BY <1>8, MinusTyped, ReadyTyped DEF Requeue, MoveBack, LRem, HandInv
<1>9. ASSUME NEW w \in Worker, Escape(w) \/ Crash(w) PROVE QueueTypeOK'
  <2>1. crashes' \in 0 .. MaxCrash
    BY <1>9 DEF Escape, Crash
  <2>2. scan' = scan \/ scan' = [scan EXCEPT ![w] = Nothing]
    BY <1>9 DEF Escape, Crash, Die
  <2>3. UNCHANGED <<ready, processing, abandoned>>
    BY <1>9 DEF Escape, Crash
  <2>4. Nothing \in [Run -> Nat]
    BY DEF Nothing
  <2>5. scan' \in [Worker -> [Run -> Nat]]
    BY <2>2, <2>4
  <2> QED
    BY <2>1, <2>3, <2>5
<1>10. ASSUME NEW w \in Worker, RequeueAndDie(w) PROVE QueueTypeOK'
  <2>1. hand[w] \in Run
    BY <1>10 DEF RequeueAndDie, HandInv
  <2>2. processing' \in [Run -> Nat] /\ ready' \in Seq(Run) /\ Len(ready') <= MaxReady
    BY <1>10, <2>1, MinusTyped, ReadyTyped DEF RequeueAndDie, MoveBack, LRem
  <2> QED
    BY <1>10, <2>2 DEF RequeueAndDie, Die, Nothing
<1> QED
  BY <1>1, <1>2, <1>3, <1>4, <1>5, <1>6, <1>7, <1>8, <1>9, <1>10 DEF RedisNext

\* The type invariant of the dispatch: the lists hold ids of runs, and what a
\* worker is handling is one of them.
THEOREM RedisTypes == RedisSafe => []RedisTypeOK
<1>1. RedisSafe => []TypeOK
  BY DispatchRestricts, TypeCorrect, PTL DEF RestrictsEvalRun
<1>2. TypeOK /\ HandInv /\ QueueTypeOK => RedisTypeOK
  BY DEF HandInv, QueueTypeOK, RedisTypeOK
<1>3. RedisInit => HandInv /\ QueueTypeOK
  BY HandInit, QueueInit
<1>4. HandInv /\ QueueTypeOK /\ [RedisNext]_redisVars => HandInv' /\ QueueTypeOK'
  BY HandStep, QueueStep
<1> QED
  BY <1>1, <1>2, <1>3, <1>4, PTL DEF RedisSafe

\* Under Redis, crashes, lost replies and overlapping workers included, gate
\* decisions rest on the complete results of one attempt,
THEOREM DispatchedVerdicts == RedisSafe => []VerdictComplete
BY DispatchRestricts, VerdictsComplete, PTL DEF RestrictsEvalRun

\* and runs keep the contract with the readers of their evidence.
THEOREM DispatchedContract == RedisSafe => ImplementsContract
BY DispatchRestricts, Implements, PTL DEF RestrictsEvalRun

-----------------------------------------------------------------------------
(* Where the ids are, with one worker process at a time.  An exception that *)
(* escapes puts a run back on the ready list while its lease is live, which *)
(* is harmless only when the process stays down until the lease ran out.    *)

OneWorker == \A v, w \in Worker : v = w
RestartsLate == "escape" \in Faults => LateRestart

\* The row tells a worker that asks for r to leave it alone.
Held(r) == status[r] = "RUNNING" /\ lease[r] = "live"

\* Nobody will be asked to execute r again.
Over(st) == st \notin {"ABSENT", "QUEUED", "RUNNING"}

\* A run enters the lists once, by the push of its request, and while its
\* lease is live it is not on the ready list.
EntryInv ==
  \A r \in Run :
    /\ Copies(r) <= 1
    /\ status[r] = "ABSENT" => post[r] # "open" /\ Copies(r) = 0
    /\ post[r] = "open" => status[r] # "RUNNING" /\ Copies(r) = 0
    /\ Placed(ready, r) > 0 /\ Held(r) => LateRestart /\ \A w \in Worker : mode[w] = "down"

\* The process: the ids it recovers are still on the processing list, the id
\* in its hand is, and it drops the id only of a run that is over.
ProcessInv ==
  \A w \in Worker :
    /\ mode[w] \in {"recover", "requeue"} => \A r \in Run : scan[w][r] <= processing[r]
    /\ mode[w] \in {"requeue", "claim", "execute", "ack", "escape"} => processing[hand[w]] > 0
    /\ mode[w] = "requeue" => scan[w][hand[w]] = 0
    /\ mode[w] \in {"requeue", "claim"} => ~ Held(hand[w])
    /\ mode[w] = "ack" => Over(status[hand[w]])
    /\ mode[w] = "escape" => "escape" \in Faults
    /\ pc[w] # "idle" => mode[w] = "execute" /\ run[w] = hand[w]
    /\ Over(sawStatus[w]) => pc[w] # "idle" /\ Over(status[hand[w]])

TrackInv == EntryInv /\ ProcessInv /\ Tracked

\* What an id is counted on a list, when the list grows at its end and when it
\* loses its head.
LEMMA PlacedFinite ==
  ASSUME NEW s \in Seq(Run), NEW q
  PROVE  /\ IsFiniteSet({i \in DOMAIN s : s[i] = q})
         /\ Placed(s, q) \in Nat
<1>1. IsFiniteSet(1 .. Len(s))
  BY FS_Interval
<1>2. {i \in DOMAIN s : s[i] = q} \in SUBSET (1 .. Len(s))
  OBVIOUS
<1>3. IsFiniteSet({i \in DOMAIN s : s[i] = q})
  BY <1>1, <1>2, FS_Subset
<1> QED
  BY <1>3, FS_CardinalityType DEF Placed

LEMMA PlacedAppend ==
  ASSUME NEW s \in Seq(Run), NEW r \in Run, NEW q
  PROVE  Placed(Append(s, r), q) = Placed(s, q) + (IF q = r THEN 1 ELSE 0)
<1> DEFINE Old == {i \in DOMAIN s : s[i] = q}
           New == {i \in DOMAIN Append(s, r) : Append(s, r)[i] = q}
<1>1. IsFiniteSet(Old) /\ Placed(s, q) = Cardinality(Old) /\ Cardinality(Old) \in Nat
  BY PlacedFinite DEF Placed
<1>2. Placed(Append(s, r), q) = Cardinality(New)
  BY DEF Placed
<1>3. Len(s) + 1 \notin Old
  OBVIOUS
<1>4. CASE q = r
  <2>1. New = Old \cup {Len(s) + 1}
    BY <1>4
  <2> HIDE DEF Old, New
  <2>2. Cardinality(New) = Cardinality(Old) + 1
    BY <1>1, <1>3, <2>1, FS_AddElement
  <2> QED BY <1>1, <1>2, <1>4, <2>2
<1>5. CASE q # r
  <2>1. New = Old
    BY <1>5
  <2> HIDE DEF Old, New
  <2> QED BY <1>1, <1>2, <1>5, <2>1
<1> QED BY <1>4, <1>5

LEMMA PlacedTail ==
  ASSUME NEW s \in Seq(Run), s # <<>>, NEW q
  PROVE  Placed(s, q) = Placed(Tail(s), q) + (IF q = Head(s) THEN 1 ELSE 0)
<1> DEFINE Old == {i \in DOMAIN s : s[i] = q}
           Rest == Old \ {1}
           New == {i \in DOMAIN Tail(s) : Tail(s)[i] = q}
           shift == [i \in Rest |-> i - 1]
<1>1. IsFiniteSet(Old) /\ Placed(s, q) = Cardinality(Old) /\ Cardinality(Old) \in Nat
  BY PlacedFinite DEF Placed
<1>2. Placed(Tail(s), q) = Cardinality(New)
  BY DEF Placed
<1>3. 1 \in Old <=> q = Head(s)
  OBVIOUS
<1>4. shift \in Bijection(Rest, New)
  <2>1. shift \in [Rest -> New]
    OBVIOUS
  <2>2. \A a, b \in Rest : shift[a] = shift[b] => a = b
    OBVIOUS
  <2>3. \A t \in New : \E a \in Rest : shift[a] = t
    <3> TAKE t \in New
    <3>1. t + 1 \in Rest /\ shift[t + 1] = t
      OBVIOUS
    <3> QED BY <3>1
  <2> HIDE DEF Old, Rest, New, shift
  <2> QED BY <2>1, <2>2, <2>3 DEF Bijection, Injection, Surjection, IsInjective
<1> HIDE DEF Old, New, shift
<1>5. /\ IsFiniteSet(Rest)
      /\ Cardinality(Rest) = IF 1 \in Old THEN Cardinality(Old) - 1 ELSE Cardinality(Old)
  BY <1>1, FS_RemoveElement
<1>6. Cardinality(New) = Cardinality(Rest)
  BY <1>4, <1>5, FS_Bijection DEF ExistsBijection
<1> QED
  BY <1>1, <1>2, <1>3, <1>5, <1>6

\* What the three operations of the lists do to the counts.
LEMMA ListEffects ==
  ASSUME QueueTypeOK, NEW r \in Run
  PROVE  /\ \A q \in Run : Placed(ready, q) \in Nat
         /\ LPush(r) => \A q \in Run :
              Placed(ready', q) = Placed(ready, q) + (IF q = r THEN 1 ELSE 0)
         /\ PopPush(r) => \A q \in Run :
              /\ Placed(ready, q) = Placed(ready', q) + (IF q = r THEN 1 ELSE 0)
              /\ Placed(ready', q) \in Nat
              /\ processing'[q] = processing[q] + (IF q = r THEN 1 ELSE 0)
         /\ LRem(r) => \A q \in Run :
              processing'[q] = IF q = r /\ processing[q] > 0 THEN processing[q] - 1
                                                            ELSE processing[q]
<1> USE DEF QueueTypeOK
<1>1. \A q \in Run : Placed(ready, q) \in Nat
  BY PlacedFinite
<1>2. ASSUME LPush(r), NEW q \in Run
      PROVE  Placed(ready', q) = Placed(ready, q) + (IF q = r THEN 1 ELSE 0)
  BY <1>2, PlacedAppend DEF LPush
<1>3. ASSUME PopPush(r), NEW q \in Run
      PROVE  /\ Placed(ready, q) = Placed(ready', q) + (IF q = r THEN 1 ELSE 0)
             /\ Placed(ready', q) \in Nat
             /\ processing'[q] = processing[q] + (IF q = r THEN 1 ELSE 0)
  <2>1. ready # <<>> /\ r = Head(ready) /\ ready' = Tail(ready)
    BY <1>3 DEF PopPush
  <2>2. Placed(ready, q) = Placed(ready', q) + (IF q = r THEN 1 ELSE 0)
    BY <2>1, PlacedTail
  <2>3. Placed(ready', q) \in Nat
    <3>1. ready' \in Seq(Run)
      BY <2>1
    <3> QED BY <3>1, PlacedFinite
  <2>4. processing'[q] = processing[q] + (IF q = r THEN 1 ELSE 0)
    BY <1>3 DEF PopPush
  <2> QED BY <2>2, <2>3, <2>4
<1>4. ASSUME LRem(r), NEW q \in Run
      PROVE  processing'[q] = IF q = r /\ processing[q] > 0 THEN processing[q] - 1
                                                           ELSE processing[q]
  BY <1>4 DEF LRem, Minus
<1> QED BY <1>1, <1>2, <1>3, <1>4


\* A row moves without a claim: nothing takes it back from where nobody is
\* asked to execute it, and no lease becomes live.
RowMoves(r) ==
  /\ \/ status'[r] = status[r]
     \/ Over(status'[r])
     \/ status[r] = "ABSENT" /\ status'[r] = "QUEUED" /\ post'[r] = "open"
  /\ lease'[r] = "live" => lease[r] = "live"
  /\ post'[r] = "open" => post[r] = "open" \/ status[r] = "ABSENT"
  /\ post[r] = "open" => post'[r] = "open"
  /\ status'[r] = "ABSENT" => status[r] = "ABSENT" /\ post'[r] = post[r]

LEMMA RowEffects ==
  ASSUME TypeOK, RowRequest \/ TimePasses \/ UNCHANGED redisVars
  PROVE  /\ \A r \in Run : RowMoves(r)
         /\ UNCHANGED <<pc, run, sawStatus, queueVars>>
<1> USE DEF TypeOK, Over, RowMoves
<1>1. ASSUME NEW r \in Run, Create(r) PROVE \A q \in Run : RowMoves(q)
  BY <1>1 DEF Create
<1>2. ASSUME NEW r \in Run, CancelRead(r) PROVE \A q \in Run : RowMoves(q)
  BY <1>2 DEF CancelRead, rowVars
<1>3. ASSUME NEW r \in Run, CancelCommit(r) PROVE \A q \in Run : RowMoves(q)
  BY <1>3 DEF CancelCommit
<1>4. ASSUME NEW r \in Run, PostFails(r) PROVE \A q \in Run : RowMoves(q)
  BY <1>4 DEF PostFails
<1>5. ASSUME NEW r \in Run, LeaseExpires(r) PROVE \A q \in Run : RowMoves(q)
  BY <1>5 DEF LeaseExpires, apiVars
<1>6. CASE UNCHANGED redisVars
  BY <1>6 DEF redisVars, vars, rowVars, apiVars, jobVars, copyVars
<1>7. \A r \in Run : Create(r) \/ CancelRead(r) \/ CancelCommit(r) \/ PostFails(r)
                       \/ LeaseExpires(r) => UNCHANGED <<pc, run, sawStatus>>
  BY DEF Create, CancelRead, CancelCommit, PostFails, LeaseExpires, jobVars, copyVars
<1> QED
  BY <1>1, <1>2, <1>3, <1>4, <1>5, <1>6, <1>7
     DEF RowRequest, TimePasses, redisVars, vars, jobVars, copyVars

LEMMA TrackRows ==
  ASSUME TypeOK, HandInv, QueueTypeOK, TrackInv,
         RowRequest \/ TimePasses \/ UNCHANGED redisVars
  PROVE  TrackInv'
<1>1. (\A r \in Run : RowMoves(r)) /\ UNCHANGED <<pc, run, sawStatus, queueVars>>
  BY RowEffects
<1> USE <1>1 DEF queueVars, RowMoves, TrackInv, Copies, Held, Over
<1>2. EntryInv'
  BY DEF EntryInv, Tracked
<1>3. ProcessInv'
  BY DEF ProcessInv, HandInv
<1>4. Tracked'
  BY DEF Tracked, EntryInv
<1> QED BY <1>2, <1>3, <1>4

LEMMA TrackPush ==
  ASSUME TypeOK, HandInv, QueueTypeOK, TrackInv,
         NEW r \in Run, Push(r) \/ PushRaises(r) \/ ApiDies(r)
  PROVE  TrackInv'
<1>1. /\ UNCHANGED <<processing, mode, hand, scan, rowVars, pc, run, sawStatus>>
      /\ post[r] = "open" /\ post'[r] # "open"
      /\ \A q \in Run : q # r => post'[q] = post[q]
      /\ \/ LPush(r) /\ UNCHANGED abandoned
         \/ abandoned' = abandoned \cup {r} /\ UNCHANGED ready
  BY DEF Push, PushRaises, ApiDies, PostEnds, PostRaises, TypeOK, jobVars, copyVars
<1>2. \A q \in Run : Placed(ready, q) \in Nat /\ processing[q] \in Nat
  BY ListEffects DEF QueueTypeOK
<1>3. /\ Placed(ready, r) = 0 /\ processing[r] = 0
      /\ status[r] \notin {"ABSENT", "RUNNING"}
  BY <1>1, <1>2 DEF TrackInv, EntryInv, Copies
<1>4. \A q \in Run : LPush(r) \/ ready' = ready =>
        /\ q # r => Placed(ready', q) = Placed(ready, q)
        /\ LPush(r) => Placed(ready', r) = 1
        /\ ready' = ready => Placed(ready', r) = 0
  BY <1>2, <1>3, ListEffects
<1>5. UNCHANGED <<status, lease, processing, mode, hand, scan, pc, run, sawStatus>>
  BY <1>1 DEF rowVars
<1> USE DEF TrackInv, Copies, Held
<1>6. EntryInv'
  BY <1>1, <1>2, <1>3, <1>4, <1>5 DEF EntryInv
<1>7. ProcessInv'
  BY <1>5 DEF ProcessInv
<1>8. Tracked'
  BY <1>1, <1>2, <1>3, <1>4, <1>5 DEF Tracked
<1> QED BY <1>6, <1>7, <1>8

\* Steps of the process that leave the rows and both lists alone.
LEMMA TrackRecovery ==
  ASSUME TypeOK, HandInv, QueueTypeOK, TrackInv, OneWorker,
         NEW w \in Worker, Start(w) \/ Recover(w) \/ Listen(w)
  PROVE  TrackInv'
<1>1. UNCHANGED <<vars, ready, processing, abandoned>>
  BY DEF Start, Recover, Listen
<1>2. UNCHANGED <<status, lease, post, pc, run, sawStatus>>
  BY <1>1 DEF vars, rowVars, apiVars, jobVars, copyVars
<1>3. \A v \in Worker : v = w
  BY DEF OneWorker
<1>4. Tracked'
  BY <1>1, <1>2 DEF TrackInv, Tracked, Copies
<1> USE DEF TrackInv, Copies, Held, HandInv, Mode, ToMode, Hold
<1>5. ASSUME Start(w) PROVE EntryInv' /\ ProcessInv'
  <2>1. /\ mode[w] = "down" /\ mode'[w] = "recover" /\ scan'[w] = processing
        /\ LateRestart => \A r \in Run : lease[r] # "live"
    BY <1>5 DEF Start, QueueTypeOK
  <2>2. EntryInv'
    BY <1>1, <1>2, <1>3, <2>1 DEF EntryInv
  <2>3. ProcessInv'
    BY <1>1, <1>2, <1>3, <2>1, RedisAssumption DEF ProcessInv, QueueTypeOK
  <2> QED BY <2>2, <2>3
<1>6. ASSUME Listen(w) PROVE EntryInv' /\ ProcessInv'
  <2>1. mode[w] = "recover" /\ mode'[w] = "poll"
    BY <1>6 DEF Listen
  <2>2. EntryInv'
    BY <1>1, <1>2, <1>3, <2>1 DEF EntryInv
  <2>3. ProcessInv'
    BY <1>1, <1>2, <1>3, <2>1 DEF ProcessInv
  <2> QED BY <2>2, <2>3
<1>7. ASSUME Recover(w) PROVE EntryInv' /\ ProcessInv'
  <2>1. PICK r \in Run :
          /\ mode[w] = "recover"
          /\ scan[w][r] > 0
          /\ scan' = [scan EXCEPT ![w] = Minus(@, r)]
          /\ \/ Recoverable(r) /\ hand'[w] = r /\ mode'[w] = "requeue"
             \/ UNCHANGED <<hand, mode>>
    BY <1>7 DEF Recover
  <2>2. /\ scan'[w][r] = scan[w][r] - 1
        /\ \A q \in Run : q # r => scan'[w][q] = scan[w][q]
        /\ \A q \in Run : scan[w][q] <= processing[q] /\ processing[q] \in Nat /\ scan[w][q] \in Nat
    BY <2>1 DEF QueueTypeOK, Minus, ProcessInv
  <2>3. Placed(ready, r) \in Nat /\ Copies(r) <= 1
    BY ListEffects DEF EntryInv
  <2>4. processing[r] = 1 /\ scan'[w][r] = 0
    BY <2>1, <2>2, <2>3
  <2>5. Recoverable(r) => ~ Held(r)
    BY DEF Recoverable
  <2>6. EntryInv'
    BY <1>1, <1>2, <1>3, <2>1 DEF EntryInv
  <2>7. ProcessInv'
    BY <1>1, <1>2, <1>3, <2>1, <2>2, <2>4, <2>5 DEF ProcessInv
  <2> QED BY <2>6, <2>7
<1> QED BY <1>4, <1>5, <1>6, <1>7

LEMMA TrackPoll ==
  ASSUME TypeOK, HandInv, QueueTypeOK, TrackInv, OneWorker,
         NEW w \in Worker, Poll(w) \/ ReplyLost(w)
  PROVE  TrackInv'
<1>1. UNCHANGED <<vars, scan, abandoned>> /\ mode[w] = "poll"
  BY DEF Poll, ReplyLost
<1>2. UNCHANGED <<status, lease, post, pc, run, sawStatus>>
  BY <1>1 DEF vars, rowVars, apiVars, jobVars, copyVars
<1>3. \A v \in Worker : v = w
  BY DEF OneWorker
<1>4. PICK r \in Run :
        /\ PopPush(r)
        /\ \/ UNCHANGED <<mode, hand>>
           \/ mode'[w] = "claim" /\ hand'[w] = r
  BY DEF Poll, ReplyLost, ToMode, Hold, HandInv
<1>5. \A q \in Run :
        /\ Placed(ready, q) \in Nat /\ Placed(ready', q) \in Nat /\ processing[q] \in Nat
        /\ Placed(ready, q) = Placed(ready', q) + (IF q = r THEN 1 ELSE 0)
        /\ processing'[q] = processing[q] + (IF q = r THEN 1 ELSE 0)
  BY <1>4, ListEffects DEF QueueTypeOK
<1>6. \A q \in Run :
        /\ Placed(ready', q) + processing'[q] = Placed(ready, q) + processing[q]
        /\ Placed(ready', q) > 0 => Placed(ready, q) > 0
        /\ processing'[q] >= processing[q]
  BY <1>5
<1>7. processing'[r] > 0 /\ Placed(ready, r) > 0
  BY <1>5
<1> USE DEF TrackInv, Copies, Held
<1>8. EntryInv'
  BY <1>1, <1>2, <1>3, <1>4, <1>6 DEF EntryInv
<1>9. ~ Held(r)
  BY <1>1, <1>7 DEF EntryInv
<1>10. ProcessInv'
  BY <1>1, <1>2, <1>3, <1>4, <1>7, <1>9 DEF ProcessInv
<1>11. Tracked'
  BY <1>1, <1>2, <1>6 DEF Tracked
<1> QED BY <1>8, <1>10, <1>11

LEMMA TrackClaim ==
  ASSUME TypeOK, HandInv, QueueTypeOK, TrackInv, OneWorker, NEW w \in Worker, Claim(w)
  PROVE  TrackInv'
<1> DEFINE r == hand[w]
<1>1. /\ UNCHANGED <<ready, processing, hand, scan, abandoned>>
      /\ mode[w] = "claim" /\ r \in Run /\ processing[r] > 0 /\ ~ Held(r)
      /\ pc[w] = "idle"
  BY DEF Claim, HandInv, TrackInv, ProcessInv
<1>2. \A v \in Worker : v = w
  BY DEF OneWorker
<1>3. /\ \A q \in Run : Placed(ready, q) \in Nat /\ processing[q] \in Nat
      /\ Placed(ready, r) = 0
  <2>1. \A q \in Run : Placed(ready, q) \in Nat /\ processing[q] \in Nat
    BY ListEffects DEF QueueTypeOK
  <2>2. Placed(ready, r) + processing[r] <= 1
    BY <1>1 DEF TrackInv, EntryInv, Copies
  <2> QED BY <1>1, <2>1, <2>2
<1>4. status[r] # "ABSENT" /\ post[r] # "open"
  BY <1>1, <1>3 DEF TrackInv, EntryInv, Copies
<1>5. /\ \A q \in Run : q # r => status'[q] = status[q] /\ lease'[q] = lease[q]
      /\ UNCHANGED <<post, sawStatus>>
      /\ \/ /\ status'[r] = "RUNNING" /\ pc'[w] # "idle" /\ mode'[w] = "execute" /\ run'[w] = r
         \/ /\ UNCHANGED <<status, lease>>
            /\ pc'[w] # "idle" /\ mode'[w] = "execute" /\ run'[w] = r
         \/ /\ Over(status'[r]) /\ UNCHANGED <<lease, pc, run>> /\ mode'[w] = "ack"
  <2> USE DEF Claim, HandInv, ToMode, TypeOK, copyVars, apiVars
  <2>1. CASE ClaimRun(w, r) /\ ToMode(w, "execute")
    BY <1>1, <2>1 DEF ClaimRun, TakeRow, ToPc
  <2>2. CASE ClaimRaises(w, r) /\ ToMode(w, "execute")
    BY <1>1, <2>2 DEF ClaimRaises, ToPc, rowVars
  <2>3. CASE ClaimCancelled(r) /\ ToMode(w, "ack")
    BY <1>1, <2>3 DEF ClaimCancelled, jobVars, Over
  <2>4. CASE ClaimRefused(r) /\ UNCHANGED vars /\ ToMode(w, "ack")
    <3>1. Over(status[r])
      BY <1>1, <1>2, <1>4, <2>4 DEF ClaimRefused, Held, Over, Final
    <3> QED BY <1>1, <2>4, <3>1 DEF vars, rowVars, jobVars
  <2> QED BY <2>1, <2>2, <2>3, <2>4
<1>6. ~ Over(sawStatus[w])
  BY <1>1 DEF TrackInv, ProcessInv
<1> HIDE DEF r
<1> USE DEF TrackInv, Copies, Held
<1>7. EntryInv'
  BY <1>1, <1>2, <1>3, <1>4, <1>5 DEF EntryInv, Over
<1>8. ProcessInv'
  BY <1>1, <1>2, <1>3, <1>4, <1>5, <1>6 DEF ProcessInv, r
<1>9. Tracked'
  BY <1>1, <1>3, <1>5 DEF Tracked, Over
<1> QED BY <1>7, <1>8, <1>9

\* What a step of an execution does to the row, when another request may have
\* ended the run since the session loaded it.
LEMMA WorkEffects ==
  ASSUME TypeOK, NEW w \in Worker, run[w] \in Run, Execute(w),
         Over(sawStatus[w]) => Over(status[run[w]])
  PROVE  /\ \A q \in Run : status'[q] = status[q] \/ Over(status'[q])
         /\ \A q \in Run : q # run[w] => status'[q] = status[q] /\ lease'[q] = lease[q]
         /\ post' = post /\ pc[w] # "idle"
         /\ pc'[w] # "idle" =>
              /\ run'[w] = run[w]
              /\ Over(sawStatus'[w]) => Over(sawStatus[w]) \/ Over(status'[run[w]])
         /\ pc'[w] = "idle" => Over(status'[run[w]]) /\ sawStatus'[w] = "ABSENT"
<1> USE DEF TypeOK, rowVars, copyVars, apiVars, jobVars, ToPc, StatusOf
<1>1. CASE LoadRecorded(w)
  BY <1>1 DEF LoadRecorded
<1>2. CASE StopForCancel(w) \/ StartBatch(w)
  BY <1>2 DEF StopForCancel, StartBatch
<1>3. CASE ObserveCancel(w) \/ FinishBatch(w)
  BY <1>3 DEF ObserveCancel, FinishBatch
<1>4. CASE HeartbeatRead(w) \/ Raise(w)
  BY <1>4 DEF HeartbeatRead, Raise
<1>5. CASE RenewDuring(w) \/ RenewAfter(w)
  BY <1>5 DEF RenewDuring, RenewAfter
<1>6. CASE PersistRead(w)
  BY <1>6 DEF PersistRead, Load
<1>7. CASE PersistRaises(w)
  BY <1>7 DEF PersistRaises, Forget, Over
<1>8. CASE FailRead(w)
  BY <1>8 DEF FailRead, Load, Leave, Forget, Over
<1>9. ASSUME NEW st \in {"COMPLETED", "CANCELLED", "FAILED"}, CloseRow(w, st)
      PROVE  /\ Over(status'[run[w]])
             /\ \A q \in Run : q # run[w] => status'[q] = status[q] /\ lease'[q] = lease[q]
  BY <1>9 DEF CloseRow, Flushed, Over
<1>10. CASE PersistCommit(w)
  <2>1. Outcome(w) \in {"COMPLETED", "CANCELLED", "FAILED"}
    BY DEF Outcome
  <2>2. CloseRow(w, Outcome(w)) /\ Leave(w) /\ post' = post /\ pc[w] = "commit"
    BY <1>10 DEF PersistCommit
  <2>3. pc'[w] = "idle" /\ sawStatus'[w] = "ABSENT"
    BY <2>2 DEF Leave, Forget
  <2> QED BY <1>9, <2>1, <2>2, <2>3
<1>11. CASE FailCommit(w)
  <2>1. CloseRow(w, "FAILED") /\ Leave(w) /\ post' = post /\ pc[w] = "failCommit"
    BY <1>11 DEF FailCommit
  <2>2. pc'[w] = "idle" /\ sawStatus'[w] = "ABSENT"
    BY <2>1 DEF Leave, Forget
  <2> QED BY <1>9, <2>1, <2>2
<1> QED
  BY <1>1, <1>2, <1>3, <1>4, <1>5, <1>6, <1>7, <1>8, <1>10, <1>11 DEF Execute

LEMMA TrackWork ==
  ASSUME TypeOK, HandInv, QueueTypeOK, TrackInv, OneWorker, NEW w \in Worker, Work(w)
  PROVE  TrackInv'
<1> DEFINE r == hand[w]
<1>1. /\ UNCHANGED <<ready, processing, hand, scan, abandoned>>
      /\ mode[w] = "execute" /\ Execute(w) /\ r \in Run /\ processing[r] > 0
      /\ mode'[w] = IF pc'[w] = "idle" THEN "ack" ELSE "execute"
  BY DEF Work, Inside, HandInv, TrackInv, ProcessInv, ToMode
<1>2. \A v \in Worker : v = w
  BY DEF OneWorker
<1>3. \A q \in Run : Placed(ready, q) \in Nat /\ processing[q] \in Nat
  BY ListEffects DEF QueueTypeOK
<1>4. Placed(ready, r) = 0 /\ status[r] # "ABSENT" /\ post[r] # "open"
  BY <1>1, <1>3 DEF TrackInv, EntryInv, Copies
<1>5. pc[w] # "idle"
  BY <1>1 DEF Execute, LoadRecorded, StopForCancel, StartBatch, ObserveCancel, FinishBatch,
              HeartbeatRead, RenewDuring, RenewAfter, Raise, PersistRead, PersistCommit,
              PersistRaises, FailRead, FailCommit
<1>6. run[w] = r /\ (Over(sawStatus[w]) => Over(status[r]))
  BY <1>5 DEF TrackInv, ProcessInv
<1>7. /\ \A q \in Run : status'[q] = status[q] \/ Over(status'[q])
      /\ \A q \in Run : q # r => status'[q] = status[q] /\ lease'[q] = lease[q]
      /\ post' = post
      /\ pc'[w] # "idle" =>
           run'[w] = r /\ (Over(sawStatus'[w]) => Over(sawStatus[w]) \/ Over(status'[r]))
      /\ pc'[w] = "idle" => Over(status'[r]) /\ sawStatus'[w] = "ABSENT"
  <2>1. run[w] \in Run /\ (Over(sawStatus[w]) => Over(status[run[w]]))
    BY <1>1, <1>6
  <2> HIDE DEF r
  <2> QED BY <1>1, <1>6, <2>1, WorkEffects
<1> HIDE DEF r
<1> USE DEF TrackInv, Copies, Held
<1>8. EntryInv'
  BY <1>1, <1>2, <1>3, <1>4, <1>7 DEF EntryInv, Over
<1>9. ProcessInv'
  BY <1>1, <1>2, <1>6, <1>7 DEF ProcessInv, r, Over
<1>10. Tracked'
  BY <1>1, <1>7 DEF Tracked, Over
<1> QED BY <1>8, <1>9, <1>10

LEMMA TrackAck ==
  ASSUME TypeOK, HandInv, QueueTypeOK, TrackInv, OneWorker,
         NEW w \in Worker, Ack(w) \/ AckRaises(w)
  PROVE  TrackInv'
<1> DEFINE r == hand[w]
<1>1. /\ UNCHANGED <<vars, ready, scan, abandoned>>
      /\ mode[w] \in {"ack", "escape"} /\ mode'[w] = "poll" /\ r \in Run
      /\ \/ UNCHANGED processing
         \/ LRem(r) /\ mode[w] = "ack"
  BY DEF Ack, AckRaises, HandInv, ToMode
<1>2. UNCHANGED <<status, lease, post, pc, run, sawStatus>>
  BY <1>1 DEF vars, rowVars, apiVars, jobVars, copyVars
<1>3. \A v \in Worker : v = w
  BY DEF OneWorker
<1>4. \A q \in Run : Placed(ready, q) \in Nat /\ processing[q] \in Nat /\ processing'[q] \in Nat
  <2>1. \A q \in Run : Placed(ready, q) \in Nat /\ processing[q] \in Nat
    BY ListEffects DEF QueueTypeOK
  <2> HIDE DEF r
  <2>2. LRem(r) => \A q \in Run :
          processing'[q] = IF q = r /\ processing[q] > 0 THEN processing[q] - 1
                                                        ELSE processing[q]
    BY <1>1, ListEffects
  <2> QED BY <1>1, <2>1, <2>2
<1>5. \A q \in Run :
        /\ processing'[q] <= processing[q]
        /\ q # r \/ mode[w] # "ack" => processing'[q] = processing[q]
  BY <1>1, <1>4, ListEffects
<1>6. mode[w] = "ack" => Over(status[r])
  BY DEF TrackInv, ProcessInv
<1>7. pc[w] = "idle"
  BY <1>1 DEF TrackInv, ProcessInv
<1> HIDE DEF r
<1> USE DEF TrackInv, Copies, Held
<1>8. EntryInv'
  BY <1>1, <1>2, <1>3, <1>4, <1>5 DEF EntryInv
<1>9. ProcessInv'
  BY <1>1, <1>2, <1>3, <1>7 DEF ProcessInv
<1>10. Tracked'
  BY <1>1, <1>2, <1>4, <1>5, <1>6 DEF Tracked, Over
<1> QED BY <1>8, <1>9, <1>10

\* requeue moves an id that is on the processing list, and only there.
LEMMA Moved ==
  ASSUME QueueTypeOK, EntryInv, NEW r \in Run, processing[r] > 0, MoveBack(r)
  PROVE  /\ \A q \in Run : q # r =>
              Placed(ready', q) = Placed(ready, q) /\ processing'[q] = processing[q]
         /\ Placed(ready, r) = 0 /\ processing[r] = 1
         /\ Placed(ready', r) = 1 /\ processing'[r] = 0
<1>1. \A q \in Run : Placed(ready, q) \in Nat /\ processing[q] \in Nat
  BY ListEffects DEF QueueTypeOK
<1>2. Placed(ready, r) = 0 /\ processing[r] = 1
  BY <1>1 DEF EntryInv, Copies
<1> QED BY <1>1, <1>2, ListEffects DEF MoveBack

LEMMA TrackRequeue ==
  ASSUME TypeOK, HandInv, QueueTypeOK, TrackInv, OneWorker, NEW w \in Worker, Requeue(w)
  PROVE  TrackInv'
<1> DEFINE r == hand[w]
<1>1. /\ UNCHANGED <<vars, scan, abandoned>> /\ MoveBack(r)
      /\ mode[w] = "requeue" /\ mode'[w] = "recover" /\ r \in Run
  BY DEF Requeue, HandInv, ToMode
<1>2. UNCHANGED <<status, lease, post, pc, run, sawStatus>>
  BY <1>1 DEF vars, rowVars, apiVars, jobVars, copyVars
<1>3. \A v \in Worker : v = w
  BY DEF OneWorker
<1>4. /\ processing[r] > 0 /\ ~ Held(r) /\ pc[w] = "idle" /\ scan[w][r] = 0
      /\ \A q \in Run : scan[w][q] <= processing[q]
  BY <1>1 DEF TrackInv, ProcessInv
<1>5. /\ \A q \in Run : q # r =>
           Placed(ready', q) = Placed(ready, q) /\ processing'[q] = processing[q]
      /\ Placed(ready, r) = 0 /\ processing[r] = 1
      /\ Placed(ready', r) = 1 /\ processing'[r] = 0
  BY <1>1, <1>4, Moved DEF TrackInv
<1> HIDE DEF r
<1> USE DEF TrackInv, Copies, Held
<1>6. EntryInv'
  BY <1>1, <1>2, <1>3, <1>4, <1>5 DEF EntryInv
<1>7. ProcessInv'
  BY <1>1, <1>2, <1>3, <1>4, <1>5 DEF ProcessInv
<1>8. Tracked'
  BY <1>1, <1>2, <1>5 DEF Tracked
<1> QED BY <1>6, <1>7, <1>8

\* A process that dies leaves no execution and reads no row any more.
LEMMA DieEffects ==
  ASSUME TypeOK, HandInv, ProcessInv, NEW w \in Worker, Die(w)
  PROVE  /\ UNCHANGED <<status, lease, post>>
         /\ mode'[w] = "down" /\ pc'[w] = "idle" /\ ~ Over(sawStatus'[w])
<1>1. mode'[w] = "down"
  BY DEF Die, ToMode, HandInv
<1>2. CASE pc[w] # "idle"
  BY <1>1, <1>2 DEF Die, Abort, Leave, Forget, ToPc, TypeOK, Over, rowVars, apiVars
<1>3. CASE pc[w] = "idle"
  <2>1. UNCHANGED vars
    BY <1>3 DEF Die
  <2>2. ~ Over(sawStatus[w])
    BY <1>3 DEF ProcessInv
  <2> QED
    BY <1>1, <1>3, <2>1, <2>2 DEF vars, rowVars, apiVars, copyVars
<1> QED BY <1>2, <1>3

LEMMA TrackDeath ==
  ASSUME TypeOK, HandInv, QueueTypeOK, TrackInv, OneWorker, RestartsLate,
         NEW w \in Worker, Escape(w) \/ RequeueAndDie(w) \/ Crash(w)
  PROVE  TrackInv'
<1> USE DEF TrackInv
<1>1. \A v \in Worker : v = w
  BY DEF OneWorker
<1>2. CASE Escape(w)
  <2>1. /\ UNCHANGED <<ready, processing, hand, abandoned>>
        /\ mode[w] = "execute" /\ mode'[w] = "escape" /\ "escape" \in Faults
        /\ UNCHANGED <<status, lease, post>> /\ pc'[w] = "idle" /\ ~ Over(sawStatus'[w])
    BY <1>2 DEF Escape, ToMode, HandInv, Abort, Leave, Forget, ToPc, TypeOK, Over, rowVars, apiVars
  <2>2. processing[hand[w]] > 0
    BY <2>1 DEF ProcessInv
  <2> USE DEF Copies, Held
  <2>3. EntryInv'
    BY <1>1, <2>1 DEF EntryInv
  <2>4. ProcessInv'
    BY <1>1, <2>1, <2>2 DEF ProcessInv
  <2>5. Tracked'
    BY <2>1 DEF Tracked
  <2> QED BY <2>3, <2>4, <2>5
<1>3. CASE Crash(w)
  <2>1. UNCHANGED <<ready, processing, abandoned, status, lease, post>>
    BY <1>3, DieEffects DEF Crash
  <2>2. mode'[w] = "down" /\ pc'[w] = "idle" /\ ~ Over(sawStatus'[w])
    BY <1>3, DieEffects DEF Crash
  <2> USE DEF Copies, Held
  <2>3. EntryInv'
    BY <1>1, <2>1, <2>2 DEF EntryInv
  <2>4. ProcessInv'
    BY <1>1, <2>1, <2>2 DEF ProcessInv
  <2>5. Tracked'
    BY <2>1 DEF Tracked
  <2> QED BY <2>3, <2>4, <2>5
<1>4. CASE RequeueAndDie(w)
  <2> DEFINE r == hand[w]
  <2>1. MoveBack(r) /\ abandoned' = abandoned /\ Die(w) /\ mode[w] = "escape" /\ r \in Run
    BY <1>4 DEF RequeueAndDie, HandInv
  <2>2. /\ UNCHANGED <<status, lease, post>>
        /\ mode'[w] = "down" /\ pc'[w] = "idle" /\ ~ Over(sawStatus'[w])
    BY <2>1, DieEffects
  <2>3. processing[r] > 0 /\ LateRestart
    BY <2>1 DEF ProcessInv, RestartsLate
  <2>4. /\ \A q \in Run : q # r =>
             Placed(ready', q) = Placed(ready, q) /\ processing'[q] = processing[q]
        /\ Placed(ready, r) = 0 /\ processing[r] = 1
        /\ Placed(ready', r) = 1 /\ processing'[r] = 0
    BY <2>1, <2>3, Moved
  <2> HIDE DEF r
  <2> USE DEF Copies, Held
  <2>5. EntryInv'
    BY <1>1, <2>1, <2>2, <2>3, <2>4 DEF EntryInv
  <2>6. ProcessInv'
    BY <1>1, <2>2 DEF ProcessInv
  <2>7. Tracked'
    BY <2>1, <2>2, <2>4 DEF Tracked
  <2> QED BY <2>5, <2>6, <2>7
<1> QED BY <1>2, <1>3, <1>4

LEMMA TrackInit == RedisInit => TrackInv
<1> SUFFICES ASSUME RedisInit PROVE TrackInv
  OBVIOUS
<1>1. \A q \in Run : Placed(ready, q) = 0 /\ processing[q] = 0
  <2>1. ready = <<>> /\ \A q \in Run : processing[q] = 0
    BY DEF RedisInit, Nothing
  <2>2. DOMAIN ready = {}
    BY <2>1
  <2>3. \A q : {i \in DOMAIN ready : ready[i] = q} = {}
    BY <2>2
  <2> QED BY <2>1, <2>3, FS_EmptySet DEF Placed
<1>2. EntryInv
  <2>1. \A r \in Run : status[r] = "ABSENT" /\ post[r] = "none"
    BY DEF RedisInit, Init
  <2>2. \A r \in Run : ~ Held(r)
    BY <2>1 DEF Held
  <2>3. \A r \in Run : Copies(r) = 0 /\ Copies(r) <= 1
    <3> TAKE r \in Run
    <3>1. Placed(ready, r) = 0 /\ processing[r] = 0
      BY <1>1
    <3> QED BY <3>1 DEF Copies
  <2>4. \A r \in Run :
          /\ status[r] = "ABSENT" => post[r] # "open"
          /\ post[r] = "open" => status[r] # "RUNNING"
    BY <2>1
  <2> QED BY <2>2, <2>3, <2>4, Zenon DEF EntryInv
<1>3. ProcessInv
  BY DEF RedisInit, Init, ProcessInv, Over
<1>4. Tracked
  BY DEF RedisInit, Init, Tracked
<1> QED BY <1>2, <1>3, <1>4 DEF TrackInv

LEMMA TrackStep ==
  ASSUME OneWorker, RestartsLate, TypeOK, HandInv, QueueTypeOK, TrackInv,
         [RedisNext]_redisVars
  PROVE  TrackInv'
<1>1. CASE RowRequest \/ TimePasses \/ UNCHANGED redisVars
  BY <1>1, TrackRows
<1>2. ASSUME NEW r \in Run, Push(r) \/ PushRaises(r) \/ ApiDies(r) PROVE TrackInv'
  BY <1>2, TrackPush
<1>3. ASSUME NEW w \in Worker, Start(w) \/ Recover(w) \/ Listen(w) PROVE TrackInv'
  BY <1>3, TrackRecovery
<1>4. ASSUME NEW w \in Worker, Requeue(w) PROVE TrackInv'
  BY <1>4, TrackRequeue
<1>5. ASSUME NEW w \in Worker, Poll(w) \/ ReplyLost(w) PROVE TrackInv'
  BY <1>5, TrackPoll
<1>6. ASSUME NEW w \in Worker, Claim(w) PROVE TrackInv'
  BY <1>6, TrackClaim
<1>7. ASSUME NEW w \in Worker, Work(w) PROVE TrackInv'
  BY <1>7, TrackWork
<1>8. ASSUME NEW w \in Worker, Ack(w) \/ AckRaises(w) PROVE TrackInv'
  BY <1>8, TrackAck
<1>9. ASSUME NEW w \in Worker, Escape(w) \/ RequeueAndDie(w) \/ Crash(w) PROVE TrackInv'
  BY <1>9, TrackDeath
<1> QED
  BY <1>1, <1>2, <1>3, <1>4, <1>5, <1>6, <1>7, <1>8, <1>9 DEF RedisNext

LEMMA TrackAlways ==
  ASSUME OneWorker, RestartsLate
  PROVE  RedisSafe => []TrackInv
<1>1. RedisSafe => []TypeOK
  BY DispatchRestricts, TypeCorrect, PTL DEF RestrictsEvalRun
<1>2. RedisInit => HandInv /\ QueueTypeOK /\ TrackInv
  BY HandInit, QueueInit, TrackInit
<1>3. TypeOK /\ HandInv /\ QueueTypeOK /\ TrackInv /\ [RedisNext]_redisVars
        => HandInv' /\ QueueTypeOK' /\ TrackInv'
  BY HandStep, QueueStep, TrackStep
<1> QED BY <1>1, <1>2, <1>3, PTL DEF RedisSafe

\* No run is lost by one worker process that crashes, loses replies and fails to
\* acknowledge, or that is ended by an exception and stays down for a lease,
THEOREM NoRunLost ==
  ASSUME OneWorker, RestartsLate
  PROVE  RedisSafe => []Tracked
<1>1. TrackInv => Tracked
  BY DEF TrackInv
<1> QED BY <1>1, TrackAlways, PTL

\* and none is multiplied by recovery and requeueing.
THEOREM HandedOutOnce ==
  ASSUME OneWorker, RestartsLate
  PROVE  RedisSafe => []OneCopy
<1>1. TrackInv => OneCopy
  BY DEF TrackInv, EntryInv, OneCopy
<1> QED BY <1>1, TrackAlways, PTL
=============================================================================
