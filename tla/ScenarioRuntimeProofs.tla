----------------------- MODULE ScenarioRuntimeProofs -----------------------
(***************************************************************************)
(* Theorems about ScenarioRuntime, for every set of keys, workers, calls,  *)
(* bodies and gate results.                                                *)
(*                                                                         *)
(* RuntimeInv strengthens the three invariants: an id is pushed by the one *)
(* request that inserted its row, an answer is to what the row was made    *)
(* for, and an execution knows an attempt no younger than the one of its   *)
(* row.                                                                    *)
(***************************************************************************)
EXTENDS ScenarioRuntime, TLAPS

\* What is under way is about some key.
KeysKnown ==
  /\ \A q \in Call : call[q].at # "idle" => call[q].key \in Key
  /\ \A w \in Runner : job[w].at # "idle" => job[w].key \in Key

\* The request that will enqueue a run is the one that inserted its row.
PushInv ==
  /\ \A k \in Key : row[k].status = "ABSENT" => pushed[k] = 0
  /\ \A q \in Call : call[q].at = "enqueue" =>
       /\ row[call[q].key].status # "ABSENT"
       /\ row[call[q].key].body = call[q].body
       /\ pushed[call[q].key] = 0
       /\ \A p \in Call \ {q} : call[p].at = "enqueue" => call[p].key # call[q].key
  /\ \A k \in Key : pushed[k] <= 1

\* Whoever was answered asked for what the row was inserted for.
AnswerInv ==
  \A x \in answered : row[x[1]].status # "ABSENT" /\ Request(row[x[1]].body) = x[2]

\* An execution has a claim, no younger than the attempt of the row, nor than
\* the attempt it labels its node runs with.
ClaimInv ==
  \A w \in Runner :
    /\ job[w].at # "idle" => 1 <= job[w].claim /\ job[w].claim <= row[job[w].key].attempt
    /\ job[w].at = "store" => job[w].claim <= job[w].saw.attempt

RuntimeInv ==
  /\ RuntimeTypeOK
  /\ KeysKnown
  /\ PushInv
  /\ AnswerInv
  /\ ClaimInv
  /\ ClaimsFenced
  /\ OutputHasNodes

-----------------------------------------------------------------------------
(* Types *)

LEMMA NoBodyIsOne == NoBody \in Body
BY RuntimeAssumption DEF NoBody

LEMMA InitTyped == RuntimeInit => RuntimeTypeOK /\ KeysKnown
<1> SUFFICES ASSUME RuntimeInit PROVE RuntimeTypeOK /\ KeysKnown
  OBVIOUS
<1> USE DEF RuntimeInit
<1>1. row \in [Key -> RunRow]
  BY NoBodyIsOne, RuntimeAssumption DEF RunRow, RunState, Claims
<1>2. nodes \in [Key -> [1 .. MaxClaim -> Claims]]
  BY RuntimeAssumption DEF Claims
<1>3. gates \in Seq(GateRow) /\ Len(gates) <= MaxGate
  BY RuntimeAssumption
<1>4. call \in [Call -> CallType]
  BY NoBodyIsOne DEF NoCall, CallType
<1>5. job \in [Runner -> JobType]
  BY RuntimeAssumption DEF NoJob, NoSight, JobType, RunState, Claims
<1> QED
  BY <1>1, <1>2, <1>3, <1>4, <1>5 DEF RuntimeTypeOK, KeysKnown, NoCall, NoJob

\* A session that closes a row touches two columns, and its status becomes the
\* new one or stays.
LEMMA ClosedRow ==
  ASSUME row \in [Key -> RunRow], NEW w \in Runner, NEW k \in Key, job[w].key = k,
         NEW st \in RunState
  PROVE  /\ Closed(w, st) \in RunRow
         /\ Closed(w, st).status \in {st, row[k].status}
         /\ Closed(w, st).owner = row[k].owner
         /\ Closed(w, st).attempt = row[k].attempt
         /\ Closed(w, st).body = row[k].body
         /\ Closed(w, st).output = row[k].output
<1>1. row[k] \in RunRow
  OBVIOUS
<1> DEFINE s == Written(job[w].saw.status, st, row[k].status)
           l == Written(job[w].saw.lease, "none", row[k].lease)
<1>2. s \in {st, row[k].status} /\ l \in {"none", row[k].lease}
  BY DEF Written
<1>3. Closed(w, st) = [row[k] EXCEPT !.status = s, !.lease = l]
  BY DEF Closed, RunRow
<1>4. s \in RunState /\ l \in {"none", "live", "expired"}
  BY <1>1, <1>2 DEF RunRow
<1> HIDE DEF s, l
<1> QED
  BY <1>1, <1>2, <1>3, <1>4 DEF RunRow

\* The row a successful execution leaves.
LEMMA StoredRow ==
  ASSUME row \in [Key -> RunRow], job \in [Runner -> JobType],
         NEW w \in Runner, NEW k \in Key, job[w].key = k, PersistSuccess(w)
  PROVE  \E st \in {"FAILED", "COMPLETED"} :
           /\ row' = [row EXCEPT ![k] = [Closed(w, st) EXCEPT !.output = job[w].claim]]
           /\ row'[k] \in RunRow
           /\ row'[k].status \in {st, row[k].status}
           /\ row'[k].owner = row[k].owner
           /\ row'[k].attempt = row[k].attempt
           /\ row'[k].body = row[k].body
           /\ row'[k].output = job[w].claim
<1>1. PICK over \in BOOLEAN : Store(w, over)
  BY DEF PersistSuccess
<1> DEFINE st == IF over THEN "FAILED" ELSE "COMPLETED"
<1>2. st \in {"FAILED", "COMPLETED"} /\ st \in RunState
  BY DEF RunState, Final
<1>3. job[w].claim \in Claims
  BY DEF JobType
<1>4. row' = [row EXCEPT ![k] = [Closed(w, st) EXCEPT !.output = job[w].claim]]
  BY <1>1 DEF Store
<1> HIDE DEF st
<1>5. /\ Closed(w, st) \in RunRow
      /\ Closed(w, st).status \in {st, row[k].status}
      /\ Closed(w, st).owner = row[k].owner
      /\ Closed(w, st).attempt = row[k].attempt
      /\ Closed(w, st).body = row[k].body
  BY <1>2, ClosedRow
<1>6. row'[k] = [Closed(w, st) EXCEPT !.output = job[w].claim]
  BY <1>4
<1> HIDE DEF Closed
<1>7. /\ row'[k] \in RunRow
      /\ row'[k].status = Closed(w, st).status
      /\ row'[k].owner = Closed(w, st).owner
      /\ row'[k].attempt = Closed(w, st).attempt
      /\ row'[k].body = Closed(w, st).body
      /\ row'[k].output = job[w].claim
  BY <1>3, <1>5, <1>6 DEF RunRow
<1> QED
  BY <1>2, <1>4, <1>5, <1>7

Over == Final \cup {"CANCEL_REQUESTED"}

\* What a step does to a row: its request stays, what is over stays over, only a
\* claim changes whose it is and its attempt, and only a successful execution
\* its output or that it is completed.
RowChange(k) ==
  /\ row'[k] \in RunRow
  /\ row'[k].status = "ABSENT" => row[k].status = "ABSENT"
  /\ row[k].status # "ABSENT" => row'[k].body = row[k].body
  /\ row[k].status \in Over => row'[k].status \in Over
  /\ \/ \E w \in Runner : Claim(w, k)
     \/ row'[k].owner = row[k].owner /\ row'[k].attempt = row[k].attempt
  /\ \/ \E w \in Runner : PersistSuccess(w) /\ job[w].key = k
     \/ /\ row'[k].output = row[k].output
        /\ row'[k].status = "COMPLETED" => row[k].status = "COMPLETED"

LEMMA RowStep ==
  ASSUME row \in [Key -> RunRow], call \in [Call -> CallType], job \in [Runner -> JobType],
         KeysKnown, RuntimeNext
  PROVE  row' \in [Key -> RunRow] /\ \A k \in Key : RowChange(k)
<1> USE RuntimeAssumption DEF rest
<1>r. \A k \in Key : row[k] \in RunRow
  OBVIOUS
<1>0. ASSUME UNCHANGED row PROVE row' \in [Key -> RunRow] /\ \A k \in Key : RowChange(k)
  BY <1>0, <1>r DEF RowChange
<1>1. ASSUME NEW q \in Call, PostCommits(q)
      PROVE  row' \in [Key -> RunRow] /\ \A k \in Key : RowChange(k)
  <2>1. call[q].key \in Key /\ call[q].body \in Body
    BY <1>1 DEF PostCommits, KeysKnown, CallType
  <2>2. row[call[q].key].status = "ABSENT"
    BY <1>1 DEF PostCommits, Insert
  <2>3. row' = [row EXCEPT ![call[q].key].status = "QUEUED", ![call[q].key].body = call[q].body]
    BY <1>1 DEF PostCommits, Insert
  <2> QED
    BY <2>1, <2>2, <2>3, <1>r DEF RunRow, RunState, Final, Over, RowChange
<1>2. ASSUME NEW k \in Key, StopCommits(k)
      PROVE  row' \in [Key -> RunRow] /\ \A j \in Key : RowChange(j)
  <2>1. row' = [row EXCEPT ![k].status = "CANCEL_REQUESTED"]
    BY <1>2 DEF StopCommits
  <2> QED
    BY <2>1, <1>r DEF RunRow, RunState, Final, Over, RowChange
<1>3. ASSUME NEW k \in Key, LeaseEnds(k)
      PROVE  row' \in [Key -> RunRow] /\ \A j \in Key : RowChange(j)
  <2>1. row' = [row EXCEPT ![k].lease = "expired"]
    BY <1>3 DEF LeaseEnds
  <2> QED
    BY <2>1, <1>r DEF RunRow, RowChange
<1>4. ASSUME NEW k \in Key, NEW w \in Runner, Claim(w, k)
      PROVE  row' \in [Key -> RunRow] /\ \A j \in Key : RowChange(j)
  <2>1. row[k].attempt + 1 \in Claims
    BY <1>4 DEF Claim, RunRow, Claims
  <2>2. row' = [row EXCEPT ![k] = [row[k] EXCEPT
                  !.status = "RUNNING", !.lease = "live", !.attempt = row[k].attempt + 1, !.owner = w]]
    BY <1>4 DEF Claim, Taken
  <2>3. /\ row'[k] \in RunRow
        /\ row'[k].status = "RUNNING"
        /\ row'[k].body = row[k].body
        /\ row'[k].output = row[k].output
    BY <2>1, <2>2 DEF RunRow, RunState
  <2>4. row[k].status \notin Over
    BY <1>4 DEF Claim, Takeable, Over, Final
  <2>5. RowChange(k)
    BY <2>3, <2>4, <1>4 DEF RowChange
  <2>6. \A j \in Key \ {k} : row'[j] = row[j]
    BY <2>2
  <2> QED
    BY <2>2, <2>3, <2>5, <2>6, <1>r DEF RowChange
<1>5. ASSUME NEW k \in Key, NEW w \in Runner, ClaimStops(w, k)
      PROVE  row' \in [Key -> RunRow] /\ \A j \in Key : RowChange(j)
  <2>1. row' = [row EXCEPT ![k].status = "CANCELLED"]
    BY <1>5 DEF ClaimStops
  <2> QED
    BY <2>1, <1>r DEF RunRow, RunState, Final, Over, RowChange
<1>6. ASSUME NEW w \in Runner, BeatCommits(w)
      PROVE  row' \in [Key -> RunRow] /\ \A j \in Key : RowChange(j)
  <2>1. row' = [row EXCEPT ![job[w].key].lease = "live"] /\ job[w].key \in Key
    BY <1>6 DEF BeatCommits, KeysKnown
  <2> QED
    BY <2>1, <1>r DEF RunRow, RowChange
<1>7. ASSUME NEW w \in Runner, PersistSuccess(w)
      PROVE  row' \in [Key -> RunRow] /\ \A j \in Key : RowChange(j)
  <2>1. job[w].key \in Key
    BY <1>7 DEF PersistSuccess, KeysKnown
  <2>2. PICK st \in {"FAILED", "COMPLETED"} :
           /\ row' = [row EXCEPT ![job[w].key] = [Closed(w, st) EXCEPT !.output = job[w].claim]]
           /\ row'[job[w].key] \in RunRow
           /\ row'[job[w].key].status \in {st, row[job[w].key].status}
           /\ row'[job[w].key].owner = row[job[w].key].owner
           /\ row'[job[w].key].attempt = row[job[w].key].attempt
           /\ row'[job[w].key].body = row[job[w].key].body
    BY <1>7, <2>1, StoredRow
  <2>3. RowChange(job[w].key)
    BY <1>7, <2>1, <2>2 DEF RowChange, Over, Final
  <2>4. \A j \in Key \ {job[w].key} : row'[j] = row[j]
    BY <2>2
  <2> QED
    BY <2>1, <2>2, <2>3, <2>4, <1>r DEF RowChange
<1>8. ASSUME NEW w \in Runner, MarkEnded(w)
      PROVE  row' \in [Key -> RunRow] /\ \A j \in Key : RowChange(j)
  <2>1. job[w].key \in Key /\ row' = [row EXCEPT ![job[w].key] = Closed(w, EndStatus(w))]
    BY <1>8 DEF MarkEnded, KeysKnown
  <2>2. EndStatus(w) \in RunState \ {"ABSENT"}
    BY DEF EndStatus, RunState, Final
  <2>3. /\ Closed(w, EndStatus(w)) \in RunRow
        /\ Closed(w, EndStatus(w)).status \in {EndStatus(w), row[job[w].key].status}
        /\ Closed(w, EndStatus(w)).owner = row[job[w].key].owner
        /\ Closed(w, EndStatus(w)).attempt = row[job[w].key].attempt
        /\ Closed(w, EndStatus(w)).body = row[job[w].key].body
        /\ Closed(w, EndStatus(w)).output = row[job[w].key].output
    BY <2>1, <2>2, ClosedRow
  <2>4. EndStatus(w) \in Over \ {"COMPLETED"}
    BY DEF EndStatus, Over, Final
  <2>5. RowChange(job[w].key)
    BY <2>1, <2>2, <2>3, <2>4 DEF RowChange
  <2>6. \A j \in Key \ {job[w].key} : row'[j] = row[j]
    BY <2>1
  <2> QED
    BY <2>1, <2>3, <2>5, <2>6, <1>r DEF RowChange
<1> QED
  BY <1>0, <1>1, <1>2, <1>3, <1>4, <1>5, <1>6, <1>7, <1>8
     DEF RuntimeNext, Decide, PostReads, PostAnswers, PostFailsOver, StopReads, Return,
         BeatReads, CloseReads, PersistFails, Dies

LEMMA CallStep ==
  ASSUME call \in [Call -> CallType], KeysKnown, RuntimeNext
  PROVE  /\ call' \in [Call -> CallType]
         /\ \A q \in Call : call'[q].at # "idle" => call'[q].key \in Key
<1> USE DEF rest
<1> DEFINE Good == /\ call' \in [Call -> CallType]
                   /\ \A q \in Call : call'[q].at # "idle" => call'[q].key \in Key
<1>k. \A q \in Call : call[q].at # "idle" => call[q].key \in Key
  BY DEF KeysKnown
<1>0. ASSUME UNCHANGED call PROVE Good
  BY <1>0, <1>k
<1>1. ASSUME NEW q \in Call, PostReads(q) PROVE Good
  <2>1. CASE UNCHANGED call
    BY <2>1, <1>0
  <2>2. CASE ~ UNCHANGED call
    <3>1. PICK k \in Key, b \in Body :
             call' = [call EXCEPT ![q] = [at |-> "insert", key |-> k, body |-> b]]
      BY <1>1, <2>2 DEF PostReads
    <3> QED
      BY <3>1, <1>k DEF CallType
  <2> QED
    BY <2>1, <2>2
<1>2. ASSUME NEW q \in Call, PostCommits(q) PROVE Good
  <2>1. call' = [call EXCEPT ![q].at = "enqueue"] /\ call[q].key \in Key
    BY <1>2, <1>k DEF PostCommits
  <2> QED
    BY <2>1, <1>k DEF CallType
<1>3. ASSUME NEW q \in Call, PostAnswers(q) \/ PostFailsOver(q) PROVE Good
  <2>1. call' = [call EXCEPT ![q] = NoCall]
    BY <1>3 DEF PostAnswers, PostFailsOver
  <2> QED
    BY <2>1, <1>k, NoBodyIsOne DEF NoCall, CallType
<1> QED
  BY <1>0, <1>1, <1>2, <1>3
     DEF RuntimeNext, Decide, StopReads, StopCommits, LeaseEnds, Claim, ClaimStops, Return,
         BeatReads, BeatCommits, CloseReads, PersistSuccess, PersistFails, MarkEnded, Dies

LEMMA NoJobTyped == NoJob \in JobType /\ NoSight \in
  [status : RunState, lease : {"none", "live", "expired"}, attempt : Claims]
BY RuntimeAssumption DEF NoJob, NoSight, JobType, RunState, Claims

LEMMA JobStep ==
  ASSUME row \in [Key -> RunRow], job \in [Runner -> JobType], KeysKnown, RuntimeNext
  PROVE  /\ job' \in [Runner -> JobType]
         /\ \A w \in Runner : job'[w].at # "idle" => job'[w].key \in Key
<1> USE DEF rest
<1> DEFINE Good == /\ job' \in [Runner -> JobType]
                   /\ \A w \in Runner : job'[w].at # "idle" => job'[w].key \in Key
<1>k. \A w \in Runner : job[w].at # "idle" => job[w].key \in Key
  BY DEF KeysKnown
<1>0. ASSUME UNCHANGED job PROVE Good
  BY <1>0, <1>k
<1>1. ASSUME NEW k \in Key, NEW w \in Runner, Claim(w, k) PROVE Good
  <2>1. row[k].attempt + 1 \in Claims
    BY <1>1, RuntimeAssumption DEF Claim, RunRow, Claims
  <2>2. job' = [job EXCEPT ![w] =
          [at |-> "run", key |-> k, claim |-> row[k].attempt + 1, saw |-> NoSight]]
    BY <1>1 DEF Claim
  <2> QED
    BY <2>1, <2>2, <1>k, NoJobTyped DEF JobType
<1>2. ASSUME NEW w \in Runner, Return(w) \/ BeatReads(w) \/ BeatCommits(w) PROVE Good
  <2>1. PICK l \in {"run", "persist", "fail", "beat", "cancel"} : job' = [job EXCEPT ![w].at = l]
    BY <1>2 DEF Return, BeatReads, BeatCommits, At
  <2>2. job[w].at # "idle"
    BY <1>2 DEF Return, BeatReads, BeatCommits
  <2> QED
    BY <2>1, <2>2, <1>k DEF JobType
<1>3. ASSUME NEW w \in Runner, CloseReads(w) PROVE Good
  <2>1. job[w].at # "idle" /\ job[w].key \in Key
    BY <1>3, <1>k DEF CloseReads
  <2>2. Sight(job[w].key) \in
          [status : RunState, lease : {"none", "live", "expired"}, attempt : Claims]
    BY <2>1 DEF Sight, RunRow
  <2>3. PICK l \in {"store", "drop", "close"} :
           job' = [job EXCEPT ![w].saw = Sight(job[w].key), ![w].at = l]
    BY <1>3 DEF CloseReads
  <2>4. job' = [job EXCEPT ![w] = [job[w] EXCEPT !.saw = Sight(job[w].key), !.at = l]]
    BY <2>3
  <2>5. /\ [job[w] EXCEPT !.saw = Sight(job[w].key), !.at = l] \in JobType
        /\ [job[w] EXCEPT !.saw = Sight(job[w].key), !.at = l].key = job[w].key
    BY <2>2 DEF JobType
  <2> QED
    BY <2>1, <2>4, <2>5, <1>k
<1>4. ASSUME NEW w \in Runner, PersistFails(w) PROVE Good
  <2>1. job' = [job EXCEPT ![w].at = "fail", ![w].saw = NoSight] /\ job[w].at # "idle"
    BY <1>4 DEF PersistFails
  <2> QED
    BY <2>1, <1>k, NoJobTyped DEF JobType
<1>5. ASSUME NEW w \in Runner, PersistSuccess(w) \/ MarkEnded(w) \/ Dies(w) PROVE Good
  <2>1. job' = [job EXCEPT ![w] = NoJob]
    BY <1>5 DEF PersistSuccess, MarkEnded, Dies
  <2>2. NoJob.at = "idle"
    BY DEF NoJob
  <2> QED
    BY <2>1, <2>2, <1>k, NoJobTyped
<1> QED
  BY <1>0, <1>1, <1>2, <1>3, <1>4, <1>5
     DEF RuntimeNext, Decide, PostReads, PostCommits, PostAnswers, PostFailsOver, StopReads,
         StopCommits, LeaseEnds, ClaimStops

\* An execution stores its node runs under an attempt nobody has stored under.
LEMMA NodesStep ==
  ASSUME nodes \in [Key -> [1 .. MaxClaim -> Claims]], job \in [Runner -> JobType],
         KeysKnown, RuntimeNext
  PROVE  nodes' \in [Key -> [1 .. MaxClaim -> Claims]]
<1> USE DEF rest
<1>1. ASSUME NEW w \in Runner, PersistSuccess(w)
      PROVE  nodes' \in [Key -> [1 .. MaxClaim -> Claims]]
  <2>1. job[w].key \in Key /\ job[w].claim \in Claims
    BY <1>1 DEF PersistSuccess, KeysKnown, JobType
  <2>2. nodes' = [nodes EXCEPT ![job[w].key][job[w].saw.attempt] = job[w].claim]
    BY <1>1 DEF PersistSuccess, Store
  <2> QED
    BY <2>1, <2>2
<1> QED
  BY <1>1
     DEF RuntimeNext, Decide, PostReads, PostCommits, PostAnswers, PostFailsOver, StopReads,
         StopCommits, LeaseEnds, Claim, ClaimStops, Return, BeatReads, BeatCommits, CloseReads,
         PersistFails, MarkEnded, Dies

\* What the requests leave behind.
LEMMA RequestStep ==
  ASSUME call \in [Call -> CallType], pushed \in [Key -> Nat],
         answered \subseteq Key \X {Request(b) : b \in Body}, stopping \in [Key -> BOOLEAN], KeysKnown, RuntimeNext
  PROVE  /\ pushed' \in [Key -> Nat]
         /\ answered' \subseteq Key \X {Request(b) : b \in Body}
         /\ stopping' \in [Key -> BOOLEAN]
<1> USE DEF rest
<1>k. \A q \in Call : call[q].body \in Body /\ (call[q].at # "idle" => call[q].key \in Key)
  BY DEF KeysKnown, CallType
<1>1. pushed' \in [Key -> Nat]
  <2>1. ASSUME NEW q \in Call, PostAnswers(q) \/ PostFailsOver(q)
        PROVE  pushed' \in [Key -> Nat]
    BY <2>1, <1>k DEF PostAnswers, PostFailsOver, Push
  <2> QED
    BY <2>1
       DEF RuntimeNext, Decide, PostReads, PostCommits, StopReads, StopCommits, LeaseEnds, Claim,
           ClaimStops, Return, BeatReads, BeatCommits, CloseReads, PersistSuccess, PersistFails,
           MarkEnded, Dies
<1>2. answered' \subseteq Key \X {Request(b) : b \in Body}
  <2>1. ASSUME NEW q \in Call, PostReads(q) \/ PostAnswers(q)
        PROVE  answered' \subseteq Key \X {Request(b) : b \in Body}
    BY <2>1, <1>k DEF PostReads, PostAnswers
  <2> QED
    BY <2>1
       DEF RuntimeNext, Decide, PostCommits, PostFailsOver, StopReads, StopCommits, LeaseEnds,
           Claim, ClaimStops, Return, BeatReads, BeatCommits, CloseReads, PersistSuccess,
           PersistFails, MarkEnded, Dies
<1>3. stopping' \in [Key -> BOOLEAN]
  BY DEF RuntimeNext, Decide, PostReads, PostCommits, PostAnswers, PostFailsOver, StopReads,
         StopCommits, LeaseEnds, Claim, ClaimStops, Return, BeatReads, BeatCommits, CloseReads,
         PersistSuccess, PersistFails, MarkEnded, Dies
<1> QED
  BY <1>1, <1>2, <1>3

LEMMA GatesStep ==
  ASSUME gates \in Seq(GateRow), Len(gates) <= MaxGate, RuntimeNext
  PROVE  gates' \in Seq(GateRow) /\ Len(gates') <= MaxGate
<1>1. CASE Decide
  BY <1>1, RuntimeAssumption DEF Decide
<1> QED
  BY <1>1
     DEF RuntimeNext, PostReads, PostCommits, PostAnswers, PostFailsOver, StopReads,
         StopCommits, LeaseEnds, Claim, ClaimStops, Return, BeatReads, BeatCommits, CloseReads,
         PersistSuccess, PersistFails, MarkEnded, Dies, rest

LEMMA TypeStep == RuntimeTypeOK /\ KeysKnown /\ RuntimeNext => RuntimeTypeOK' /\ KeysKnown'
<1> SUFFICES ASSUME RuntimeTypeOK, KeysKnown, RuntimeNext
             PROVE  RuntimeTypeOK' /\ KeysKnown'
  OBVIOUS
<1>1. row' \in [Key -> RunRow] /\ call' \in [Call -> CallType] /\ job' \in [Runner -> JobType]
  BY RowStep, CallStep, JobStep DEF RuntimeTypeOK
<1>2. nodes' \in [Key -> [1 .. MaxClaim -> Claims]]
  BY NodesStep DEF RuntimeTypeOK
<1>3. gates' \in Seq(GateRow) /\ Len(gates') <= MaxGate
  BY GatesStep DEF RuntimeTypeOK
<1>4. /\ pushed' \in [Key -> Nat] /\ stopping' \in [Key -> BOOLEAN]
      /\ answered' \subseteq Key \X {Request(b) : b \in Body}
  BY RequestStep DEF RuntimeTypeOK
<1>5. KeysKnown'
  BY CallStep, JobStep DEF RuntimeTypeOK, KeysKnown
<1> QED
  BY <1>1, <1>2, <1>3, <1>4, <1>5 DEF RuntimeTypeOK

-----------------------------------------------------------------------------
(* The invariant *)

LEMMA InvInit == RuntimeInit => RuntimeInv
<1> SUFFICES ASSUME RuntimeInit PROVE RuntimeInv
  OBVIOUS
<1>1. RuntimeTypeOK /\ KeysKnown
  BY InitTyped
<1>2. /\ \A k \in Key : row[k].status = "ABSENT" /\ row[k].output = 0 /\ pushed[k] = 0
      /\ \A q \in Call : call[q].at = "idle"
      /\ \A w \in Runner : job[w].at = "idle"
      /\ answered = {}
  BY DEF RuntimeInit, NoCall, NoJob
<1> QED
  BY <1>1, <1>2
     DEF RuntimeInv, PushInv, AnswerInv, ClaimInv, ClaimsFenced, OutputHasNodes

LEMMA PushStep == RuntimeInv /\ RuntimeNext => PushInv'
<1> SUFFICES ASSUME RuntimeInv, RuntimeNext PROVE PushInv'
  OBVIOUS
<1> USE DEF rest
<1>t. /\ call \in [Call -> CallType] /\ pushed \in [Key -> Nat]
      /\ \A q \in Call : call[q].at # "idle" => call[q].key \in Key
      /\ PushInv
  BY DEF RuntimeInv, RuntimeTypeOK, KeysKnown
<1>r. \A k \in Key : RowChange(k)
  BY RowStep DEF RuntimeInv, RuntimeTypeOK
<1>0. ASSUME UNCHANGED <<call, pushed>> PROVE PushInv'
  BY <1>0, <1>r, <1>t DEF PushInv, RowChange
<1>1. ASSUME NEW q \in Call, PostReads(q) PROVE PushInv'
  <2>1. UNCHANGED <<row, pushed>>
    BY <1>1 DEF PostReads
  <2>2. \A p \in Call : call'[p].at = "enqueue" => call'[p] = call[p]
    BY <1>1, <1>t DEF PostReads
  <2> QED
    BY <2>1, <2>2, <1>t DEF PushInv
<1>2. ASSUME NEW q \in Call, PostCommits(q) PROVE PushInv'
  <2> DEFINE k == call[q].key
  <2>1. k \in Key /\ row[k].status = "ABSENT" /\ pushed[k] = 0
    BY <1>2, <1>t DEF PostCommits, Insert, PushInv
  <2>2. row'[k].status = "QUEUED" /\ row'[k].body = call[q].body
    <3>1. row \in [Key -> RunRow]
      BY DEF RuntimeInv, RuntimeTypeOK
    <3> QED
      BY <3>1, <1>2, <2>1 DEF PostCommits, Insert, RunRow
  <2>3. call'[q].key = k /\ call'[q].body = call[q].body
    BY <1>2, <1>t DEF PostCommits, CallType
  <2>4. \A p \in Call \ {q} : call'[p] = call[p]
    BY <1>2, <1>t DEF PostCommits
  <2>5. pushed' = pushed
    BY <1>2 DEF PostCommits
  <2>6. \A p \in Call \ {q} : call[p].at = "enqueue" => call[p].key # k
    BY <2>1, <1>t DEF PushInv
  <2> HIDE DEF k
  <2>7. ASSUME NEW p \in Call, call'[p].at = "enqueue"
        PROVE  /\ row'[call'[p].key].status # "ABSENT"
               /\ row'[call'[p].key].body = call'[p].body
               /\ pushed'[call'[p].key] = 0
               /\ \A o \in Call \ {p} : call'[o].at = "enqueue" => call'[o].key # call'[p].key
    <3>1. CASE p = q
      BY <3>1, <2>1, <2>2, <2>3, <2>4, <2>5, <2>6
    <3>2. CASE p # q
      BY <3>2, <2>7, <2>3, <2>4, <2>5, <2>6, <1>r, <1>t DEF PushInv, RowChange
    <3> QED
      BY <3>1, <3>2
  <2>8. \A j \in Key : (row'[j].status = "ABSENT" => pushed'[j] = 0) /\ pushed'[j] <= 1
    BY <2>5, <1>r, <1>t DEF PushInv, RowChange
  <2> QED
    BY <2>7, <2>8 DEF PushInv
<1>3. ASSUME NEW q \in Call, PostAnswers(q) \/ PostFailsOver(q) PROVE PushInv'
  <2>1. row' = row
    BY <1>3 DEF PostAnswers, PostFailsOver
  <2>2. \A p \in Call : call'[p].at = "enqueue" => p # q /\ call'[p] = call[p]
    BY <1>3, <1>t DEF PostAnswers, PostFailsOver, NoCall
  <2>3. \/ pushed' = pushed
        \/ call[q].at = "enqueue" /\ pushed' = [pushed EXCEPT ![call[q].key] = pushed[call[q].key] + 1]
    BY <1>3 DEF PostAnswers, PostFailsOver, Push
  <2>4. CASE pushed' = pushed
    BY <2>1, <2>2, <2>4, <1>t DEF PushInv
  <2>5. CASE /\ call[q].at = "enqueue"
             /\ pushed' = [pushed EXCEPT ![call[q].key] = pushed[call[q].key] + 1]
    <3>1. call[q].key \in Key /\ row[call[q].key].status # "ABSENT" /\ pushed[call[q].key] = 0
      BY <2>5, <1>t DEF PushInv
    <3>2. \A p \in Call : call'[p].at = "enqueue" => call[p].key # call[q].key
      BY <2>2, <2>5, <1>t DEF PushInv
    <3>3. \A k \in Key : pushed'[k] = IF k = call[q].key THEN 1 ELSE pushed[k]
      BY <2>5, <3>1, <1>t
    <3>4. \A p \in Call : call'[p].at = "enqueue" => call[p].key \in Key
      BY <2>2, <1>t
    <3> QED
      BY <2>1, <2>2, <3>1, <3>2, <3>3, <3>4, <1>t DEF PushInv
  <2> QED
    BY <2>3, <2>4, <2>5
<1> QED
  BY <1>0, <1>1, <1>2, <1>3
     DEF RuntimeNext, Decide, StopReads, StopCommits, LeaseEnds, Claim, ClaimStops, Return,
         BeatReads, BeatCommits, CloseReads, PersistSuccess, PersistFails, MarkEnded, Dies

LEMMA AnswerStep == RuntimeInv /\ RuntimeNext => AnswerInv'
<1> SUFFICES ASSUME RuntimeInv, RuntimeNext PROVE AnswerInv'
  OBVIOUS
<1> USE DEF rest
<1>t. answered \subseteq Key \X {Request(b) : b \in Body} /\ AnswerInv /\ PushInv
  BY DEF RuntimeInv, RuntimeTypeOK
<1>r. \A k \in Key : RowChange(k)
  BY RowStep DEF RuntimeInv, RuntimeTypeOK
<1>a. \A x \in answered :
        x[1] \in Key /\ row'[x[1]].status # "ABSENT" /\ Request(row'[x[1]].body) = x[2]
  BY <1>r, <1>t DEF AnswerInv, RowChange
<1>0. ASSUME UNCHANGED answered PROVE AnswerInv'
  BY <1>0, <1>a DEF AnswerInv
<1>1. ASSUME NEW q \in Call, PostReads(q) PROVE AnswerInv'
  <2>1. CASE UNCHANGED answered
    BY <2>1, <1>0
  <2>2. CASE ~ UNCHANGED answered
    <3>1. PICK k \in Key, b \in Body :
             /\ row[k].status # "ABSENT"
             /\ Request(row[k].body) = Request(b)
             /\ answered' = answered \cup {<<k, Request(b)>>}
             /\ row' = row
      BY <1>1, <2>2 DEF PostReads, SameRequest
    <3> QED
      BY <3>1, <1>a DEF AnswerInv
  <2> QED
    BY <2>1, <2>2
<1>2. ASSUME NEW q \in Call, PostAnswers(q) PROVE AnswerInv'
  <2>1. /\ answered' = answered \cup {<<call[q].key, Request(call[q].body)>>}
        /\ row[call[q].key].status # "ABSENT"
        /\ row[call[q].key].body = call[q].body
        /\ row' = row
    BY <1>2, <1>t DEF PostAnswers, PushInv
  <2> QED
    BY <2>1, <1>a DEF AnswerInv
<1> QED
  BY <1>0, <1>1, <1>2
     DEF RuntimeNext, Decide, PostCommits, PostFailsOver, StopReads, StopCommits, LeaseEnds, Claim,
         ClaimStops, Return, BeatReads, BeatCommits, CloseReads, PersistSuccess, PersistFails,
         MarkEnded, Dies

\* Apart from a claim and the reads before it ends, an execution keeps what it
\* knows as long as it goes on.
LEMMA KeepsJob ==
  ASSUME job \in [Runner -> JobType], RuntimeNext, NEW w \in Runner, job'[w].at # "idle",
         \A k \in Key : ~ Claim(w, k)
  PROVE  /\ job[w].at # "idle"
         /\ job'[w].key = job[w].key
         /\ job'[w].claim = job[w].claim
         /\ job'[w].at = "store" =>
              \/ job[w].at = "store" /\ job'[w].saw = job[w].saw
              \/ job'[w].saw.attempt = row[job[w].key].attempt
<1> USE DEF rest
<1> DEFINE Good == /\ job[w].at # "idle"
                   /\ job'[w].key = job[w].key
                   /\ job'[w].claim = job[w].claim
                   /\ job'[w].at = "store" =>
                        \/ job[w].at = "store" /\ job'[w].saw = job[w].saw
                        \/ job'[w].saw.attempt = row[job[w].key].attempt
<1>0. ASSUME job'[w] = job[w] PROVE Good
  BY <1>0
<1>1. ASSUME NEW v \in Runner, Return(v) \/ BeatReads(v) \/ BeatCommits(v) PROVE Good
  <2>1. PICK l \in {"run", "persist", "fail", "beat", "cancel"} : job' = [job EXCEPT ![v].at = l]
    BY <1>1 DEF Return, BeatReads, BeatCommits, At
  <2>2. job[v].at # "idle"
    BY <1>1 DEF Return, BeatReads, BeatCommits
  <2> QED
    BY <2>1, <2>2 DEF JobType
<1>2. ASSUME NEW v \in Runner, CloseReads(v) PROVE Good
  <2>1. PICK l \in {"store", "drop", "close"} :
           job' = [job EXCEPT ![v] = [job[v] EXCEPT !.saw = Sight(job[v].key), !.at = l]]
    BY <1>2 DEF CloseReads
  <2>2. job[v].at # "idle"
    BY <1>2 DEF CloseReads
  <2>3. job[v] \in JobType
    OBVIOUS
  <2>4. /\ [job[v] EXCEPT !.saw = Sight(job[v].key), !.at = l].key = job[v].key
        /\ [job[v] EXCEPT !.saw = Sight(job[v].key), !.at = l].claim = job[v].claim
        /\ [job[v] EXCEPT !.saw = Sight(job[v].key), !.at = l].saw = Sight(job[v].key)
    BY <2>3 DEF JobType
  <2>5. Sight(job[v].key).attempt = row[job[v].key].attempt
    BY DEF Sight
  <2>6. CASE w = v
    BY <2>6, <2>1, <2>2, <2>4, <2>5
  <2>7. CASE w # v
    BY <2>7, <2>1, <1>0
  <2> QED
    BY <2>6, <2>7
<1>3. ASSUME NEW v \in Runner, PersistFails(v) PROVE Good
  <2>1. job' = [job EXCEPT ![v].at = "fail", ![v].saw = NoSight] /\ job[v].at # "idle"
    BY <1>3 DEF PersistFails
  <2> QED
    BY <2>1 DEF JobType
<1>4. ASSUME NEW v \in Runner, PersistSuccess(v) \/ MarkEnded(v) \/ Dies(v) PROVE Good
  <2>1. job' = [job EXCEPT ![v] = NoJob] /\ NoJob.at = "idle"
    BY <1>4 DEF PersistSuccess, MarkEnded, Dies, NoJob
  <2> QED
    BY <2>1, <1>0
<1>5. ASSUME NEW k \in Key, NEW v \in Runner, Claim(v, k) PROVE Good
  <2>1. v # w
    BY <1>5
  <2> QED
    BY <2>1, <1>5, <1>0 DEF Claim
<1> QED
  BY <1>0, <1>1, <1>2, <1>3, <1>4, <1>5
     DEF RuntimeNext, Decide, PostReads, PostCommits, PostAnswers, PostFailsOver, StopReads,
         StopCommits, LeaseEnds, ClaimStops

LEMMA ClaimStep == RuntimeInv /\ RuntimeNext => ClaimInv' /\ ClaimsFenced'
<1> SUFFICES ASSUME RuntimeInv, RuntimeNext PROVE ClaimInv' /\ ClaimsFenced'
  OBVIOUS
<1>t. /\ row \in [Key -> RunRow] /\ job \in [Runner -> JobType]
      /\ \A w \in Runner : job[w].at # "idle" => job[w].key \in Key
  BY DEF RuntimeInv, RuntimeTypeOK, KeysKnown
<1>n. /\ \A k \in Key : row[k].attempt \in Nat
      /\ \A w \in Runner : job[w].claim \in Nat
  BY <1>t, RuntimeAssumption DEF RunRow, JobType, Claims
<1>i. ClaimInv /\ ClaimsFenced
  BY DEF RuntimeInv
<1>1. ASSUME NEW k \in Key, NEW w \in Runner, Claim(w, k)
      PROVE  ClaimInv' /\ ClaimsFenced'
  <2>1. /\ job'[w].key = k
        /\ job'[w].claim = row[k].attempt + 1
        /\ job'[w].at = "run"
        /\ \A v \in Runner \ {w} : job'[v] = job[v]
    BY <1>1, <1>t DEF Claim
  <2>2. /\ row'[k].attempt = row[k].attempt + 1
        /\ row'[k].owner = w
        /\ \A j \in Key \ {k} : row'[j] = row[j]
    BY <1>1, <1>t DEF Claim, Taken, RunRow
  <2>3. \A v \in Runner \ {w} : job[v].at # "idle" =>
          /\ 1 <= job[v].claim
          /\ job[v].claim <= row'[job[v].key].attempt
          /\ job[v].key = k => job[v].claim <= row[k].attempt
    BY <2>2, <1>t, <1>n, <1>i DEF ClaimInv
  <2>4. ClaimInv'
    BY <2>1, <2>2, <2>3, <1>n, <1>i DEF ClaimInv
  <2>5. ASSUME NEW v \in Runner, job'[v].at # "idle"
        PROVE  /\ row'[job'[v].key].owner = v => job'[v].claim = row'[job'[v].key].attempt
               /\ \A u \in Runner \ {v} :
                    job'[u].at # "idle" /\ job'[u].key = job'[v].key =>
                      job'[u].claim # job'[v].claim
    <3>1. CASE v = w
      BY <3>1, <2>1, <2>2, <2>3, <1>n
    <3>2. CASE v # w
      <4>1. job'[v] = job[v] /\ job[v].at # "idle"
        BY <3>2, <2>1, <2>5
      <4>2. \A u \in Runner \ {v} :
              job'[u].at # "idle" /\ job'[u].key = job'[v].key =>
                job'[u].claim # job'[v].claim
        BY <3>2, <4>1, <2>1, <2>3, <1>n, <1>i DEF ClaimsFenced
      <4>3. row'[job[v].key].owner = v => job[v].claim = row'[job[v].key].attempt
        BY <3>2, <4>1, <2>2, <1>t, <1>i DEF ClaimsFenced
      <4> QED
        BY <4>1, <4>2, <4>3
    <3> QED
      BY <3>1, <3>2
  <2> QED
    BY <2>4, <2>5 DEF ClaimsFenced
<1>2. CASE \A k \in Key, w \in Runner : ~ Claim(w, k)
  <2>1. \A k \in Key : row'[k].owner = row[k].owner /\ row'[k].attempt = row[k].attempt
    BY <1>2, RowStep DEF RuntimeInv, RuntimeTypeOK, RowChange
  <2>2. \A w \in Runner : job'[w].at # "idle" =>
          /\ job[w].at # "idle"
          /\ job'[w].key = job[w].key
          /\ job'[w].claim = job[w].claim
          /\ job'[w].at = "store" =>
               \/ job[w].at = "store" /\ job'[w].saw = job[w].saw
               \/ job'[w].saw.attempt = row[job[w].key].attempt
    BY <1>2, <1>t, KeepsJob
  <2>3. ClaimInv'
    BY <2>1, <2>2, <1>t, <1>i DEF ClaimInv
  <2>4. ClaimsFenced'
    BY <2>1, <2>2, <1>t, <1>i DEF ClaimsFenced
  <2> QED
    BY <2>3, <2>4
<1> QED
  BY <1>1, <1>2

LEMMA OutputStep == RuntimeInv /\ RuntimeNext => OutputHasNodes'
<1> SUFFICES ASSUME RuntimeInv, RuntimeNext PROVE OutputHasNodes'
  OBVIOUS
<1> USE DEF rest
<1>t. /\ row \in [Key -> RunRow] /\ job \in [Runner -> JobType]
      /\ nodes \in [Key -> [1 .. MaxClaim -> Claims]]
      /\ \A w \in Runner : job[w].at # "idle" => job[w].key \in Key
  BY DEF RuntimeInv, RuntimeTypeOK, KeysKnown
<1>o. OutputHasNodes
  BY DEF RuntimeInv
<1>m. MaxClaim \in Nat
  BY RuntimeAssumption
<1>1. ASSUME NEW w \in Runner, PersistSuccess(w) PROVE OutputHasNodes'
  <2> DEFINE k == job[w].key
             a == job[w].saw.attempt
             c == job[w].claim
  <2>1. /\ k \in Key /\ c \in 1 .. MaxClaim /\ a \in c .. MaxClaim
    <3>1. k \in Key /\ 1 <= c /\ c <= a
      BY <1>1, <1>t DEF PersistSuccess, RuntimeInv, ClaimInv
    <3>2. c \in Claims /\ a \in Claims
      BY <1>t DEF JobType
    <3> QED
      BY <3>1, <3>2, <1>m DEF Claims
  <2>2. nodes[k][a] = 0 /\ nodes' = [nodes EXCEPT ![k][a] = c]
    BY <1>1 DEF PersistSuccess, Store
  <2>3. row'[k].output = c /\ \A j \in Key \ {k} : row'[j] = row[j]
    <3>1. PICK st \in {"FAILED", "COMPLETED"} :
             /\ row' = [row EXCEPT ![k] = [Closed(w, st) EXCEPT !.output = job[w].claim]]
             /\ row'[k].output = job[w].claim
      BY <1>1, <1>t, <2>1, StoredRow
    <3> QED
      BY <3>1
  <2> HIDE DEF k, a, c
  <2>4. nodes'[k][a] = c /\ \A j \in Key \ {k} : nodes'[j] = nodes[j]
    BY <2>1, <2>2, <1>t, <1>m
  <2>5. c # 0
    BY <2>1
  <2> QED
    BY <2>1, <2>3, <2>4, <2>5, <1>o DEF OutputHasNodes
<1>2. CASE \A w \in Runner : ~ PersistSuccess(w)
  <2>1. nodes' = nodes
    BY <1>2
       DEF RuntimeNext, Decide, PostReads, PostCommits, PostAnswers, PostFailsOver, StopReads,
           StopCommits, LeaseEnds, Claim, ClaimStops, Return, BeatReads, BeatCommits, CloseReads,
           PersistFails, MarkEnded, Dies
  <2>2. \A k \in Key :
          /\ row'[k].output = row[k].output
          /\ row'[k].status = "COMPLETED" => row[k].status = "COMPLETED"
    BY <1>2, RowStep DEF RuntimeInv, RuntimeTypeOK, RowChange
  <2> QED
    BY <2>1, <2>2, <1>o DEF OutputHasNodes
<1> QED
  BY <1>1, <1>2

LEMMA InvStep == RuntimeInv /\ [RuntimeNext]_runtimeVars => RuntimeInv'
<1> SUFFICES ASSUME RuntimeInv, [RuntimeNext]_runtimeVars PROVE RuntimeInv'
  OBVIOUS
<1>1. CASE RuntimeNext
  <2>1. RuntimeTypeOK' /\ KeysKnown'
    BY <1>1, TypeStep DEF RuntimeInv
  <2>2. PushInv' /\ AnswerInv' /\ ClaimInv' /\ ClaimsFenced' /\ OutputHasNodes'
    BY <1>1, PushStep, AnswerStep, ClaimStep, OutputStep
  <2> QED
    BY <2>1, <2>2 DEF RuntimeInv
<1>2. CASE UNCHANGED runtimeVars
  <2> USE <1>2 DEF runtimeVars
  <2>1. RuntimeTypeOK' /\ KeysKnown'
    BY DEF RuntimeInv, RuntimeTypeOK, KeysKnown
  <2>2. PushInv' /\ AnswerInv'
    BY DEF RuntimeInv, PushInv, AnswerInv
  <2>3. ClaimInv' /\ ClaimsFenced' /\ OutputHasNodes'
    BY DEF RuntimeInv, ClaimInv, ClaimsFenced, OutputHasNodes
  <2> QED
    BY <2>1, <2>2, <2>3 DEF RuntimeInv
<1> QED
  BY <1>1, <1>2

-----------------------------------------------------------------------------
(* The theorems *)

\* The invariant and what it says of the variables' types hold in every state
\* of the requests, the workers and the rows.
THEOREM RuntimeTypes == RuntimeSpec => [](RuntimeTypeOK /\ KeysKnown)
<1>1. RuntimeInv => RuntimeTypeOK /\ KeysKnown
  BY DEF RuntimeInv
<1> QED
  BY <1>1, InvInit, InvStep, PTL DEF RuntimeSpec

\* An idempotency key enqueues one run, and whoever is answered under it asked
\* for the version, the input and the mode of that run, for any number of
\* concurrent requests, with whatever limits, and failures of the enqueue
\* (create_scenario_run and post_scenario_run).
THEOREM OneRun == RuntimeSpec => []OneRunPerKey
<1>1. RuntimeInv => OneRunPerKey
  BY DEF RuntimeInv, RuntimeTypeOK, PushInv, AnswerInv, OneRunPerKey
<1> QED
  BY <1>1, InvInit, InvStep, PTL DEF RuntimeSpec

\* However many workers lose and take over a scenario run, no two of its
\* executions share a claim, and the owner of the row holds the latest
\* (_claim under FOR UPDATE).
THEOREM ClaimsAreFenced == RuntimeSpec => []ClaimsFenced
<1>1. RuntimeInv => ClaimsFenced
  BY DEF RuntimeInv
<1> QED
  BY <1>1, InvInit, InvStep, PTL DEF RuntimeSpec

\* The output a scenario run shows always has the node runs of the same
\* execution beside it, although a worker that lost its lease persists too
\* (_persist_success and uq_scenario_node_runs_attempt).
THEOREM OutputsHaveNodes == RuntimeSpec => []OutputHasNodes
<1>1. RuntimeInv => OutputHasNodes
  BY DEF RuntimeInv
<1> QED
  BY <1>1, InvInit, InvStep, PTL DEF RuntimeSpec

\* A scenario run that ended, or that somebody asked to cancel, is never queued
\* or running again, whatever stale worker or request still commits.
THEOREM EndsForGood == RuntimeSpec => EndedForGood
<1>1. RuntimeInv /\ [RuntimeNext]_runtimeVars =>
        [\A k \in Key : row[k].status \in Final \cup {"CANCEL_REQUESTED"} =>
           row'[k].status \in Final \cup {"CANCEL_REQUESTED"}]_runtimeVars
  BY RowStep DEF RuntimeInv, RuntimeTypeOK, RowChange, Over
<1> QED
  BY <1>1, InvInit, InvStep, PTL DEF RuntimeSpec, EndedForGood
=============================================================================
