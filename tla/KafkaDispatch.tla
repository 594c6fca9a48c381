--------------------------- MODULE KafkaDispatch ---------------------------
(***************************************************************************)
(* Evaluation runs dispatched by Kafka (kafka_queue.py): the outbox rows   *)
(* written with a run, the publishers that move them to the topic, and the *)
(* consumers of one group with their inbox and dead letters, composed with *)
(* EvalRun.  The topic has one partition: the key of a record is its event *)
(* id, so all copies of an event are in one partition anyway.              *)
(*                                                                         *)
(* The row of a run's event in outbox_events is known by the run's id.     *)
(***************************************************************************)
EXTENDS EvalRun

CONSTANTS
  Publisher,
  Replays,    \* the runs that are created as replays of another run
  Cancels,    \* bound: the runs whose cancellation is requested
  Faults,     \* a subset of FaultKind
  MaxTries,   \* kafka_max_attempts
  MaxSend,    \* bound on the claims of one event by publishers
  MaxDisruption
              \* bound on crashes, rebalances and exceptions of execute

\* "send": a producer raises, having sent or not; "commit": an offset commit
\* raises; "db": a session of the consumer raises; "rebalance": the group takes
\* the partition away from a live consumer; "escape": execute raises; "crash": a
\* publisher or a consumer dies.
FaultKind == {"send", "commit", "db", "rebalance", "escape", "crash"}

ASSUME KafkaAssumption ==
  /\ Replays \subseteq Run /\ Cancels \subseteq Run
  /\ Faults \subseteq FaultKind
  /\ MaxTries \in Nat \ {0}
  /\ MaxSend \in Nat /\ MaxDisruption \in Nat

VARIABLES
  outbox,     \* the runs with an outbox row, in the order of created_at
  event, due, sends,
              \* its columns: status, available_at <= now, attempts
  pubAt, pubRun, sawEvent, sawSends,
              \* a publisher: its place in publish_once, the event it claimed,
              \* status and attempts as the session that marks it loaded them
  topic,      \* the records of the partition
  dlq,        \* kafka_dlq: the attempts column of the event's row, 0 without
  dead,       \* the events sent to the dead letter topic
  inbox,      \* kafka_inbox: the events this group has processed
  assigned, committed,
              \* the group: the consumer that has the partition, its offset
  position, offset,
              \* a consumer: the next record to fetch, the one it handles or 0
  at, tries,  \* its place in run_forever, dlq.attempts as it has read them
  disruptions

outboxVars == <<outbox, event, due, sends>>
copiesVars == <<sawEvent, sawSends>>
publisherVars == <<pubAt, pubRun, copiesVars>>
consumerVars == <<position, offset, at, tries>>
groupVars == <<assigned, committed>>
inboxVars == <<dlq, dead, inbox>>
kafkaVars == <<vars, outboxVars, publisherVars, topic, inboxVars, groupVars, consumerVars, disruptions>>

PubPlace == {"idle", "send", "sent", "raised", "markPublished", "markError"}
Place == {"down", "fetch", "check", "claim", "execute", "failed", "record",
          "dead", "mark", "commit", "seek"}
EventStatus == {"none", "pending", "publishing", "published", "failed"}
Queued == {outbox[i] : i \in 1 .. Len(outbox)}
Sent == {topic[i] : i \in 1 .. Len(topic)}

KafkaTypeOK ==
  /\ TypeOK
  /\ outbox \in Seq(Run)
  /\ event \in [Run -> EventStatus] /\ due \in [Run -> BOOLEAN]
  /\ sends \in [Run -> 0 .. MaxSend]
  /\ pubAt \in [Publisher -> PubPlace]
  /\ pubRun \in [Publisher -> Run \cup {NoRun}]
  /\ sawEvent \in [Publisher -> EventStatus]
  /\ sawSends \in [Publisher -> 0 .. MaxSend]
  /\ topic \in Seq(Run)
  /\ dlq \in [Run -> Nat] /\ dead \subseteq Run /\ inbox \subseteq Run
  /\ assigned \in Worker \cup {NoWorker}
  /\ committed \in 0 .. Len(topic)
  /\ position \in [Worker -> 0 .. Len(topic)]
  /\ offset \in [Worker -> 0 .. Len(topic)]
  /\ at \in [Worker -> Place] /\ tries \in [Worker -> Nat]
  /\ disruptions \in 0 .. MaxDisruption

KafkaInit ==
  /\ Init
  /\ outbox = <<>> /\ topic = <<>>
  /\ event = [r \in Run |-> "none"] /\ due = [r \in Run |-> FALSE]
  /\ sends = [r \in Run |-> 0]
  /\ pubAt = [p \in Publisher |-> "idle"]
  /\ pubRun = [p \in Publisher |-> NoRun]
  /\ sawEvent = [p \in Publisher |-> "none"]
  /\ sawSends = [p \in Publisher |-> 0]
  /\ dlq = [r \in Run |-> 0] /\ dead = {} /\ inbox = {}
  /\ assigned = NoWorker /\ committed = 0
  /\ position = [w \in Worker |-> 0] /\ offset = [w \in Worker |-> 0]
  /\ at = [w \in Worker |-> "down"] /\ tries = [w \in Worker |-> 0]
  /\ disruptions = 0

-----------------------------------------------------------------------------
(* The requests: create_eval_run inserts the event with the run, enqueue is a
   no-op that never raises, so that post plays no part here.  replay_eval_run
   inserts only the run.                                                   *)

Request(r) ==
  /\ r \notin Replays
  /\ Create(r)
  /\ outbox' = Append(outbox, r)
  /\ event' = [event EXCEPT ![r] = "pending"]
  /\ due' = [due EXCEPT ![r] = TRUE]
  /\ UNCHANGED <<sends, publisherVars, topic, inboxVars, groupVars, consumerVars, disruptions>>

Replay(r) ==
  /\ r \in Replays
  /\ \E original \in Run \ {r} : status[original] # "ABSENT"
  /\ Create(r)
  /\ UNCHANGED <<outboxVars, publisherVars, topic, inboxVars, groupVars, consumerVars, disruptions>>

Cancellation ==
  /\ \E r \in Cancels : CancelRead(r) \/ CancelCommit(r)
  /\ UNCHANGED <<outboxVars, publisherVars, topic, inboxVars, groupVars, consumerVars, disruptions>>

-----------------------------------------------------------------------------
(* KafkaOutboxPublisher.publish_once                                       *)

ToPub(p, l) == pubAt' = [pubAt EXCEPT ![p] = l]

PubIdle(p) ==
  /\ ToPub(p, "idle")
  /\ pubRun' = [pubRun EXCEPT ![p] = NoRun]
  /\ sawEvent' = [sawEvent EXCEPT ![p] = "none"]
  /\ sawSends' = [sawSends EXCEPT ![p] = 0]

PublishableMutant(r) == event[r] = "pending" /\ due[r]
Publishable(r) == event[r] \in {"pending", "publishing"} /\ due[r]

\* _claim takes the oldest event that is due and leases it.
PubClaim(p) ==
  /\ pubAt[p] = "idle"
  /\ \E i \in 1 .. Len(outbox) :
       LET r == outbox[i] IN
       /\ Publishable(r)
       /\ \A j \in 1 .. i - 1 : ~ Publishable(outbox[j])
       /\ sends[r] < MaxSend
       /\ event' = [event EXCEPT ![r] = "publishing"]
       /\ due' = [due EXCEPT ![r] = FALSE]
       /\ sends' = [sends EXCEPT ![r] = @ + 1]
       /\ pubRun' = [pubRun EXCEPT ![p] = r]
  /\ ToPub(p, "send")
  /\ UNCHANGED <<vars, outbox, copiesVars, topic, inboxVars, groupVars, consumerVars, disruptions>>

Send(p) ==
  /\ pubAt[p] = "send"
  /\ topic' = Append(topic, pubRun[p])
  /\ ToPub(p, "sent")
  /\ UNCHANGED <<vars, outboxVars, pubRun, copiesVars, inboxVars, groupVars, consumerVars, disruptions>>

SendRaises(p) ==
  /\ "send" \in Faults
  /\ pubAt[p] = "send"
  /\ topic' \in {topic, Append(topic, pubRun[p])}
  /\ ToPub(p, "raised")
  /\ UNCHANGED <<vars, outboxVars, pubRun, copiesVars, inboxVars, groupVars, consumerVars, disruptions>>

\* session.get of _mark_published or _mark_publish_error.
MarkRead(p) ==
  /\ pubAt[p] \in {"sent", "raised"}
  /\ sawEvent' = [sawEvent EXCEPT ![p] = event[pubRun[p]]]
  /\ sawSends' = [sawSends EXCEPT ![p] = sends[pubRun[p]]]
  /\ ToPub(p, IF pubAt[p] = "sent" THEN "markPublished" ELSE "markError")
  /\ UNCHANGED <<vars, outboxVars, pubRun, topic, inboxVars, groupVars, consumerVars, disruptions>>

\* What the session commits of the status it has loaded.
MarkEvent(p, st) ==
  event' = [event EXCEPT ![pubRun[p]] = Flushed(sawEvent[p], st, @)]

MarkPublished(p) ==
  /\ pubAt[p] = "markPublished"
  /\ MarkEvent(p, "published")
  /\ PubIdle(p)
  /\ UNCHANGED <<vars, outbox, due, sends, topic, inboxVars, groupVars, consumerVars, disruptions>>

ParkMutant(p) == UNCHANGED dlq

\* The merge of a KafkaDlq row.
Park(p) == dlq' = [dlq EXCEPT ![pubRun[p]] = sawSends[p]]

GaveUp(p) == sawSends[p] >= MaxTries

MarkError(p) ==
  /\ pubAt[p] = "markError"
  /\ IF GaveUp(p)
       THEN /\ MarkEvent(p, "failed")
            /\ Park(p)
            /\ UNCHANGED due
       ELSE /\ MarkEvent(p, "pending")
            /\ due' = [due EXCEPT ![pubRun[p]] = FALSE]
            /\ UNCHANGED dlq
  /\ PubIdle(p)
  /\ UNCHANGED <<vars, outbox, sends, topic, dead, inbox, groupVars, consumerVars, disruptions>>

\* available_at comes: a retry's delay or a publisher's lease has run out.
Due(r) ==
  /\ event[r] \in {"pending", "publishing"} /\ ~ due[r]
  /\ due' = [due EXCEPT ![r] = TRUE]
  /\ UNCHANGED <<vars, outbox, event, sends, publisherVars, topic, inboxVars,
                 groupVars, consumerVars, disruptions>>

PubCrash(p) ==
  /\ "crash" \in Faults
  /\ pubAt[p] # "idle"
  /\ disruptions < MaxDisruption
  /\ PubIdle(p)
  /\ disruptions' = disruptions + 1
  /\ UNCHANGED <<vars, outboxVars, topic, inboxVars, groupVars, consumerVars>>

-----------------------------------------------------------------------------
(* The consumer group, as kafka_queue.py uses it                           *)

ToAt(w, l) == at' = [at EXCEPT ![w] = l]
Record(w) == topic[offset[w]]

StartOffsetMutant == IF committed = 0 THEN Len(topic) ELSE committed

\* Where the group resumes; auto_offset_reset="earliest" without a commit.
StartOffset == committed

\* The partition is given to a running consumer.
Join(w) ==
  /\ assigned = NoWorker
  /\ at[w] # "down"
  /\ assigned' = w
  /\ position' = [position EXCEPT ![w] = StartOffset]
  /\ UNCHANGED <<vars, outboxVars, publisherVars, topic, inboxVars, committed,
                 offset, at, tries, disruptions>>

Revoke ==
  /\ "rebalance" \in Faults
  /\ assigned # NoWorker
  /\ disruptions < MaxDisruption
  /\ assigned' = NoWorker
  /\ disruptions' = disruptions + 1
  /\ UNCHANGED <<vars, outboxVars, publisherVars, topic, inboxVars, committed, consumerVars>>

-----------------------------------------------------------------------------
(* KafkaRunWorker.run_forever and process_event                            *)

Start(w) ==
  /\ at[w] = "down"
  /\ ToAt(w, "fetch")
  /\ UNCHANGED <<vars, outboxVars, publisherVars, topic, inboxVars, groupVars,
                 position, offset, tries, disruptions>>

Fetch(w) ==
  /\ at[w] = "fetch"
  /\ assigned = w
  /\ position[w] < Len(topic)
  /\ offset' = [offset EXCEPT ![w] = position[w] + 1]
  /\ position' = [position EXCEPT ![w] = @ + 1]
  /\ ToAt(w, "check")
  /\ UNCHANGED <<vars, outboxVars, publisherVars, topic, inboxVars, groupVars, tries, disruptions>>

CheckMutant(w) ==
  /\ at[w] = "check"
  /\ ToAt(w, IF Record(w) \in inbox THEN "commit" ELSE "claim")
  /\ inbox' = inbox \cup {Record(w)}
  /\ UNCHANGED <<vars, outboxVars, publisherVars, topic, dlq, dead, groupVars,
                 position, offset, tries, disruptions>>

\* _processed.
Check(w) ==
  /\ at[w] = "check"
  /\ ToAt(w, IF Record(w) \in inbox THEN "commit" ELSE "claim")
  /\ UNCHANGED <<vars, outboxVars, publisherVars, topic, inboxVars, groupVars,
                 position, offset, tries, disruptions>>

Claim(w) ==
  /\ at[w] = "claim"
  /\ LET r == Record(w) IN
     \/ ClaimRun(w, r) /\ ToAt(w, "execute")
     \/ ClaimRaises(w, r) /\ ToAt(w, "execute")
     \/ ClaimCancelled(r) /\ ToAt(w, "mark")
     \/ ClaimRefused(r) /\ UNCHANGED vars /\ ToAt(w, "mark")
  /\ UNCHANGED <<outboxVars, publisherVars, topic, inboxVars, groupVars,
                 position, offset, tries, disruptions>>

\* The steps of execute after the claim; the last one returns to process_event.
Inside(w, step) ==
  /\ at[w] = "execute"
  /\ step
  /\ IF pc'[w] = "idle" THEN ToAt(w, "mark") ELSE UNCHANGED at
  /\ UNCHANGED <<outboxVars, publisherVars, topic, inboxVars, groupVars,
                 position, offset, tries, disruptions>>

Work(w) == Inside(w, Execute(w))

\* _mark_failed itself raises and process_event catches it.
Escape(w) ==
  /\ "escape" \in Faults
  /\ disruptions < MaxDisruption
  /\ at[w] = "execute"
  /\ pc[w] \in {"fail", "failCommit"}
  /\ Abort(w)
  /\ ToAt(w, "failed")
  /\ disruptions' = disruptions + 1
  /\ UNCHANGED <<outboxVars, publisherVars, topic, inboxVars, groupVars,
                 position, offset, tries>>

\* _record_failure reads the row kafka_dlq has for the event ...
FailureRead(w) ==
  /\ at[w] = "failed"
  /\ tries' = [tries EXCEPT ![w] = dlq[Record(w)]]
  /\ ToAt(w, "record")
  /\ UNCHANGED <<vars, outboxVars, publisherVars, topic, inboxVars, groupVars,
                 position, offset, disruptions>>

\* ... and updates or inserts it; an insert fails if there is one by then.
FailureCommit(w) ==
  /\ at[w] = "record"
  /\ LET r == Record(w)  failures == tries[w] + 1 IN
     IF tries[w] = 0 /\ dlq[r] # 0
       THEN ToAt(w, "seek") /\ UNCHANGED dlq
       ELSE /\ dlq' = [dlq EXCEPT ![r] = failures]
            /\ ToAt(w, IF failures < MaxTries THEN "seek" ELSE "dead")
  /\ tries' = [tries EXCEPT ![w] = 0]
  /\ UNCHANGED <<vars, outboxVars, publisherVars, topic, dead, inbox, groupVars,
                 position, offset, disruptions>>

DeadLetter(w) ==
  /\ at[w] = "dead"
  /\ dead' = dead \cup {Record(w)}
  /\ ToAt(w, "commit")
  /\ UNCHANGED <<vars, outboxVars, publisherVars, topic, dlq, inbox, groupVars,
                 position, offset, tries, disruptions>>

MarkProcessed(w) ==
  /\ at[w] = "mark"
  /\ inbox' = inbox \cup {Record(w)}
  /\ ToAt(w, "commit")
  /\ UNCHANGED <<vars, outboxVars, publisherVars, topic, dlq, dead, groupVars,
                 position, offset, tries, disruptions>>

\* Everything process_event lets through ends in the except of run_forever.
Raises(w) ==
  /\ \/ "db" \in Faults /\ at[w] \in {"check", "failed", "record", "mark"}
     \/ "send" \in Faults /\ at[w] = "dead"
     \/ "commit" \in Faults /\ at[w] = "commit"
     \/ at[w] = "commit" /\ assigned # w
  /\ ToAt(w, "seek")
  /\ tries' = [tries EXCEPT ![w] = 0]
  /\ UNCHANGED <<vars, outboxVars, publisherVars, topic, inboxVars, groupVars,
                 position, offset, disruptions>>

NextRecord(w) ==
  /\ ToAt(w, "fetch")
  /\ offset' = [offset EXCEPT ![w] = 0]

\* consumer.commit() commits the position of the consumer.
Committed(w) == position[w]

Commit(w) ==
  /\ at[w] = "commit"
  /\ assigned = w
  /\ committed' = Committed(w)
  /\ NextRecord(w)
  /\ UNCHANGED <<vars, outboxVars, publisherVars, topic, inboxVars, assigned,
                 position, tries, disruptions>>

RewindMutant(w) == UNCHANGED position
Rewind(w) == position' = [position EXCEPT ![w] = offset[w] - 1]

Seek(w) ==
  /\ at[w] = "seek"
  /\ assigned = w
  /\ Rewind(w)
  /\ NextRecord(w)
  /\ UNCHANGED <<vars, outboxVars, publisherVars, topic, inboxVars, groupVars, tries, disruptions>>

StopMutant(w) ==
  IF pc[w] # "idle"
    THEN /\ Leave(w)
         /\ status' = [status EXCEPT ![run[w]] = "FAILED"]
         /\ UNCHANGED <<owner, lease, attempt, evidenceVars, apiVars>>
    ELSE UNCHANGED vars

\* Whatever execution the process had open is gone.
Stop(w) == IF pc[w] # "idle" THEN Abort(w) ELSE UNCHANGED vars

\* The consumer process ends.
Die(w) ==
  /\ ToAt(w, "down")
  /\ offset' = [offset EXCEPT ![w] = 0]
  /\ position' = [position EXCEPT ![w] = 0]
  /\ tries' = [tries EXCEPT ![w] = 0]
  /\ assigned' = IF assigned = w THEN NoWorker ELSE assigned
  /\ Stop(w)
  /\ UNCHANGED <<outboxVars, publisherVars, topic, inboxVars, committed>>

\* Without the partition the seek raises out of run_forever, or does nothing
\* when the consumer has not yet learnt that it lost it.
SeekUnassigned(w) ==
  /\ at[w] = "seek"
  /\ assigned # w
  /\ \/ Die(w)
     \/ /\ NextRecord(w)
        /\ UNCHANGED <<vars, outboxVars, publisherVars, topic, inboxVars,
                       groupVars, position, tries>>
  /\ UNCHANGED disruptions

Crash(w) ==
  /\ "crash" \in Faults
  /\ at[w] # "down"
  /\ disruptions < MaxDisruption
  /\ Die(w)
  /\ disruptions' = disruptions + 1

TimePasses ==
  /\ \E r \in Run : LeaseExpires(r)
  /\ UNCHANGED <<outboxVars, publisherVars, topic, inboxVars, groupVars, consumerVars, disruptions>>

Publish(p) ==
  \/ PubClaim(p) \/ Send(p) \/ SendRaises(p)
  \/ MarkRead(p) \/ MarkPublished(p) \/ MarkError(p)

Consume(w) ==
  \/ Start(w) \/ Fetch(w) \/ Check(w) \/ Claim(w) \/ Work(w)
  \/ FailureRead(w) \/ FailureCommit(w) \/ DeadLetter(w) \/ MarkProcessed(w)
  \/ Raises(w) \/ Commit(w) \/ Seek(w) \/ SeekUnassigned(w)

KafkaNext ==
  \/ Cancellation
  \/ \E r \in Run : Request(r) \/ Replay(r) \/ Due(r)
  \/ \E p \in Publisher : Publish(p) \/ PubCrash(p)
  \/ \E w \in Worker : Consume(w) \/ Join(w) \/ Escape(w) \/ Crash(w)
  \/ Revoke
  \/ TimePasses

KafkaSafe == KafkaInit /\ [][KafkaNext]_kafkaVars

-----------------------------------------------------------------------------
(* Safety *)

\* The group's offset never passes a record that nobody handled: every event
\* below it is in the inbox or was sent to the dead letter topic, although a
\* consumer may go on with a record after it has lost the partition, and its
\* seek and commit move a position it has been given anew.
OffsetSafe == \A k \in 1 .. committed : topic[k] \in inbox \cup dead

\* The outbox loses no event, whichever publisher marks last: an event is
\* still to be published, or on the topic, or parked in kafka_dlq.
OutboxKeeps ==
  \A r \in Queued :
    event[r] \in {"pending", "publishing"} \/ r \in Sent \/ dlq[r] > 0

\* "Inbox idempotency" (docs/traceability.md:17): the inbox may swallow a
\* redelivered event because its run has been taken care of.  As long as no
\* consumer dies and execute never raises, the run of a processed event has
\* ended or is being executed, however the partition moves.
ProcessedIsHandled ==
  \A r \in inbox :
    status[r] \in {"QUEUED", "RUNNING"} => \E w \in Worker : run[w] = r

\* The dispatch only restricts EvalRun: whatever holds of every behaviour of
\* EvalRun holds of the runs dispatched by Kafka.
RestrictsEvalRun == Spec

\* outbox_queue.py:7, "EvalRuns queued atomically through PostgreSQL Outbox": a
\* run that waits has its event in the outbox.  It is violated by a replay.
QueuedAtomically == \A r \in Run : status[r] = "QUEUED" => r \in Queued

-----------------------------------------------------------------------------
(* Liveness *)

\* Publishers, consumers and brokers go on, the partition is assigned to some
\* running consumer again, available_at comes, and a batch ends although
\* heartbeats interrupt its wait again and again.
Fairness ==
  /\ \A p \in Publisher : WF_kafkaVars(Publish(p))
  /\ \A w \in Worker :
       /\ WF_kafkaVars(Consume(w))
       /\ WF_kafkaVars(Join(w))
       /\ SF_kafkaVars(Inside(w, FinishBatch(w)))
  /\ \A r \in Run : WF_kafkaVars(Due(r))

KafkaSpec == KafkaSafe /\ Fairness

\* Every event leaves the outbox, for the topic or for kafka_dlq, whatever
\* publisher dies or loses its lease on it.
EventLeaves == \A r \in Run : r \in Queued ~> r \in Sent \/ dlq[r] > 0

\* The run of every event ends, or its event is parked, when the partition
\* moves and no process dies.
EventEnds ==
  \A r \in Run :
    status[r] = "QUEUED" /\ r \in Queued ~> status[r] \in Final \/ dlq[r] > 0
=============================================================================
