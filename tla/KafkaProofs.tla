---------------------------- MODULE KafkaProofs ----------------------------
(***************************************************************************)
(* The Kafka dispatch for every set of faults, every number of publishers  *)
(* and consumers and every bound: it restricts EvalRun, its offsets never  *)
(* pass an unhandled record, its outbox loses no event, and unless         *)
(* processes die its inbox swallows no event of a run nobody has begun.    *)
(***************************************************************************)
EXTENDS KafkaDispatch, EvalRunProofs

-----------------------------------------------------------------------------
(* The invariant, part by part *)

OutboxTypes ==
  /\ outbox \in Seq(Run)
  /\ event \in [Run -> EventStatus]
  /\ due \in [Run -> BOOLEAN]
  /\ sends \in [Run -> 0 .. MaxSend]

\* A publisher past its claim has an event.
PublisherTypes ==
  /\ pubAt \in [Publisher -> PubPlace]
  /\ pubRun \in [Publisher -> Run \cup {NoRun}]
  /\ sawEvent \in [Publisher -> EventStatus]
  /\ sawSends \in [Publisher -> 0 .. MaxSend]
  /\ \A p \in Publisher : pubAt[p] # "idle" => pubRun[p] \in Run

InboxTypes ==
  /\ dlq \in [Run -> Nat]
  /\ dead \subseteq Run
  /\ inbox \subseteq Run

\* A consumer past its fetch has a record.
ConsumerTypes ==
  /\ topic \in Seq(Run)
  /\ assigned \in Worker \cup {NoWorker}
  /\ committed \in 0 .. Len(topic)
  /\ position \in [Worker -> 0 .. Len(topic)]
  /\ offset \in [Worker -> 0 .. Len(topic)]
  /\ at \in [Worker -> Place]
  /\ tries \in [Worker -> Nat]
  /\ \A w \in Worker : at[w] \in {"down", "fetch"} <=> offset[w] = 0

Handled(k) == topic[k] \in inbox \cup dead

\* All records below a consumer's record are handled, and so is, the record
\* itself aside, everything up to the position of the consumer the partition
\* is assigned to; a record is handled before its offset is committed.
OffsetInv ==
  /\ \A k \in 1 .. Len(topic) : k <= committed => Handled(k)
  /\ \A w \in Worker, k \in 1 .. Len(topic) :
       /\ k < offset[w] => Handled(k)
       /\ assigned = w /\ k <= position[w] /\ k # offset[w] => Handled(k)
       /\ at[w] = "commit" /\ k = offset[w] => Handled(k)

\* What a publisher is about to mark has happened.
OutboxInv ==
  /\ \A i \in 1 .. Len(outbox) : event[outbox[i]] # "none"
  /\ \A r \in Run : event[r] = "published" => r \in Sent
  /\ \A r \in Run : event[r] = "failed" => dlq[r] > 0
  /\ \A p \in Publisher : pubAt[p] \in {"sent", "markPublished"} => pubRun[p] \in Sent

KInv ==
  /\ OutboxTypes /\ PublisherTypes /\ InboxTypes /\ ConsumerTypes
  /\ disruptions \in 0 .. MaxDisruption
  /\ OffsetInv /\ OutboxInv

LEMMA InitKInv == KafkaInit => KInv
<1> SUFFICES ASSUME KafkaInit PROVE KInv
  OBVIOUS
<1> USE KafkaAssumption DEF KafkaInit
<1>1. OutboxTypes /\ PublisherTypes /\ InboxTypes /\ ConsumerTypes
  BY DEF OutboxTypes, PublisherTypes, InboxTypes, ConsumerTypes, EventStatus, PubPlace, Place
<1>2. OffsetInv /\ OutboxInv
  BY DEF OffsetInv, OutboxInv
<1> QED BY <1>1, <1>2 DEF KInv

-----------------------------------------------------------------------------
(* Facts the steps share *)

LEMMA AppendFacts ==
  ASSUME NEW s \in Seq(Run), NEW r \in Run
  PROVE  /\ Append(s, r) \in Seq(Run)
         /\ Len(s) \in Nat
         /\ Len(Append(s, r)) = Len(s) + 1
         /\ \A i \in 1 .. Len(s) : Append(s, r)[i] = s[i] /\ s[i] \in Run
         /\ Append(s, r)[Len(s) + 1] = r
OBVIOUS

LEMMA LenNat ==
  ASSUME ConsumerTypes
  PROVE  Len(topic) \in Nat
BY DEF ConsumerTypes

\* A fetched record names a run.
LEMMA RecordIsRun ==
  ASSUME KInv, NEW w \in Worker, at[w] \notin {"down", "fetch"}
  PROVE  offset[w] \in 1 .. Len(topic) /\ Record(w) \in Run
BY LenNat DEF KInv, ConsumerTypes, Record

LEMMA OutboxFrame ==
  ASSUME OutboxInv, UNCHANGED <<outbox, event, topic, dlq, pubAt, pubRun>>
  PROVE  OutboxInv'
BY DEF OutboxInv, Sent

LEMMA OffsetFrame ==
  ASSUME OffsetInv, UNCHANGED <<topic, inboxVars, groupVars, consumerVars>>
  PROVE  OffsetInv'
BY DEF OffsetInv, Handled, inboxVars, groupVars, consumerVars

LEMMA ConsumerFrame ==
  ASSUME InboxTypes, ConsumerTypes, UNCHANGED <<topic, inboxVars, groupVars, consumerVars>>
  PROVE  InboxTypes' /\ ConsumerTypes'
BY DEF InboxTypes, ConsumerTypes, inboxVars, groupVars, consumerVars

LEMMA PublisherFrame ==
  ASSUME OutboxTypes, PublisherTypes, UNCHANGED <<outboxVars, publisherVars>>
  PROVE  OutboxTypes' /\ PublisherTypes'
BY DEF OutboxTypes, PublisherTypes, outboxVars, publisherVars, copiesVars

LEMMA Frame ==
  ASSUME KInv,
         UNCHANGED <<outboxVars, publisherVars, topic, inboxVars, groupVars, consumerVars, disruptions>>
  PROVE  KInv'
<1>1. OutboxInv'
  BY OutboxFrame DEF KInv, outboxVars, publisherVars, inboxVars
<1>2. OffsetInv'
  BY OffsetFrame DEF KInv
<1>3. OutboxTypes' /\ PublisherTypes' /\ InboxTypes' /\ ConsumerTypes'
  BY ConsumerFrame, PublisherFrame DEF KInv
<1> QED BY <1>1, <1>2, <1>3 DEF KInv

\* The topic only grows; consumers are not concerned.
LEMMA TopicGrows ==
  ASSUME KInv, NEW r \in Run, topic' = Append(topic, r),
         UNCHANGED <<inboxVars, groupVars, consumerVars>>
  PROVE  /\ InboxTypes' /\ ConsumerTypes' /\ OffsetInv'
         /\ r \in Sent' /\ \A q \in Sent : q \in Sent'
<1>1. /\ topic' \in Seq(Run)
      /\ Len(topic) \in Nat /\ Len(topic') = Len(topic) + 1
      /\ \A k \in 1 .. Len(topic) : topic'[k] = topic[k]
      /\ topic'[Len(topic) + 1] = r
  BY AppendFacts DEF KInv, ConsumerTypes
<1>2. r \in Sent' /\ \A q \in Sent : q \in Sent'
  BY <1>1 DEF Sent
<1>3. InboxTypes' /\ ConsumerTypes'
  BY <1>1 DEF KInv, InboxTypes, ConsumerTypes, inboxVars, groupVars, consumerVars
<1>4. OffsetInv'
  <2>1. \A k \in 1 .. Len(topic) : Handled(k) => Handled(k)'
    BY <1>1 DEF Handled, inboxVars
  <2>2. /\ committed' <= Len(topic)
        /\ \A w \in Worker : offset'[w] <= Len(topic) /\ position'[w] <= Len(topic)
    BY <1>1 DEF KInv, ConsumerTypes, groupVars, consumerVars
  <2>3. ASSUME NEW k \in 1 .. Len(topic'), k <= committed' PROVE Handled(k)'
    <3>1. k \in 1 .. Len(topic)
      BY <1>1, <2>2, <2>3 DEF KInv, ConsumerTypes, groupVars
    <3> QED BY <2>1, <2>3, <3>1 DEF KInv, OffsetInv, groupVars
  <2>4. ASSUME NEW w \in Worker, NEW k \in 1 .. Len(topic')
        PROVE  /\ k < offset'[w] => Handled(k)'
               /\ assigned' = w /\ k <= position'[w] /\ k # offset'[w] => Handled(k)'
               /\ at'[w] = "commit" /\ k = offset'[w] => Handled(k)'
    <3>1. CASE k \in 1 .. Len(topic)
      BY <2>1, <3>1 DEF KInv, OffsetInv, groupVars, consumerVars
    <3>2. CASE k = Len(topic) + 1
      <4>1. offset[w] \in 0 .. Len(topic) /\ position[w] \in 0 .. Len(topic)
        BY DEF KInv, ConsumerTypes
      <4> QED BY <1>1, <3>2, <4>1 DEF consumerVars
    <3> QED BY <1>1, <3>1, <3>2
  <2> QED BY <2>3, <2>4 DEF OffsetInv
<1> QED BY <1>2, <1>3, <1>4

\* Publishers and requests leave the consumers alone.
LEMMA ConsumersAlone ==
  ASSUME KInv, UNCHANGED <<topic, inboxVars, groupVars, consumerVars>>
  PROVE  InboxTypes' /\ ConsumerTypes' /\ OffsetInv'
BY ConsumerFrame, OffsetFrame DEF KInv

\* Consumers leave the outbox alone; a parked event stays parked.
LEMMA PublishersAlone ==
  ASSUME KInv, UNCHANGED <<outboxVars, publisherVars, topic>>,
         \A r \in Run : dlq[r] > 0 => dlq'[r] > 0
  PROVE  OutboxTypes' /\ PublisherTypes' /\ OutboxInv'
<1>1. OutboxTypes' /\ PublisherTypes'
  BY PublisherFrame DEF KInv
<1>2. OutboxInv'
  BY DEF KInv, OutboxInv, Sent, outboxVars, publisherVars
<1> QED BY <1>1, <1>2

-----------------------------------------------------------------------------
(* The outbox *)

LEMMA RequestStep ==
  ASSUME KInv, NEW r \in Run, Request(r)
  PROVE  KInv'
<1>1. /\ outbox' = Append(outbox, r)
      /\ event' = [event EXCEPT ![r] = "pending"]
      /\ due' = [due EXCEPT ![r] = TRUE]
      /\ UNCHANGED <<sends, publisherVars, topic, inboxVars, groupVars, consumerVars, disruptions>>
  BY DEF Request
<1>2. InboxTypes' /\ ConsumerTypes' /\ OffsetInv'
  BY <1>1, ConsumersAlone
<1>3. /\ outbox' \in Seq(Run) /\ Len(outbox) \in Nat
      /\ Len(outbox') = Len(outbox) + 1
      /\ \A i \in 1 .. Len(outbox) : outbox'[i] = outbox[i] /\ outbox[i] \in Run
      /\ outbox'[Len(outbox) + 1] = r
  BY <1>1, AppendFacts DEF KInv, OutboxTypes
<1>4. OutboxTypes' /\ PublisherTypes'
  BY <1>1, <1>3 DEF KInv, OutboxTypes, PublisherTypes, EventStatus, publisherVars, copiesVars
<1>5. OutboxInv'
  <2>1. \A i \in 1 .. Len(outbox') : event'[outbox'[i]] # "none"
    BY <1>1, <1>3 DEF KInv, OutboxTypes, OutboxInv
  <2>2. \A q \in Run : event'[q] = "published" => q \in Sent'
    BY <1>1 DEF KInv, OutboxTypes, OutboxInv, Sent
  <2>3. \A q \in Run : event'[q] = "failed" => dlq'[q] > 0
    BY <1>1 DEF KInv, OutboxTypes, OutboxInv, inboxVars
  <2>4. \A p \in Publisher : pubAt'[p] \in {"sent", "markPublished"} => pubRun'[p] \in Sent'
    BY <1>1 DEF KInv, OutboxInv, Sent, publisherVars
  <2> QED BY <2>1, <2>2, <2>3, <2>4 DEF OutboxInv
<1> QED BY <1>1, <1>2, <1>4, <1>5 DEF KInv

LEMMA DueStep ==
  ASSUME KInv, NEW r \in Run, Due(r)
  PROVE  KInv'
<1>1. /\ due' = [due EXCEPT ![r] = TRUE]
      /\ UNCHANGED <<outbox, event, sends, publisherVars, topic, inboxVars,
                     groupVars, consumerVars, disruptions>>
  BY DEF Due
<1>2. InboxTypes' /\ ConsumerTypes' /\ OffsetInv'
  BY <1>1, ConsumersAlone
<1>3. OutboxTypes' /\ PublisherTypes'
  BY <1>1 DEF KInv, OutboxTypes, PublisherTypes, publisherVars, copiesVars
<1>4. OutboxInv'
  BY <1>1, OutboxFrame DEF KInv, publisherVars, inboxVars
<1> QED BY <1>1, <1>2, <1>3, <1>4 DEF KInv

LEMMA PubClaimStep ==
  ASSUME KInv, NEW p \in Publisher, PubClaim(p)
  PROVE  KInv'
<1>1. PICK i \in 1 .. Len(outbox) :
        /\ sends[outbox[i]] < MaxSend
        /\ event' = [event EXCEPT ![outbox[i]] = "publishing"]
        /\ due' = [due EXCEPT ![outbox[i]] = FALSE]
        /\ sends' = [sends EXCEPT ![outbox[i]] = @ + 1]
        /\ pubRun' = [pubRun EXCEPT ![p] = outbox[i]]
  BY DEF PubClaim
<1>2. /\ pubAt' = [pubAt EXCEPT ![p] = "send"]
      /\ UNCHANGED <<outbox, copiesVars, topic, inboxVars, groupVars, consumerVars, disruptions>>
  BY DEF PubClaim, ToPub
<1>3. outbox[i] \in Run
  BY DEF KInv, OutboxTypes
<1>4. InboxTypes' /\ ConsumerTypes' /\ OffsetInv'
  BY <1>2, ConsumersAlone
<1>5. OutboxTypes'
  BY <1>1, <1>2, <1>3, KafkaAssumption DEF KInv, OutboxTypes, EventStatus
<1>6. PublisherTypes'
  BY <1>1, <1>2, <1>3 DEF KInv, PublisherTypes, PubPlace, copiesVars
<1>7. OutboxInv'
  BY <1>1, <1>2, <1>3 DEF KInv, OutboxTypes, PublisherTypes, OutboxInv, Sent, inboxVars
<1> QED BY <1>2, <1>4, <1>5, <1>6, <1>7 DEF KInv

\* Send, and a producer that raises after it has sent.
LEMMA SentStep ==
  ASSUME KInv, NEW p \in Publisher, NEW l \in {"sent", "raised"},
         pubAt[p] = "send", ToPub(p, l), topic' = Append(topic, pubRun[p]),
         UNCHANGED <<outboxVars, pubRun, copiesVars, inboxVars, groupVars, consumerVars, disruptions>>
  PROVE  KInv'
<1>1. pubRun[p] \in Run
  BY DEF KInv, PublisherTypes
<1>2. /\ InboxTypes' /\ ConsumerTypes' /\ OffsetInv'
      /\ pubRun[p] \in Sent' /\ \A q \in Sent : q \in Sent'
  BY <1>1, TopicGrows
<1>3. OutboxTypes' /\ PublisherTypes'
  BY DEF KInv, OutboxTypes, PublisherTypes, PubPlace, ToPub, outboxVars, copiesVars
<1>4. OutboxInv'
  BY <1>2 DEF KInv, PublisherTypes, OutboxInv, ToPub, outboxVars, inboxVars
<1> QED BY <1>2, <1>3, <1>4 DEF KInv

LEMMA SendRaisesStep ==
  ASSUME KInv, NEW p \in Publisher, SendRaises(p)
  PROVE  KInv'
<1>1. CASE topic' = Append(topic, pubRun[p])
  BY <1>1, SentStep DEF SendRaises
<1>2. CASE topic' = topic
  <2>1. InboxTypes' /\ ConsumerTypes' /\ OffsetInv'
    BY <1>2, ConsumersAlone DEF SendRaises
  <2>2. OutboxTypes' /\ PublisherTypes'
    BY DEF KInv, OutboxTypes, PublisherTypes, PubPlace, ToPub, SendRaises, outboxVars, copiesVars
  <2>3. OutboxInv'
    BY <1>2 DEF KInv, PublisherTypes, OutboxInv, Sent, SendRaises, ToPub, outboxVars, inboxVars
  <2> QED BY <2>1, <2>2, <2>3 DEF KInv, SendRaises
<1> QED BY <1>1, <1>2 DEF SendRaises

LEMMA MarkReadStep ==
  ASSUME KInv, NEW p \in Publisher, MarkRead(p)
  PROVE  KInv'
<1>1. pubRun[p] \in Run
  BY DEF KInv, PublisherTypes, MarkRead
<1>2. InboxTypes' /\ ConsumerTypes' /\ OffsetInv'
  BY ConsumersAlone DEF MarkRead
<1>3. OutboxTypes' /\ PublisherTypes'
  BY <1>1 DEF KInv, OutboxTypes, PublisherTypes, PubPlace, ToPub, MarkRead, outboxVars
<1>4. OutboxInv'
  BY DEF KInv, PublisherTypes, OutboxInv, Sent, MarkRead, ToPub, outboxVars, inboxVars
<1> QED BY <1>2, <1>3, <1>4 DEF KInv, MarkRead

\* A publisher that goes back to its loop, the event's status being st unless
\* the session found it so.
LEMMA MarkTypes ==
  ASSUME KInv, NEW p \in Publisher, pubAt[p] # "idle", PubIdle(p),
         NEW st \in EventStatus, MarkEvent(p, st), UNCHANGED <<outbox, sends>>,
         due' \in [Run -> BOOLEAN]
  PROVE  /\ pubRun[p] \in Run
         /\ OutboxTypes' /\ PublisherTypes'
         /\ event'[pubRun[p]] \in {st, event[pubRun[p]]}
         /\ \A r \in Run \ {pubRun[p]} : event'[r] = event[r]
<1>1. pubRun[p] \in Run
  BY DEF KInv, PublisherTypes
<1>2. /\ event'[pubRun[p]] \in {st, event[pubRun[p]]}
      /\ \A r \in Run \ {pubRun[p]} : event'[r] = event[r]
      /\ event' \in [Run -> EventStatus]
  BY <1>1 DEF KInv, OutboxTypes, MarkEvent, Flushed
<1>3. OutboxTypes'
  BY <1>2 DEF KInv, OutboxTypes
<1>4. PublisherTypes'
  BY KafkaAssumption DEF KInv, PublisherTypes, PubIdle, ToPub, PubPlace, EventStatus
<1> QED BY <1>1, <1>2, <1>3, <1>4

LEMMA MarkPublishedStep ==
  ASSUME KInv, NEW p \in Publisher, MarkPublished(p)
  PROVE  KInv'
<1>1. /\ pubRun[p] \in Run
      /\ OutboxTypes' /\ PublisherTypes'
      /\ event'[pubRun[p]] \in {"published", event[pubRun[p]]}
      /\ \A r \in Run \ {pubRun[p]} : event'[r] = event[r]
  BY MarkTypes DEF KInv, OutboxTypes, EventStatus, MarkPublished
<1>2. InboxTypes' /\ ConsumerTypes' /\ OffsetInv'
  BY ConsumersAlone DEF MarkPublished
<1>3. pubRun[p] \in Sent
  BY DEF KInv, OutboxInv, MarkPublished
<1>4. OutboxInv'
  <2>1. \A i \in 1 .. Len(outbox') : event'[outbox'[i]] # "none"
    BY <1>1 DEF KInv, OutboxTypes, OutboxInv, MarkPublished
  <2>2. \A r \in Run : event'[r] = "published" => r \in Sent'
    BY <1>1, <1>3 DEF KInv, OutboxInv, Sent, MarkPublished
  <2>3. \A r \in Run : event'[r] = "failed" => dlq'[r] > 0
    BY <1>1 DEF KInv, OutboxInv, MarkPublished, inboxVars
  <2>4. \A q \in Publisher : pubAt'[q] \in {"sent", "markPublished"} => pubRun'[q] \in Sent'
    BY DEF KInv, PublisherTypes, OutboxInv, Sent, MarkPublished, PubIdle, ToPub
  <2> QED BY <2>1, <2>2, <2>3, <2>4 DEF OutboxInv
<1> QED BY <1>1, <1>2, <1>4 DEF KInv, MarkPublished

LEMMA MarkErrorStep ==
  ASSUME KInv, NEW p \in Publisher, MarkError(p)
  PROVE  KInv'
<1> DEFINE st == IF GaveUp(p) THEN "failed" ELSE "pending"
<1>1. /\ pubAt[p] = "markError" /\ MarkEvent(p, st) /\ PubIdle(p)
      /\ UNCHANGED <<vars, outbox, sends, topic, dead, inbox, groupVars, consumerVars, disruptions>>
      /\ due' \in [Run -> BOOLEAN]
  BY DEF MarkError, KInv, OutboxTypes
<1>2. st \in EventStatus
  BY DEF EventStatus
<1>3. /\ pubRun[p] \in Run
      /\ OutboxTypes' /\ PublisherTypes'
      /\ event'[pubRun[p]] \in {st, event[pubRun[p]]}
      /\ \A r \in Run \ {pubRun[p]} : event'[r] = event[r]
  <2> HIDE DEF st
  <2> QED BY <1>1, <1>2, MarkTypes
<1>4. /\ InboxTypes'
      /\ \A r \in Run : dlq[r] > 0 => dlq'[r] > 0
      /\ st = "failed" => dlq'[pubRun[p]] > 0
  <2>1. CASE GaveUp(p)
    <3>1. dlq' = [dlq EXCEPT ![pubRun[p]] = sawSends[p]]
      BY <2>1 DEF MarkError, Park
    <3>2. sawSends[p] \in Nat /\ sawSends[p] > 0
      BY <2>1, KafkaAssumption DEF GaveUp, KInv, PublisherTypes
    <3> QED BY <1>1, <1>3, <3>1, <3>2 DEF KInv, InboxTypes
  <2>2. CASE ~ GaveUp(p)
    BY <1>1, <2>2 DEF MarkError, KInv, InboxTypes
  <2> QED BY <2>1, <2>2
<1>5. ConsumerTypes' /\ OffsetInv'
  BY <1>1 DEF KInv, ConsumerTypes, OffsetInv, Handled, groupVars, consumerVars
<1>6. OutboxInv'
  <2>1. \A i \in 1 .. Len(outbox') : event'[outbox'[i]] # "none"
    BY <1>1, <1>3 DEF KInv, OutboxTypes, OutboxInv
  <2>2. \A r \in Run : event'[r] = "published" => r \in Sent'
    BY <1>1, <1>3 DEF KInv, OutboxInv, Sent
  <2>3. \A r \in Run : event'[r] = "failed" => dlq'[r] > 0
    BY <1>3, <1>4 DEF KInv, OutboxInv
  <2>4. \A q \in Publisher : pubAt'[q] \in {"sent", "markPublished"} => pubRun'[q] \in Sent'
    BY <1>1 DEF KInv, PublisherTypes, OutboxInv, Sent, PubIdle, ToPub
  <2> QED BY <2>1, <2>2, <2>3, <2>4 DEF OutboxInv
<1> QED BY <1>1, <1>3, <1>4, <1>5, <1>6 DEF KInv

LEMMA PubCrashStep ==
  ASSUME KInv, NEW p \in Publisher, PubCrash(p)
  PROVE  KInv'
<1>1. InboxTypes' /\ ConsumerTypes' /\ OffsetInv'
  BY ConsumersAlone DEF PubCrash
<1>2. OutboxTypes' /\ PublisherTypes'
  BY KafkaAssumption DEF KInv, OutboxTypes, PublisherTypes, PubCrash, PubIdle, ToPub,
       PubPlace, EventStatus, outboxVars
<1>3. OutboxInv'
  BY DEF KInv, PublisherTypes, OutboxInv, Sent, PubCrash, PubIdle, ToPub, outboxVars, inboxVars
<1>4. disruptions' \in 0 .. MaxDisruption
  BY KafkaAssumption DEF KInv, PubCrash
<1> QED BY <1>1, <1>2, <1>3, <1>4 DEF KInv

LEMMA PublisherStep ==
  ASSUME KInv, NEW p \in Publisher, Publish(p) \/ PubCrash(p)
  PROVE  KInv'
<1>1. CASE PubClaim(p)
  BY <1>1, PubClaimStep
<1>2. CASE Send(p)
  BY <1>2, SentStep DEF Send
<1>3. CASE SendRaises(p)
  BY <1>3, SendRaisesStep
<1>4. CASE MarkRead(p)
  BY <1>4, MarkReadStep
<1>5. CASE MarkPublished(p)
  BY <1>5, MarkPublishedStep
<1>6. CASE MarkError(p)
  BY <1>6, MarkErrorStep
<1>7. CASE PubCrash(p)
  BY <1>7, PubCrashStep
<1> QED
  BY <1>1, <1>2, <1>3, <1>4, <1>5, <1>6, <1>7 DEF Publish

-----------------------------------------------------------------------------
(* The consumers *)

\* A consumer goes on to l with the record it has, if any; it reaches the
\* commit only with a record that is handled.
LEMMA MoveStep ==
  ASSUME KInv, NEW w \in Worker, NEW l \in Place, ToAt(w, l),
         at[w] \in {"down", "fetch"} <=> l \in {"down", "fetch"},
         l = "commit" => Record(w) \in inbox' \cup dead',
         InboxTypes', inbox \subseteq inbox', dead \subseteq dead',
         \A r \in Run : dlq[r] > 0 => dlq'[r] > 0,
         tries' \in [Worker -> Nat], disruptions' \in 0 .. MaxDisruption,
         UNCHANGED <<outboxVars, publisherVars, topic, groupVars, position, offset>>
  PROVE  KInv'
<1>1. OutboxTypes' /\ PublisherTypes' /\ OutboxInv'
  BY PublishersAlone
<1>2. at' = [at EXCEPT ![w] = l] /\ at \in [Worker -> Place]
  BY DEF ToAt, KInv, ConsumerTypes
<1>3. ConsumerTypes'
  BY <1>2 DEF KInv, ConsumerTypes, groupVars
<1>4. OffsetInv'
  <2>1. \A k \in 1 .. Len(topic) : Handled(k) => Handled(k)'
    BY DEF Handled
  <2>2. ASSUME NEW v \in Worker, NEW k \in 1 .. Len(topic), at'[v] = "commit", k = offset[v]
        PROVE  Handled(k)'
    <3>1. CASE v = w
      BY <1>2, <2>2, <3>1 DEF Handled, Record
    <3>2. CASE v # w
      BY <1>2, <2>1, <2>2, <3>2 DEF KInv, OffsetInv
    <3> QED BY <3>1, <3>2
  <2> QED BY <2>1, <2>2 DEF KInv, OffsetInv, groupVars
<1> QED BY <1>1, <1>3, <1>4 DEF KInv

\* The same when the inbox and the dead letters stay as they are.
LEMMA WalkStep ==
  ASSUME KInv, NEW w \in Worker, NEW l \in Place, ToAt(w, l),
         at[w] \in {"down", "fetch"} <=> l \in {"down", "fetch"},
         l = "commit" => Record(w) \in inbox \cup dead,
         tries' \in [Worker -> Nat], disruptions' \in 0 .. MaxDisruption,
         UNCHANGED <<outboxVars, publisherVars, topic, inboxVars, groupVars, position, offset>>
  PROVE  KInv'
<1>1. InboxTypes' /\ inbox' = inbox /\ dead' = dead /\ dlq' = dlq
  BY DEF KInv, InboxTypes, inboxVars
<1> QED BY <1>1, MoveStep

LEMMA StartStep ==
  ASSUME KInv, NEW w \in Worker, Start(w)
  PROVE  KInv'
<1>1. "fetch" \in Place
  BY DEF Place
<1> QED BY <1>1, WalkStep DEF Start, KInv, ConsumerTypes

LEMMA CheckStep ==
  ASSUME KInv, NEW w \in Worker, Check(w)
  PROVE  KInv'
<1> DEFINE l == IF Record(w) \in inbox THEN "commit" ELSE "claim"
<1>1. /\ l \in Place \ {"down", "fetch"}
      /\ l = "commit" => Record(w) \in inbox \cup dead
  BY DEF Place
<1>2. ToAt(w, l)
  BY DEF Check
<1> HIDE DEF l
<1> QED BY <1>1, <1>2, WalkStep DEF Check, KInv, ConsumerTypes

LEMMA TakeRecordStep ==
  ASSUME KInv, NEW w \in Worker, Claim(w)
  PROVE  KInv'
<1>1. PICK l \in {"execute", "mark"} : ToAt(w, l)
  BY DEF Claim
<1>2. l \in Place \ {"down", "fetch", "commit"}
  BY DEF Place
<1> QED BY <1>1, <1>2, WalkStep DEF Claim, KInv, ConsumerTypes

LEMMA InsideStep ==
  ASSUME KInv, NEW w \in Worker, Work(w)
  PROVE  KInv'
<1>1. PICK l \in {"execute", "mark"} : ToAt(w, l)
  BY DEF Work, Inside, ToAt, KInv, ConsumerTypes
<1>2. l \in Place \ {"down", "fetch", "commit"}
  BY DEF Place
<1> QED BY <1>1, <1>2, WalkStep DEF Work, Inside, KInv, ConsumerTypes

LEMMA EscapeStep ==
  ASSUME KInv, NEW w \in Worker, Escape(w)
  PROVE  KInv'
<1>1. "failed" \in Place
  BY DEF Place
<1>2. disruptions' \in 0 .. MaxDisruption
  BY KafkaAssumption DEF KInv, Escape
<1> QED BY <1>1, <1>2, WalkStep DEF Escape, KInv, ConsumerTypes

LEMMA FailureReadStep ==
  ASSUME KInv, NEW w \in Worker, FailureRead(w)
  PROVE  KInv'
<1>1. "record" \in Place
  BY DEF Place
<1>2. tries' \in [Worker -> Nat]
  BY RecordIsRun DEF FailureRead, KInv, ConsumerTypes, InboxTypes
<1> QED BY <1>1, <1>2, WalkStep DEF FailureRead, KInv

LEMMA FailureCommitStep ==
  ASSUME KInv, NEW w \in Worker, FailureCommit(w)
  PROVE  KInv'
<1> DEFINE r == Record(w)
<1>1. r \in Run /\ tries[w] \in Nat
  BY RecordIsRun DEF FailureCommit, KInv, ConsumerTypes
<1>2. dlq' = dlq \/ dlq' = [dlq EXCEPT ![r] = tries[w] + 1]
  BY DEF FailureCommit
<1>3. PICK l \in {"seek", "dead"} : ToAt(w, l)
  BY DEF FailureCommit
<1>4. l \in Place \ {"down", "fetch", "commit"}
  BY DEF Place
<1>5. InboxTypes' /\ \A q \in Run : dlq[q] > 0 => dlq'[q] > 0
  <2>1. dlq \in [Run -> Nat] /\ inbox' = inbox /\ dead' = dead /\ InboxTypes
    BY DEF KInv, InboxTypes, FailureCommit
  <2> HIDE DEF r
  <2> QED BY <1>1, <1>2, <2>1 DEF InboxTypes
<1>6. tries' \in [Worker -> Nat]
  BY DEF FailureCommit, KInv, ConsumerTypes
<1> QED BY <1>3, <1>4, <1>5, <1>6, MoveStep DEF FailureCommit, KInv

LEMMA HandleStep ==
  ASSUME KInv, NEW w \in Worker, DeadLetter(w) \/ MarkProcessed(w)
  PROVE  KInv'
<1>1. Record(w) \in Run /\ "commit" \in Place
  BY RecordIsRun DEF DeadLetter, MarkProcessed, Place
<1>2. /\ ToAt(w, "commit") /\ at[w] \notin {"down", "fetch"}
      /\ inbox \subseteq inbox' /\ dead \subseteq dead' /\ dlq' = dlq
      /\ Record(w) \in inbox' \cup dead'
      /\ UNCHANGED <<outboxVars, publisherVars, topic, groupVars, position, offset, tries, disruptions>>
  BY DEF DeadLetter, MarkProcessed
<1>3. InboxTypes'
  BY <1>1 DEF DeadLetter, MarkProcessed, KInv, InboxTypes
<1>4. tries' \in [Worker -> Nat] /\ disruptions' \in 0 .. MaxDisruption
  BY <1>2 DEF KInv, ConsumerTypes
<1> QED BY <1>1, <1>2, <1>3, <1>4, MoveStep

LEMMA RaisesStep ==
  ASSUME KInv, NEW w \in Worker, Raises(w)
  PROVE  KInv'
<1>1. "seek" \in Place
  BY DEF Place
<1>2. tries' \in [Worker -> Nat]
  BY DEF Raises, KInv, ConsumerTypes
<1>3. at[w] \notin {"down", "fetch"} /\ ToAt(w, "seek")
  BY DEF Raises
<1> QED BY <1>1, <1>2, <1>3, WalkStep DEF Raises, KInv

\* The next record is the first above the position, below which everything is
\* handled.
LEMMA FetchStep ==
  ASSUME KInv, NEW w \in Worker, Fetch(w)
  PROVE  KInv'
<1>1. /\ at[w] = "fetch" /\ assigned = w /\ position[w] < Len(topic)
      /\ offset' = [offset EXCEPT ![w] = position[w] + 1]
      /\ position' = [position EXCEPT ![w] = @ + 1]
      /\ at' = [at EXCEPT ![w] = "check"]
      /\ UNCHANGED <<outboxVars, publisherVars, topic, inboxVars, groupVars, tries, disruptions>>
  BY DEF Fetch, ToAt
<1>2. /\ Len(topic) \in Nat /\ position \in [Worker -> 0 .. Len(topic)]
      /\ offset \in [Worker -> 0 .. Len(topic)] /\ at \in [Worker -> Place]
      /\ offset[w] = 0
  BY <1>1, LenNat DEF KInv, ConsumerTypes
<1>3. OutboxTypes' /\ PublisherTypes' /\ OutboxInv'
  BY <1>1, PublishersAlone DEF inboxVars
<1>4. InboxTypes' /\ ConsumerTypes'
  BY <1>1, <1>2 DEF KInv, InboxTypes, ConsumerTypes, Place, inboxVars, groupVars
<1>5. OffsetInv'
  <2>1. \A k \in 1 .. Len(topic) : Handled(k)' <=> Handled(k)
    BY <1>1 DEF Handled, inboxVars
  <2>2. ASSUME NEW v \in Worker, NEW k \in 1 .. Len(topic)
        PROVE  /\ k < offset'[v] => Handled(k)
               /\ assigned = v /\ k <= position'[v] /\ k # offset'[v] => Handled(k)
               /\ at'[v] = "commit" /\ k = offset'[v] => Handled(k)
    <3>1. CASE v = w
      <4>1. offset'[v] = position[w] + 1 /\ position'[v] = position[w] + 1 /\ at'[v] = "check"
        BY <1>1, <1>2, <3>1
      <4>2. k <= position[w] => Handled(k)
        BY <1>1, <1>2 DEF KInv, OffsetInv
      <4>3. position[w] \in Nat
        BY <1>2
      <4> QED BY <4>1, <4>2, <4>3
    <3>2. CASE v # w
      BY <1>1, <1>2, <3>2 DEF KInv, OffsetInv
    <3> QED BY <3>1, <3>2
  <2> QED BY <1>1, <2>1, <2>2 DEF KInv, OffsetInv, groupVars
<1> QED BY <1>1, <1>3, <1>4, <1>5 DEF KInv

\* What a consumer commits is its position, and its own record is handled.
LEMMA CommitStep ==
  ASSUME KInv, NEW w \in Worker, Commit(w)
  PROVE  KInv'
<1>1. /\ at[w] = "commit" /\ assigned = w /\ committed' = position[w]
      /\ offset' = [offset EXCEPT ![w] = 0]
      /\ at' = [at EXCEPT ![w] = "fetch"]
      /\ UNCHANGED <<outboxVars, publisherVars, topic, inboxVars, assigned, position, tries, disruptions>>
  BY DEF Commit, Committed, NextRecord, ToAt
<1>2. /\ Len(topic) \in Nat /\ position \in [Worker -> 0 .. Len(topic)]
      /\ offset \in [Worker -> 0 .. Len(topic)] /\ at \in [Worker -> Place]
  BY LenNat DEF KInv, ConsumerTypes
<1>3. OutboxTypes' /\ PublisherTypes' /\ OutboxInv'
  BY <1>1, PublishersAlone DEF inboxVars
<1>4. InboxTypes' /\ ConsumerTypes'
  BY <1>1, <1>2 DEF KInv, InboxTypes, ConsumerTypes, Place, inboxVars
<1>5. OffsetInv'
  <2>1. \A k \in 1 .. Len(topic) : Handled(k)' <=> Handled(k)
    BY <1>1 DEF Handled, inboxVars
  <2>2. ASSUME NEW k \in 1 .. Len(topic), k <= position[w] PROVE Handled(k)
    BY <1>1, <2>2 DEF KInv, OffsetInv
  <2>3. ASSUME NEW v \in Worker, NEW k \in 1 .. Len(topic)
        PROVE  /\ k < offset'[v] => Handled(k)
               /\ assigned = v /\ k <= position[v] /\ k # offset'[v] => Handled(k)
               /\ at'[v] = "commit" /\ k = offset'[v] => Handled(k)
    <3>1. CASE v = w
      BY <1>1, <1>2, <2>2, <3>1 DEF KInv, OffsetInv
    <3>2. CASE v # w
      BY <1>1, <1>2, <3>2 DEF KInv, OffsetInv
    <3> QED BY <3>1, <3>2
  <2> QED BY <1>1, <2>1, <2>2, <2>3 DEF OffsetInv
<1> QED BY <1>1, <1>3, <1>4, <1>5 DEF KInv

\* A seek goes back to the record, below which everything is handled, even
\* when the position is one the consumer was given after it fetched the record.
LEMMA SeekStep ==
  ASSUME KInv, NEW w \in Worker, Seek(w)
  PROVE  KInv'
<1>1. /\ at[w] = "seek" /\ assigned = w
      /\ position' = [position EXCEPT ![w] = offset[w] - 1]
      /\ offset' = [offset EXCEPT ![w] = 0]
      /\ at' = [at EXCEPT ![w] = "fetch"]
      /\ UNCHANGED <<outboxVars, publisherVars, topic, inboxVars, groupVars, tries, disruptions>>
  BY DEF Seek, Rewind, NextRecord, ToAt
<1>2. /\ Len(topic) \in Nat /\ position \in [Worker -> 0 .. Len(topic)]
      /\ offset \in [Worker -> 0 .. Len(topic)] /\ at \in [Worker -> Place]
      /\ offset[w] \in 1 .. Len(topic)
  BY <1>1, LenNat, RecordIsRun DEF KInv, ConsumerTypes
<1>3. OutboxTypes' /\ PublisherTypes' /\ OutboxInv'
  BY <1>1, PublishersAlone DEF inboxVars
<1>4. InboxTypes' /\ ConsumerTypes'
  <2>1. /\ position' \in [Worker -> 0 .. Len(topic)]
        /\ offset' \in [Worker -> 0 .. Len(topic)]
        /\ at' \in [Worker -> Place]
    BY <1>1, <1>2 DEF Place
  <2>2. \A v \in Worker : at'[v] \in {"down", "fetch"} <=> offset'[v] = 0
    BY <1>1, <1>2 DEF KInv, ConsumerTypes
  <2>3. InboxTypes'
    BY <1>1 DEF KInv, InboxTypes, inboxVars
  <2>4. /\ topic \in Seq(Run) /\ assigned \in Worker \cup {NoWorker}
        /\ committed \in 0 .. Len(topic) /\ tries \in [Worker -> Nat]
    BY DEF KInv, ConsumerTypes
  <2>5. UNCHANGED <<topic, assigned, committed, tries>>
    BY <1>1 DEF groupVars
  <2> QED BY <2>1, <2>2, <2>3, <2>4, <2>5 DEF ConsumerTypes
<1>5. OffsetInv'
  <2>1. \A k \in 1 .. Len(topic) : Handled(k)' <=> Handled(k)
    BY <1>1 DEF Handled, inboxVars
  <2>2. ASSUME NEW v \in Worker, NEW k \in 1 .. Len(topic)
        PROVE  /\ k < offset'[v] => Handled(k)
               /\ assigned = v /\ k <= position'[v] /\ k # offset'[v] => Handled(k)
               /\ at'[v] = "commit" /\ k = offset'[v] => Handled(k)
    <3>1. CASE v = w
      BY <1>1, <1>2, <3>1 DEF KInv, OffsetInv
    <3>2. CASE v # w
      BY <1>1, <1>2, <3>2 DEF KInv, OffsetInv
    <3> QED BY <3>1, <3>2
  <2> QED BY <1>1, <2>1, <2>2 DEF KInv, OffsetInv, groupVars
<1> QED BY <1>1, <1>3, <1>4, <1>5 DEF KInv

LEMMA DieStep ==
  ASSUME KInv, NEW w \in Worker, Die(w), disruptions' \in 0 .. MaxDisruption
  PROVE  KInv'
<1>1. /\ position' = [position EXCEPT ![w] = 0]
      /\ offset' = [offset EXCEPT ![w] = 0]
      /\ at' = [at EXCEPT ![w] = "down"]
      /\ tries' = [tries EXCEPT ![w] = 0]
      /\ assigned' = (IF assigned = w THEN NoWorker ELSE assigned)
      /\ UNCHANGED <<outboxVars, publisherVars, topic, inboxVars, committed>>
  BY DEF Die, ToAt
<1>2. /\ Len(topic) \in Nat /\ position \in [Worker -> 0 .. Len(topic)]
      /\ offset \in [Worker -> 0 .. Len(topic)] /\ at \in [Worker -> Place]
  BY LenNat DEF KInv, ConsumerTypes
<1>3. OutboxTypes' /\ PublisherTypes' /\ OutboxInv'
  BY <1>1, PublishersAlone DEF inboxVars
<1>4. InboxTypes' /\ ConsumerTypes'
  BY <1>1, <1>2 DEF KInv, InboxTypes, ConsumerTypes, Place, inboxVars
<1>5. OffsetInv'
  <2>1. \A k \in 1 .. Len(topic) : Handled(k)' <=> Handled(k)
    BY <1>1 DEF Handled, inboxVars
  <2>2. ASSUME NEW v \in Worker, NEW k \in 1 .. Len(topic)
        PROVE  /\ k < offset'[v] => Handled(k)
               /\ assigned' = v /\ k <= position'[v] /\ k # offset'[v] => Handled(k)
               /\ at'[v] = "commit" /\ k = offset'[v] => Handled(k)
    <3>1. CASE v = w
      BY <1>1, <1>2, <3>1
    <3>2. CASE v # w
      BY <1>1, <1>2, <3>2, EvalRunAssumption DEF KInv, OffsetInv
    <3> QED BY <3>1, <3>2
  <2> QED BY <1>1, <2>1, <2>2 DEF KInv, OffsetInv
<1> QED BY <1>3, <1>4, <1>5 DEF KInv

LEMMA SeekUnassignedStep ==
  ASSUME KInv, NEW w \in Worker, SeekUnassigned(w)
  PROVE  KInv'
<1>1. CASE Die(w)
  BY <1>1, DieStep DEF SeekUnassigned, KInv
<1>2. CASE ~ Die(w)
  <2>1. /\ assigned # w /\ at[w] = "seek"
        /\ offset' = [offset EXCEPT ![w] = 0]
        /\ at' = [at EXCEPT ![w] = "fetch"]
        /\ UNCHANGED <<outboxVars, publisherVars, topic, inboxVars, groupVars, position, tries, disruptions>>
    BY <1>2 DEF SeekUnassigned, NextRecord, ToAt
  <2>2. /\ Len(topic) \in Nat
        /\ offset \in [Worker -> 0 .. Len(topic)] /\ at \in [Worker -> Place]
    BY LenNat DEF KInv, ConsumerTypes
  <2>3. OutboxTypes' /\ PublisherTypes' /\ OutboxInv'
    BY <2>1, PublishersAlone DEF inboxVars
  <2>4. InboxTypes' /\ ConsumerTypes'
    BY <2>1, <2>2 DEF KInv, InboxTypes, ConsumerTypes, Place, inboxVars, groupVars
  <2>5. OffsetInv'
    BY <2>1, <2>2 DEF KInv, OffsetInv, Handled, inboxVars, groupVars
  <2> QED BY <2>1, <2>3, <2>4, <2>5 DEF KInv
<1> QED BY <1>1, <1>2

\* The partition's new consumer resumes where the group has committed.
LEMMA JoinStep ==
  ASSUME KInv, NEW w \in Worker, Join(w)
  PROVE  KInv'
<1>1. /\ assigned' = w /\ position' = [position EXCEPT ![w] = committed]
      /\ UNCHANGED <<outboxVars, publisherVars, topic, inboxVars, committed, offset, at, tries, disruptions>>
  BY DEF Join, StartOffset
<1>2. Len(topic) \in Nat /\ position \in [Worker -> 0 .. Len(topic)] /\ committed \in 0 .. Len(topic)
  BY LenNat DEF KInv, ConsumerTypes
<1>3. OutboxTypes' /\ PublisherTypes' /\ OutboxInv'
  BY <1>1, PublishersAlone DEF inboxVars
<1>4. InboxTypes' /\ ConsumerTypes'
  BY <1>1, <1>2 DEF KInv, InboxTypes, ConsumerTypes, inboxVars
<1>5. OffsetInv'
  BY <1>1, <1>2 DEF KInv, OffsetInv, Handled, inboxVars
<1> QED BY <1>1, <1>3, <1>4, <1>5 DEF KInv

LEMMA RevokeStep ==
  ASSUME KInv, Revoke
  PROVE  KInv'
<1>1. /\ assigned' = NoWorker
      /\ UNCHANGED <<outboxVars, publisherVars, topic, inboxVars, committed, consumerVars>>
  BY DEF Revoke
<1>2. OutboxTypes' /\ PublisherTypes' /\ OutboxInv'
  BY <1>1, PublishersAlone DEF inboxVars
<1>3. InboxTypes' /\ ConsumerTypes'
  BY <1>1 DEF KInv, InboxTypes, ConsumerTypes, inboxVars, consumerVars
<1>4. OffsetInv'
  BY <1>1, EvalRunAssumption DEF KInv, OffsetInv, Handled, inboxVars, consumerVars
<1>5. disruptions' \in 0 .. MaxDisruption
  BY KafkaAssumption DEF KInv, Revoke
<1> QED BY <1>2, <1>3, <1>4, <1>5 DEF KInv

LEMMA ConsumeStep ==
  ASSUME KInv, NEW w \in Worker, Consume(w) \/ Join(w) \/ Escape(w) \/ Crash(w)
  PROVE  KInv'
<1>1. CASE Start(w) \/ Fetch(w) \/ Check(w)
  BY <1>1, StartStep, FetchStep, CheckStep
<1>2. CASE Claim(w) \/ Work(w) \/ Escape(w)
  BY <1>2, TakeRecordStep, InsideStep, EscapeStep
<1>3. CASE FailureRead(w) \/ FailureCommit(w) \/ DeadLetter(w) \/ MarkProcessed(w)
  BY <1>3, FailureReadStep, FailureCommitStep, HandleStep
<1>4. CASE Raises(w) \/ Commit(w) \/ Seek(w) \/ SeekUnassigned(w)
  BY <1>4, RaisesStep, CommitStep, SeekStep, SeekUnassignedStep
<1>5. CASE Join(w)
  BY <1>5, JoinStep
<1>6. CASE Crash(w)
  <2>1. disruptions' \in 0 .. MaxDisruption
    BY <1>6, KafkaAssumption DEF KInv, Crash
  <2> QED BY <1>6, <2>1, DieStep DEF Crash
<1> QED BY <1>1, <1>2, <1>3, <1>4, <1>5, <1>6 DEF Consume

LEMMA KStep ==
  ASSUME KInv, [KafkaNext]_kafkaVars
  PROVE  KInv'
<1>1. CASE Cancellation \/ TimePasses \/ UNCHANGED kafkaVars
  BY <1>1, Frame DEF Cancellation, TimePasses, kafkaVars
<1>2. ASSUME NEW r \in Run, Replay(r) PROVE KInv'
  BY <1>2, Frame DEF Replay
<1>3. ASSUME NEW r \in Run, Request(r) \/ Due(r) PROVE KInv'
  BY <1>3, RequestStep, DueStep
<1>4. ASSUME NEW p \in Publisher, Publish(p) \/ PubCrash(p) PROVE KInv'
  BY <1>4, PublisherStep
<1>5. ASSUME NEW w \in Worker, Consume(w) \/ Join(w) \/ Escape(w) \/ Crash(w) PROVE KInv'
  BY <1>5, ConsumeStep
<1>6. CASE Revoke
  BY <1>6, RevokeStep
<1> QED BY <1>1, <1>2, <1>3, <1>4, <1>5, <1>6 DEF KafkaNext

THEOREM KafkaInvariant == KafkaSafe => []KInv
BY InitKInv, KStep, PTL DEF KafkaSafe

-----------------------------------------------------------------------------
(* What follows *)

\* The offset of the group never passes a record nobody has handled, whatever
\* happens to consumers and partition (KafkaRunWorker.run_forever).
THEOREM OffsetsSafe == KafkaSafe => []OffsetSafe
<1>1. KInv => OffsetSafe
  <2> SUFFICES ASSUME KInv, NEW k \in 1 .. committed PROVE Handled(k)
    BY DEF OffsetSafe, Handled
  <2>1. committed \in 0 .. Len(topic) /\ Len(topic) \in Nat
    BY LenNat DEF KInv, ConsumerTypes
  <2>2. k \in 1 .. Len(topic) /\ k <= committed
    BY <2>1
  <2> QED BY <2>2 DEF KInv, OffsetInv
<1> QED BY <1>1, KafkaInvariant, PTL

\* The outbox loses no event, whatever publishers lose leases, die or raise
\* (KafkaOutboxPublisher.publish_once).
THEOREM OutboxKept == KafkaSafe => []OutboxKeeps
<1>1. KInv => OutboxKeeps
  <2> SUFFICES ASSUME KInv, NEW i \in 1 .. Len(outbox),
                      event[outbox[i]] \notin {"pending", "publishing"}
               PROVE  outbox[i] \in Sent \/ dlq[outbox[i]] > 0
    BY DEF OutboxKeeps, Queued
  <2>1. outbox[i] \in Run /\ event[outbox[i]] \in EventStatus /\ event[outbox[i]] # "none"
    BY DEF KInv, OutboxTypes, OutboxInv
  <2>2. event[outbox[i]] \in {"published", "failed"}
    BY <2>1 DEF EventStatus
  <2> QED BY <2>1, <2>2 DEF KInv, OutboxInv
<1> QED BY <1>1, KafkaInvariant, PTL

-----------------------------------------------------------------------------
(* The runs Kafka dispatches are runs of EvalRun *)

LEMMA KafkaRestrictsStep ==
  ASSUME KInv, [KafkaNext]_kafkaVars
  PROVE  [Next]_vars
<1>1. ASSUME NEW w \in Worker, at[w] \notin {"down", "fetch"} PROVE Record(w) \in Run
  BY <1>1, RecordIsRun
<1>2. CASE Cancellation \/ TimePasses \/ UNCHANGED kafkaVars \/ Revoke
  BY <1>2, KafkaAssumption DEF Cancellation, TimePasses, Revoke, kafkaVars, Next
<1>3. ASSUME NEW r \in Run, Request(r) \/ Replay(r) \/ Due(r) PROVE [Next]_vars
  BY <1>3 DEF Request, Replay, Due, Next
<1>4. ASSUME NEW p \in Publisher, Publish(p) \/ PubCrash(p) PROVE UNCHANGED vars
  BY <1>4 DEF Publish, PubClaim, Send, SendRaises, MarkRead, MarkPublished, MarkError, PubCrash
<1>5. ASSUME NEW w \in Worker,
             Start(w) \/ Fetch(w) \/ Check(w) \/ FailureRead(w) \/ FailureCommit(w) \/ DeadLetter(w)
               \/ MarkProcessed(w) \/ Raises(w) \/ Commit(w) \/ Seek(w) \/ Join(w)
      PROVE  UNCHANGED vars
  BY <1>5 DEF Start, Fetch, Check, FailureRead, FailureCommit, DeadLetter, MarkProcessed,
       Raises, Commit, Seek, Join
<1>6. ASSUME NEW w \in Worker, Claim(w) PROVE [Next]_vars
  BY <1>1, <1>6 DEF Claim, Next
<1>7. ASSUME NEW w \in Worker, Work(w) \/ Escape(w) PROVE [Next]_vars
  BY <1>7 DEF Work, Inside, Escape, Next
<1>8. ASSUME NEW w \in Worker, SeekUnassigned(w) \/ Crash(w) PROVE [Next]_vars
  BY <1>8 DEF SeekUnassigned, Crash, Die, Stop, Next
<1> QED BY <1>2, <1>3, <1>4, <1>5, <1>6, <1>7, <1>8 DEF KafkaNext, Consume

\* Every behaviour of the dispatch is one of EvalRun,
THEOREM KafkaRestricts == KafkaSafe => RestrictsEvalRun
<1>1. KafkaInit => Init
  BY DEF KafkaInit
<1> QED BY <1>1, InitKInv, KStep, KafkaRestrictsStep, PTL
        DEF KafkaSafe, RestrictsEvalRun, Spec

\* so all the values the variables take are of their types,
THEOREM KafkaTypes == KafkaSafe => []KafkaTypeOK
<1>1. KInv /\ TypeOK => KafkaTypeOK
  BY DEF KInv, OutboxTypes, PublisherTypes, InboxTypes, ConsumerTypes, KafkaTypeOK
<1> QED BY <1>1, KafkaInvariant, KafkaRestricts, TypeCorrect, PTL DEF RestrictsEvalRun

\* gate decisions rest on the complete results of one attempt,
THEOREM KafkaVerdicts == KafkaSafe => []VerdictComplete
BY KafkaRestricts, VerdictsComplete, PTL DEF RestrictsEvalRun

\* and runs keep the contract with the readers of their evidence.
THEOREM KafkaContract == KafkaSafe => ImplementsContract
BY KafkaRestricts, Implements, PTL DEF RestrictsEvalRun

-----------------------------------------------------------------------------
(* What a processed event has become, if nothing crashes or escapes *)

\* A cancellation that was read before the run ended may overwrite its status.
Settled == Final \cup {"CANCEL_REQUESTED"}
Begun(r) == status[r] \notin {"ABSENT", "QUEUED"}

\* A RUNNING run has its worker, an execution past its claim is of a run that
\* was begun, and one that has loaded a final status will not find it undone.
RowInv ==
  /\ \A r \in Run : status[r] = "RUNNING" => \E w \in Worker : run[w] = r
  /\ \A w \in Worker :
       /\ pc[w] \notin {"idle", "fail", "failCommit"} => Begun(run[w])
       /\ sawStatus[w] \in Final => pc[w] # "idle" /\ status[run[w]] \in Settled

\* A consumer that executes works on its record, and one that is about to mark
\* its record has seen the run begun.
WorkInv ==
  /\ \A w \in Worker :
       /\ at[w] = "execute" <=> pc[w] # "idle"
       /\ at[w] = "execute" => run[w] = Record(w)
       /\ at[w] = "mark" => Begun(Record(w))
  /\ \A r \in inbox : Begun(r)

\* No event is older than its run.
KnownInv ==
  /\ \A r \in Queued \cup Sent : status[r] # "ABSENT"
  /\ \A p \in Publisher : pubAt[p] # "idle" => status[pubRun[p]] # "ABSENT"

\* The steps of EvalRun the dispatch takes when nothing crashes or escapes.
QuietNext ==
  \/ \E r \in Run :
       \/ Create(r) \/ CancelRead(r) \/ CancelCommit(r) \/ ClaimCancelled(r) \/ LeaseExpires(r)
       \/ \E w \in Worker : ClaimRun(w, r) \/ ClaimRaises(w, r)
  \/ \E w \in Worker : Execute(w)

LEMMA InitWork == KafkaInit => RowInv /\ WorkInv /\ KnownInv
BY DEF KafkaInit, Init, RowInv, WorkInv, KnownInv, Queued, Sent, Final

LEMMA CloseSettles ==
  ASSUME TypeOK, PlaceInv, RowInv, NEW w \in Worker, pc[w] # "idle",
         NEW st \in Final, CloseRow(w, st)
  PROVE  /\ run[w] \in Run /\ status'[run[w]] \in Settled
         /\ \A r \in Run : r # run[w] => status'[r] = status[r]
<1>1. run[w] \in Run /\ status \in [Run -> Status]
  BY DEF TypeOK, PlaceInv
<1>2. sawStatus[w] \in Final => status[run[w]] \in Settled
  BY DEF RowInv
<1>3. status' = [status EXCEPT ![run[w]] = Flushed(sawStatus[w], st, status[run[w]])]
  BY DEF CloseRow
<1>4. Flushed(sawStatus[w], st, status[run[w]]) \in Settled
  BY <1>2 DEF Flushed, Settled
<1> QED BY <1>1, <1>3, <1>4

LEMMA Closes ==
  ASSUME TypeOK, PlaceInv, RowInv, NEW w \in Worker, PersistCommit(w) \/ FailCommit(w)
  PROVE  /\ run[w] \in Run /\ status'[run[w]] \in Settled /\ Leave(w)
         /\ \A r \in Run : r # run[w] => status'[r] = status[r]
<1>1. CASE PersistCommit(w)
  <2>1. pc[w] # "idle" /\ CloseRow(w, Outcome(w)) /\ Outcome(w) \in Final /\ Leave(w)
    BY <1>1 DEF PersistCommit, Outcome, Final
  <2> QED BY <2>1, CloseSettles
<1>2. CASE FailCommit(w)
  <2>1. pc[w] # "idle" /\ CloseRow(w, "FAILED") /\ "FAILED" \in Final /\ Leave(w)
    BY <1>2 DEF FailCommit, Final
  <2> QED BY <2>1, CloseSettles
<1> QED BY <1>1, <1>2

\* The steps of execute that end nothing.
Inner(w) ==
  \/ LoadRecorded(w) \/ StopForCancel(w) \/ StartBatch(w) \/ ObserveCancel(w)
  \/ FinishBatch(w) \/ HeartbeatRead(w) \/ RenewDuring(w) \/ RenewAfter(w) \/ Raise(w)
  \/ PersistRead(w) \/ PersistRaises(w) \/ (FailRead(w) /\ ~ Leave(w))

LEMMA InnerIs ==
  ASSUME TypeOK, NEW w \in Worker, Inner(w)
  PROVE  /\ UNCHANGED <<status, run>>
         /\ pc[w] # "idle" /\ pc'[w] # "idle"
         /\ pc'[w] \notin {"fail", "failCommit"} => pc[w] \notin {"idle", "fail", "failCommit"}
         /\ \A v \in Worker : v # w => pc'[v] = pc[v] /\ sawStatus'[v] = sawStatus[v]
         /\ sawStatus'[w] \in {sawStatus[w], status[run[w]], "ABSENT"}
<1> USE DEF TypeOK, rowVars, jobVars, copyVars, ToPc
<1>1. CASE LoadRecorded(w) \/ StopForCancel(w) \/ StartBatch(w) \/ ObserveCancel(w)
  BY <1>1 DEF LoadRecorded, StopForCancel, StartBatch, ObserveCancel
<1>2. CASE FinishBatch(w) \/ HeartbeatRead(w) \/ RenewDuring(w) \/ RenewAfter(w) \/ Raise(w)
  BY <1>2 DEF FinishBatch, HeartbeatRead, RenewDuring, RenewAfter, Raise
<1>3. CASE PersistRead(w)
  BY <1>3 DEF PersistRead, Load, StatusOf
<1>4. CASE PersistRaises(w)
  BY <1>4 DEF PersistRaises, Forget
<1>5. CASE FailRead(w) /\ ~ Leave(w)
  <2>1. Load(w) /\ ToPc(w, "failCommit") /\ UNCHANGED <<rowVars, jobVars>> /\ pc[w] = "fail"
    BY <1>5 DEF FailRead
  <2> QED BY <2>1 DEF Load, StatusOf
<1> QED BY <1>1, <1>2, <1>3, <1>4, <1>5 DEF Inner

LEMMA ExecuteIs ==
  ASSUME TypeOK, NEW w \in Worker, Execute(w)
  PROVE  \/ Inner(w)
         \/ PersistCommit(w) \/ FailCommit(w)
         \/ /\ Leave(w) /\ UNCHANGED status /\ pc[w] = "fail"
            /\ status[run[w]] \in {"COMPLETED", "CANCELLED"}
<1>1. CASE FailRead(w) /\ StatusOf(w) \in {"COMPLETED", "CANCELLED"}
  BY <1>1 DEF FailRead, StatusOf, rowVars
<1>2. CASE FailRead(w) /\ StatusOf(w) \notin {"COMPLETED", "CANCELLED"}
  <2>1. ToPc(w, "failCommit")
    BY <1>2 DEF FailRead
  <2>2. ~ Leave(w)
    BY <2>1 DEF Leave, ToPc, TypeOK
  <2> QED BY <1>2, <2>2 DEF Inner
<1>3. CASE ~ FailRead(w)
  BY <1>3 DEF Execute, Inner
<1> QED BY <1>1, <1>2, <1>3

LEMMA LeaveIs ==
  ASSUME TypeOK, NEW w \in Worker, Leave(w)
  PROVE  /\ pc'[w] = "idle" /\ sawStatus'[w] = "ABSENT"
         /\ \A v \in Worker : v # w => pc'[v] = pc[v] /\ run'[v] = run[v] /\ sawStatus'[v] = sawStatus[v]
BY DEF Leave, TypeOK, ToPc, Forget

\* A status, once written, never goes back.
Onward(a, b) ==
  \/ b = a
  \/ a = "ABSENT" /\ b = "QUEUED"
  \/ b \in Settled
  \/ a \in {"QUEUED", "RUNNING"} /\ b = "RUNNING"

LEMMA StatusMoves ==
  ASSUME TypeOK, PlaceInv, RowInv, [QuietNext]_vars
  PROVE  \A r \in Run : Onward(status[r], status'[r])
<1> USE DEF rowVars, Onward
<1>1. ASSUME NEW r \in Run, Create(r) PROVE \A q \in Run : Onward(status[q], status'[q])
  BY <1>1 DEF TypeOK, Create
<1>2. ASSUME NEW r \in Run, CancelCommit(r) PROVE \A q \in Run : Onward(status[q], status'[q])
  BY <1>2 DEF TypeOK, CancelCommit, Settled, Final
<1>3. ASSUME NEW r \in Run, ClaimCancelled(r) PROVE \A q \in Run : Onward(status[q], status'[q])
  BY <1>3 DEF TypeOK, ClaimCancelled, Settled, Final
<1>4. ASSUME NEW r \in Run, NEW w \in Worker, ClaimRun(w, r)
      PROVE  \A q \in Run : Onward(status[q], status'[q])
  BY <1>4 DEF TypeOK, ClaimRun, Claimable, TakeRow
<1>5. ASSUME NEW w \in Worker, Execute(w) PROVE \A q \in Run : Onward(status[q], status'[q])
  <2>1. CASE PersistCommit(w) \/ FailCommit(w)
    BY <2>1, Closes
  <2>2. CASE UNCHANGED status
    BY <2>2
  <2> QED BY <1>5, <2>1, <2>2, ExecuteIs, InnerIs
<1> QED
  BY <1>1, <1>2, <1>3, <1>4, <1>5 DEF QuietNext, vars, CancelRead, LeaseExpires, ClaimRaises

LEMMA OnwardKeeps ==
  ASSUME TypeOK, \A r \in Run : Onward(status[r], status'[r])
  PROVE  \A r \in Run :
           /\ Begun(r) => Begun(r)'
           /\ status[r] \in Settled => status'[r] \in Settled
           /\ status[r] # "ABSENT" => status'[r] # "ABSENT"
           /\ status'[r] = "RUNNING" => status[r] \in {"QUEUED", "RUNNING"}
BY DEF Onward, Begun, Settled, Final, TypeOK, Status

-----------------------------------------------------------------------------
(* The rows *)

LEMMA RowStep ==
  ASSUME TypeOK, PlaceInv, RowInv, [QuietNext]_vars
  PROVE  RowInv'
<1>0. \A r \in Run :
        /\ Begun(r) => Begun(r)'
        /\ status[r] \in Settled => status'[r] \in Settled
        /\ status'[r] = "RUNNING" => status[r] \in {"QUEUED", "RUNNING"}
  BY StatusMoves, OnwardKeeps
<1>r. \A w \in Worker : pc[w] # "idle" => run[w] \in Run
  BY DEF PlaceInv
<1>1. ASSUME UNCHANGED <<run, pc, sawStatus>>,
             \A r \in Run : status'[r] = "RUNNING" => status[r] = "RUNNING"
      PROVE  RowInv'
  <2>1. ASSUME NEW w \in Worker, pc[w] \notin {"idle", "fail", "failCommit"} PROVE Begun(run[w])'
    <3>1. Begun(run[w]) /\ run[w] \in Run
      BY <1>r, <2>1 DEF RowInv
    <3> QED BY <1>0, <1>1, <3>1 DEF Begun
  <2>2. ASSUME NEW w \in Worker, sawStatus[w] \in Final
        PROVE  pc[w] # "idle" /\ status'[run[w]] \in Settled
    BY <1>0, <1>r, <2>2 DEF RowInv
  <2> QED BY <1>1, <2>1, <2>2 DEF RowInv
<1>2. CASE \E r \in Run : Create(r) \/ CancelRead(r) \/ CancelCommit(r) \/ ClaimCancelled(r) \/ LeaseExpires(r)
  <2>1. UNCHANGED <<run, pc, sawStatus>>
    BY <1>2 DEF Create, CancelRead, CancelCommit, ClaimCancelled, LeaseExpires, jobVars, copyVars
  <2>2. \A r \in Run : status'[r] = "RUNNING" => status[r] = "RUNNING"
    <3>1. PICK r \in Run : Create(r) \/ CancelRead(r) \/ CancelCommit(r) \/ ClaimCancelled(r) \/ LeaseExpires(r)
      BY <1>2
    <3>2. status' = status \/ \E st \in Status \ {"RUNNING"} : status' = [status EXCEPT ![r] = st]
      <4>1. CASE CancelRead(r) \/ LeaseExpires(r)
        BY <4>1 DEF CancelRead, LeaseExpires, rowVars
      <4>2. CASE Create(r) \/ ClaimCancelled(r)
        BY <4>2 DEF Create, ClaimCancelled, Status
      <4>3. CASE CancelCommit(r)
        BY <4>3 DEF CancelCommit, TypeOK, Status
      <4> QED BY <3>1, <4>1, <4>2, <4>3
    <3> QED BY <3>2 DEF TypeOK
  <2> QED BY <1>1, <2>1, <2>2
<1>3. ASSUME NEW w \in Worker, NEW r \in Run, ClaimRun(w, r) \/ ClaimRaises(w, r)
      PROVE  RowInv'
  <2>1. /\ run[w] = NoRun /\ pc[w] = "idle"
        /\ run' = [run EXCEPT ![w] = r] /\ run \in [Worker -> Run \cup {NoRun}]
        /\ sawStatus' = sawStatus
        /\ \A q \in Run : q # r => status'[q] = status[q]
    BY <1>3 DEF ClaimRun, ClaimRaises, TakeRow, TypeOK, PlaceInv, copyVars, rowVars
  <2>2. \E l \in {"load", "fail"} :
          /\ pc' = [pc EXCEPT ![w] = l] /\ (l = "load" => status'[r] = "RUNNING")
          /\ l = "fail" => status' = status
    BY <1>3 DEF ClaimRun, ClaimRaises, TakeRow, ToPc, TypeOK, rowVars
  <2>3. ASSUME NEW q \in Run, status'[q] = "RUNNING" PROVE \E v \in Worker : run'[v] = q
    <3>1. CASE q = r
      BY <2>1, <3>1
    <3>2. CASE q # r
      <4>1. PICK v \in Worker : run[v] = q
        BY <2>1, <2>3, <3>2 DEF RowInv
      <4> QED BY <2>1, <4>1, EvalRunAssumption
    <3> QED BY <3>1, <3>2
  <2>4. ASSUME NEW v \in Worker
        PROVE  /\ pc'[v] \notin {"idle", "fail", "failCommit"} => Begun(run[v])'
               /\ sawStatus'[v] \in Final => pc'[v] # "idle" /\ status'[run'[v]] \in Settled
    <3>1. CASE v = w
      <4>1. sawStatus[w] \notin Final
        BY <2>1 DEF RowInv
      <4>2. pc'[w] \notin {"idle", "fail", "failCommit"} => status'[r] = "RUNNING"
        BY <2>2 DEF TypeOK
      <4> QED BY <2>1, <3>1, <4>1, <4>2 DEF Begun
    <3>2. CASE v # w
      <4>1. pc'[v] = pc[v] /\ run'[v] = run[v] /\ sawStatus'[v] = sawStatus[v]
        BY <2>1, <2>2, <3>2 DEF TypeOK
      <4> QED BY <1>0, <1>r, <4>1 DEF RowInv, Begun
    <3> QED BY <3>1, <3>2
  <2> QED BY <2>3, <2>4 DEF RowInv
<1>4. ASSUME NEW w \in Worker, Inner(w) PROVE RowInv'
  <2>1. UNCHANGED <<status, run>>
    BY <1>4, InnerIs
  <2>2. ASSUME NEW v \in Worker
        PROVE  /\ pc'[v] \notin {"idle", "fail", "failCommit"} => Begun(run[v])
               /\ sawStatus'[v] \in Final => pc'[v] # "idle" /\ status[run[v]] \in Settled
    <3>1. CASE v = w
      BY <1>4, <3>1, InnerIs DEF RowInv, Settled, Final
    <3>2. CASE v # w
      BY <1>4, <3>2, InnerIs DEF RowInv
    <3> QED BY <3>1, <3>2
  <2> QED BY <2>1, <2>2 DEF RowInv, Begun
<1>5. ASSUME NEW w \in Worker, Leave(w), run[w] \in Run, status'[run[w]] \in Settled,
             \A r \in Run : r # run[w] => status'[r] = status[r]
      PROVE  RowInv'
  <2>1. ASSUME NEW q \in Run, status'[q] = "RUNNING" PROVE \E v \in Worker : run'[v] = q
    <3>1. q # run[w] /\ status[q] = "RUNNING"
      BY <1>5, <2>1 DEF Settled, Final
    <3>2. PICK v \in Worker : run[v] = q
      BY <3>1 DEF RowInv
    <3> QED BY <1>5, <3>1, <3>2, LeaveIs
  <2>2. ASSUME NEW v \in Worker
        PROVE  /\ pc'[v] \notin {"idle", "fail", "failCommit"} => Begun(run[v])'
               /\ sawStatus'[v] \in Final => pc'[v] # "idle" /\ status'[run'[v]] \in Settled
    <3>1. CASE v = w
      BY <1>5, <3>1, LeaveIs DEF Final
    <3>2. CASE v # w
      <4>1. pc'[v] = pc[v] /\ run'[v] = run[v] /\ sawStatus'[v] = sawStatus[v]
        BY <1>5, <3>2, LeaveIs
      <4> QED BY <1>0, <1>r, <4>1 DEF RowInv, Begun
    <3> QED BY <3>1, <3>2
  <2> QED BY <2>1, <2>2 DEF RowInv
<1>6. ASSUME NEW w \in Worker, Execute(w) PROVE RowInv'
  <2>1. CASE PersistCommit(w) \/ FailCommit(w)
    BY <1>5, <2>1, Closes
  <2>2. CASE /\ Leave(w) /\ UNCHANGED status /\ pc[w] = "fail"
             /\ status[run[w]] \in {"COMPLETED", "CANCELLED"}
    BY <1>5, <1>r, <2>2 DEF Settled, Final
  <2> QED BY <1>4, <1>6, <2>1, <2>2, ExecuteIs
<1>7. CASE UNCHANGED vars
  BY <1>1, <1>7 DEF vars, jobVars, copyVars, rowVars
<1> QED BY <1>2, <1>3, <1>6, <1>7 DEF QuietNext

-----------------------------------------------------------------------------
(* The dispatch *)

\* A consumer that dies of a failed seek executes nothing at that time.
LEMMA QuietStep ==
  ASSUME Faults \cap {"crash", "escape"} = {}, KInv, WorkInv, [KafkaNext]_kafkaVars
  PROVE  [QuietNext]_vars
<1>1. ASSUME NEW w \in Worker, at[w] \notin {"down", "fetch"} PROVE Record(w) \in Run
  BY <1>1, RecordIsRun
<1>2. CASE Cancellation \/ TimePasses \/ UNCHANGED kafkaVars \/ Revoke
  BY <1>2, KafkaAssumption DEF Cancellation, TimePasses, Revoke, kafkaVars, QuietNext
<1>3. ASSUME NEW r \in Run, Request(r) \/ Replay(r) \/ Due(r) PROVE [QuietNext]_vars
  BY <1>3 DEF Request, Replay, Due, QuietNext
<1>4. ASSUME NEW p \in Publisher, Publish(p) \/ PubCrash(p) PROVE UNCHANGED vars
  BY <1>4 DEF Publish, PubClaim, Send, SendRaises, MarkRead, MarkPublished, MarkError, PubCrash
<1>5. ASSUME NEW w \in Worker,
             Start(w) \/ Fetch(w) \/ Check(w) \/ FailureRead(w) \/ FailureCommit(w) \/ DeadLetter(w)
               \/ MarkProcessed(w) \/ Raises(w) \/ Commit(w) \/ Seek(w) \/ Join(w)
      PROVE  UNCHANGED vars
  BY <1>5 DEF Start, Fetch, Check, FailureRead, FailureCommit, DeadLetter, MarkProcessed,
       Raises, Commit, Seek, Join
<1>6. ASSUME NEW w \in Worker, Claim(w) PROVE [QuietNext]_vars
  BY <1>1, <1>6 DEF Claim, QuietNext
<1>7. ASSUME NEW w \in Worker, Work(w) PROVE [QuietNext]_vars
  BY <1>7 DEF Work, Inside, QuietNext
<1>8. ASSUME NEW w \in Worker, SeekUnassigned(w) PROVE UNCHANGED vars
  <2>1. pc[w] = "idle"
    BY <1>8 DEF SeekUnassigned, WorkInv
  <2> QED BY <1>8, <2>1 DEF SeekUnassigned, Die, Stop
<1>9. ASSUME NEW w \in Worker, Escape(w) \/ Crash(w) PROVE FALSE
  BY <1>9 DEF Escape, Crash
<1> QED BY <1>2, <1>3, <1>4, <1>5, <1>6, <1>7, <1>8, <1>9 DEF KafkaNext, Consume

LEMMA RecordStays ==
  ASSUME KInv, NEW w \in Worker, at[w] \notin {"down", "fetch"}, offset'[w] = offset[w],
         topic' = topic \/ \E r \in Run : topic' = Append(topic, r)
  PROVE  Record(w)' = Record(w)
<1>1. offset[w] \in 1 .. Len(topic) /\ topic \in Seq(Run)
  BY RecordIsRun DEF KInv, ConsumerTypes
<1> QED BY <1>1, AppendFacts DEF Record

\* The consumers stay where they are; a run may move on, the topic grow.
LEMMA HandsStay ==
  ASSUME KInv, WorkInv, \A r \in Run : Begun(r) => Begun(r)',
         UNCHANGED <<pc, run, at, offset, inbox>>,
         topic' = topic \/ \E r \in Run : topic' = Append(topic, r)
  PROVE  WorkInv'
<1>1. ASSUME NEW w \in Worker, at[w] \in {"execute", "mark"}
      PROVE  Record(w)' = Record(w) /\ Record(w) \in Run
  BY <1>1, RecordStays, RecordIsRun
<1>2. inbox \subseteq Run
  BY DEF KInv, InboxTypes
<1> QED BY <1>1, <1>2 DEF WorkInv

\* A consumer goes to l and to record k, and no run moves.
LEMMA HandMoves ==
  ASSUME KInv, WorkInv, NEW w \in Worker, NEW l, NEW k, l \notin {"execute", "mark"},
         at[w] # "execute", at' = [at EXCEPT ![w] = l],
         offset' = [offset EXCEPT ![w] = k],
         inbox' = inbox \/ (at[w] = "mark" /\ inbox' = inbox \cup {Record(w)}),
         UNCHANGED <<vars, topic>>
  PROVE  WorkInv'
<1>1. UNCHANGED <<pc, run, status>>
  BY DEF vars, jobVars, rowVars
<1>2. \A r \in inbox' : Begun(r)
  BY DEF WorkInv
<1>3. at \in [Worker -> Place] /\ offset \in [Worker -> 0 .. Len(topic)]
  BY DEF KInv, ConsumerTypes
<1>4. ASSUME NEW v \in Worker
      PROVE  /\ at'[v] = "execute" <=> pc[v] # "idle"
             /\ at'[v] = "execute" => run[v] = Record(v)'
             /\ at'[v] = "mark" => Begun(Record(v)')
  <2>1. CASE v = w
    BY <1>3, <2>1 DEF WorkInv
  <2>2. CASE v # w
    BY <1>3, <2>2 DEF WorkInv, Record
  <2> QED BY <2>1, <2>2
<1> QED BY <1>1, <1>2, <1>4 DEF WorkInv, Begun

\* A consumer goes on to execute or to mark the record it has.
LEMMA HandWorks ==
  ASSUME KInv, WorkInv, NEW w \in Worker, NEW l \in {"execute", "mark"},
         at[w] \notin {"down", "fetch"}, at' = [at EXCEPT ![w] = l],
         \A r \in Run : Begun(r) => Begun(r)',
         \A v \in Worker : v # w => pc'[v] = pc[v] /\ run'[v] = run[v],
         l = "execute" <=> pc'[w] # "idle",
         l = "execute" => run'[w] = Record(w),
         l = "mark" => Begun(Record(w))',
         UNCHANGED <<offset, inbox, topic>>
  PROVE  WorkInv'
<1>1. \A v \in Worker : Record(v)' = Record(v)
  BY DEF Record
<1>2. at \in [Worker -> Place] /\ inbox \subseteq Run
  BY DEF KInv, ConsumerTypes, InboxTypes
<1>3. ASSUME NEW v \in Worker
      PROVE  /\ at'[v] = "execute" <=> pc'[v] # "idle"
             /\ at'[v] = "execute" => run'[v] = Record(v)
             /\ at'[v] = "mark" => Begun(Record(v))'
  <2>1. CASE v = w
    BY <1>2, <2>1
  <2>2. CASE v # w
    <3>1. at[v] = "mark" => Record(v) \in Run
      BY RecordIsRun
    <3> QED BY <1>1, <1>2, <2>2, <3>1 DEF WorkInv
  <2> QED BY <2>1, <2>2
<1> QED BY <1>1, <1>2, <1>3 DEF WorkInv

LEMMA ClaimHand ==
  ASSUME TypeOK, RowInv, KInv, WorkInv, KnownInv, NEW w \in Worker, Claim(w),
         \A r \in Run : Begun(r) => Begun(r)'
  PROVE  WorkInv'
<1> DEFINE r == Record(w)
<1>1. /\ at[w] = "claim" /\ pc[w] = "idle" /\ r \in Run /\ r \in Sent
      /\ UNCHANGED <<offset, inbox, topic>>
  BY RecordIsRun DEF Claim, WorkInv, Sent, Record, inboxVars
<1>2. CASE (ClaimRun(w, r) \/ ClaimRaises(w, r)) /\ ToAt(w, "execute")
  <2>1. /\ \A v \in Worker : v # w => pc'[v] = pc[v] /\ run'[v] = run[v]
        /\ pc'[w] # "idle" /\ run'[w] = r
    BY <1>2 DEF ClaimRun, ClaimRaises, ToPc, TypeOK
  <2> HIDE DEF r
  <2> QED BY <1>1, <1>2, <2>1, HandWorks DEF ToAt, r
<1>3. CASE (ClaimCancelled(r) \/ (ClaimRefused(r) /\ UNCHANGED vars)) /\ ToAt(w, "mark")
  <2>1. UNCHANGED <<pc, run>>
    BY <1>3 DEF ClaimCancelled, vars, jobVars
  <2>2. Begun(r)'
    <3>1. CASE ClaimCancelled(r)
      <4>1. status'[r] = "CANCELLED" /\ r' = r
        BY <1>1, <3>1 DEF ClaimCancelled, TypeOK, Record
      <4> HIDE DEF r
      <4> QED BY <4>1 DEF Begun
    <3>2. CASE ClaimRefused(r) /\ UNCHANGED vars
      <4>1. status[r] # "ABSENT" /\ status' = status /\ r' = r
        BY <1>1, <3>2 DEF KnownInv, vars, rowVars, Record
      <4>2. CASE \E v \in Worker : pc[v] = "commit" /\ run[v] = r
        BY <4>1, <4>2 DEF RowInv, Begun
      <4>3. CASE status[r] \in {"ABSENT"} \cup Final \/ status[r] = "RUNNING"
        BY <4>1, <4>3 DEF Begun, Final
      <4> QED BY <3>2, <4>2, <4>3 DEF ClaimRefused
    <3> QED BY <1>3, <3>1, <3>2
  <2> QED BY <1>1, <1>3, <2>1, <2>2, HandWorks DEF ToAt
<1> QED BY <1>2, <1>3 DEF Claim

LEMMA WorkHand ==
  ASSUME TypeOK, PlaceInv, RowInv, KInv, WorkInv, NEW w \in Worker, Work(w),
         \A r \in Run : Begun(r) => Begun(r)'
  PROVE  WorkInv'
<1>1. /\ at[w] = "execute" /\ run[w] = Record(w) /\ pc[w] # "idle" /\ run[w] \in Run
      /\ Execute(w) /\ UNCHANGED <<offset, inbox, topic>>
      /\ at \in [Worker -> Place]
  BY RecordIsRun DEF Work, Inside, WorkInv, inboxVars, KInv, ConsumerTypes
<1>2. CASE Inner(w)
  <2>1. /\ pc'[w] # "idle" /\ run' = run
        /\ \A v \in Worker : v # w => pc'[v] = pc[v]
    BY <1>2, InnerIs
  <2>2. at' = [at EXCEPT ![w] = "execute"]
    BY <1>1, <2>1 DEF Work, Inside
  <2> QED BY <1>1, <2>1, <2>2, HandWorks
<1>3. CASE Leave(w) /\ status'[run[w]] \in Settled
  <2>1. /\ pc'[w] = "idle"
        /\ \A v \in Worker : v # w => pc'[v] = pc[v] /\ run'[v] = run[v]
    BY <1>3, LeaveIs
  <2>2. at' = [at EXCEPT ![w] = "mark"]
    BY <1>1, <2>1 DEF Work, Inside, ToAt
  <2>3. Begun(Record(w))'
    BY <1>1, <1>3 DEF Begun, Settled, Final, Record
  <2> QED BY <1>1, <2>1, <2>2, <2>3, HandWorks
<1> QED BY <1>1, <1>2, <1>3, ExecuteIs, Closes DEF Settled, Final

LEMMA HandStep ==
  ASSUME Faults \cap {"crash", "escape"} = {}, TypeOK, PlaceInv, RowInv, KInv, WorkInv, KnownInv,
         [KafkaNext]_kafkaVars
  PROVE  WorkInv'
<1>0. \A r \in Run : Begun(r) => Begun(r)'
  BY QuietStep, StatusMoves, OnwardKeeps
<1>1. CASE Cancellation \/ TimePasses \/ UNCHANGED kafkaVars \/ Revoke
  <2>1. UNCHANGED <<pc, run, at, offset, inbox, topic>>
    BY <1>1 DEF Cancellation, CancelRead, CancelCommit, TimePasses, LeaseExpires, Revoke,
         kafkaVars, vars, jobVars, consumerVars, inboxVars
  <2> QED BY <1>0, <2>1, HandsStay
<1>2. ASSUME NEW r \in Run, Request(r) \/ Replay(r) \/ Due(r) PROVE WorkInv'
  <2>1. UNCHANGED <<pc, run, at, offset, inbox, topic>>
    BY <1>2 DEF Request, Replay, Create, Due, vars, jobVars, consumerVars, inboxVars
  <2> QED BY <1>0, <2>1, HandsStay
<1>3. ASSUME NEW p \in Publisher, Publish(p) \/ PubCrash(p) PROVE WorkInv'
  <2>1. UNCHANGED <<pc, run, at, offset, inbox>>
    BY <1>3 DEF Publish, PubClaim, Send, SendRaises, MarkRead, MarkPublished, MarkError, PubCrash,
         vars, jobVars, consumerVars, inboxVars
  <2>2. topic' = topic \/ \E r \in Run : topic' = Append(topic, r)
    <3>1. CASE Send(p) \/ SendRaises(p)
      BY <3>1 DEF Send, SendRaises, KInv, PublisherTypes
    <3>2. CASE PubClaim(p) \/ MarkRead(p) \/ MarkPublished(p) \/ MarkError(p) \/ PubCrash(p)
      BY <3>2 DEF PubClaim, MarkRead, MarkPublished, MarkError, PubCrash
    <3> QED BY <1>3, <3>1, <3>2 DEF Publish
  <2> QED BY <1>0, <2>1, <2>2, HandsStay
<1>4. ASSUME NEW w \in Worker, Join(w) PROVE WorkInv'
  <2>1. UNCHANGED <<pc, run, at, offset, inbox, topic>>
    BY <1>4 DEF Join, vars, jobVars, inboxVars
  <2> QED BY <1>0, <2>1, HandsStay
<1>5. ASSUME NEW w \in Worker, Claim(w) \/ Work(w) PROVE WorkInv'
  BY <1>0, <1>5, ClaimHand, WorkHand
<1>6. ASSUME NEW w \in Worker,
             Start(w) \/ Check(w) \/ FailureRead(w) \/ FailureCommit(w) \/ DeadLetter(w)
               \/ MarkProcessed(w) \/ Raises(w)
      PROVE  WorkInv'
  <2>1. PICK l \in {"fetch", "commit", "claim", "record", "seek", "dead"} :
          at' = [at EXCEPT ![w] = l]
    BY <1>6 DEF Start, Check, FailureRead, FailureCommit, DeadLetter, MarkProcessed, Raises, ToAt
  <2>2. /\ at[w] # "execute" /\ offset' = offset /\ UNCHANGED <<vars, topic>>
        /\ inbox' = inbox \/ (at[w] = "mark" /\ inbox' = inbox \cup {Record(w)})
    BY <1>6 DEF Start, Check, FailureRead, FailureCommit, DeadLetter, MarkProcessed, Raises, inboxVars
  <2>3. offset' = [offset EXCEPT ![w] = offset[w]]
    BY <2>2 DEF KInv, ConsumerTypes
  <2> QED BY <2>1, <2>2, <2>3, HandMoves
<1>7. ASSUME NEW w \in Worker, Fetch(w) \/ Commit(w) \/ Seek(w) PROVE WorkInv'
  <2>1. /\ at[w] # "execute" /\ inbox' = inbox /\ UNCHANGED <<vars, topic>>
        /\ \E l \in {"check", "fetch"}, k \in {0, position[w] + 1} :
             at' = [at EXCEPT ![w] = l] /\ offset' = [offset EXCEPT ![w] = k]
    BY <1>7 DEF Fetch, Commit, Seek, NextRecord, ToAt, inboxVars
  <2> QED BY <2>1, HandMoves
<1>8. ASSUME NEW w \in Worker, SeekUnassigned(w) PROVE WorkInv'
  <2>1. at[w] = "seek" /\ pc[w] = "idle"
    BY <1>8 DEF SeekUnassigned, WorkInv
  <2>2. /\ inbox' = inbox /\ UNCHANGED <<vars, topic>> /\ offset' = [offset EXCEPT ![w] = 0]
        /\ \E l \in {"down", "fetch"} : at' = [at EXCEPT ![w] = l]
    BY <1>8, <2>1 DEF SeekUnassigned, Die, Stop, NextRecord, ToAt, inboxVars
  <2> QED BY <2>1, <2>2, HandMoves
<1>9. ASSUME NEW w \in Worker, Escape(w) \/ Crash(w) PROVE FALSE
  BY <1>9 DEF Escape, Crash
<1> QED BY <1>1, <1>2, <1>3, <1>4, <1>5, <1>6, <1>7, <1>8, <1>9 DEF KafkaNext, Consume

LEMMA KnownStep ==
  ASSUME TypeOK, KInv, KnownInv, [KafkaNext]_kafkaVars,
         \A r \in Run : status[r] # "ABSENT" => status'[r] # "ABSENT"
  PROVE  KnownInv'
<1>0. outbox \in Seq(Run) /\ topic \in Seq(Run) /\ Queued \subseteq Run /\ Sent \subseteq Run
  BY DEF KInv, OutboxTypes, ConsumerTypes, Queued, Sent
<1>1. ASSUME Queued' \subseteq Queued, Sent' \subseteq Sent,
             \A p \in Publisher : pubAt'[p] # "idle" => pubAt[p] # "idle" /\ pubRun'[p] = pubRun[p]
      PROVE  KnownInv'
  BY <1>0, <1>1 DEF KnownInv, KInv, PublisherTypes
<1>2. ASSUME UNCHANGED <<outbox, topic, pubAt, pubRun>> PROVE KnownInv'
  BY <1>1, <1>2 DEF Queued, Sent
<1>3. CASE Cancellation \/ TimePasses \/ UNCHANGED kafkaVars \/ Revoke
  BY <1>2, <1>3 DEF Cancellation, TimePasses, Revoke, kafkaVars, outboxVars, publisherVars
<1>4. ASSUME NEW r \in Run, Request(r) PROVE KnownInv'
  <2>1. /\ outbox' = Append(outbox, r) /\ status'[r] = "QUEUED"
        /\ UNCHANGED <<topic, pubAt, pubRun>>
    BY <1>4 DEF Request, Create, TypeOK, publisherVars
  <2>2. Queued' \subseteq Queued \cup {r} /\ Sent' = Sent
    BY <1>0, <2>1, AppendFacts DEF Queued, Sent
  <2> QED BY <1>0, <2>1, <2>2 DEF KnownInv, KInv, PublisherTypes
<1>5. ASSUME NEW r \in Run, Replay(r) \/ Due(r) PROVE KnownInv'
  BY <1>2, <1>5 DEF Replay, Due, outboxVars, publisherVars
<1>6. ASSUME NEW p \in Publisher, PubClaim(p) PROVE KnownInv'
  <2>1. /\ UNCHANGED <<outbox, topic>> /\ status' = status
        /\ \E r \in Queued : pubRun' = [pubRun EXCEPT ![p] = r]
        /\ pubAt' = [pubAt EXCEPT ![p] = "send"]
    BY <1>6 DEF PubClaim, ToPub, Queued, vars, rowVars
  <2> QED BY <2>1 DEF KnownInv, KInv, PublisherTypes, Queued, Sent
<1>7. ASSUME NEW p \in Publisher, Send(p) \/ SendRaises(p) PROVE KnownInv'
  <2>1. /\ pubAt[p] = "send" /\ pubRun[p] \in Run /\ status[pubRun[p]] # "ABSENT"
        /\ UNCHANGED <<outbox, pubRun>> /\ status' = status
        /\ topic' \in {topic, Append(topic, pubRun[p])}
        /\ \E l \in {"sent", "raised"} : pubAt' = [pubAt EXCEPT ![p] = l]
    BY <1>7 DEF Send, SendRaises, ToPub, KnownInv, KInv, PublisherTypes, vars, rowVars, outboxVars
  <2>2. Sent' \subseteq Sent \cup {pubRun[p]} /\ Queued' = Queued
    BY <1>0, <2>1, AppendFacts DEF Sent, Queued
  <2> QED BY <2>1, <2>2 DEF KnownInv, KInv, PublisherTypes
<1>8. ASSUME NEW p \in Publisher, MarkRead(p) PROVE KnownInv'
  <2>1. /\ pubAt[p] # "idle" /\ UNCHANGED <<outbox, topic, pubRun>>
        /\ \E l \in PubPlace : pubAt' = [pubAt EXCEPT ![p] = l]
    BY <1>8 DEF MarkRead, ToPub, PubPlace, outboxVars
  <2> QED BY <1>1, <2>1 DEF Queued, Sent, KInv, PublisherTypes
<1>9. ASSUME NEW p \in Publisher, MarkPublished(p) \/ MarkError(p) \/ PubCrash(p) PROVE KnownInv'
  <2>1. UNCHANGED <<outbox, topic>> /\ PubIdle(p)
    BY <1>9 DEF MarkPublished, MarkError, PubCrash, outboxVars
  <2> QED BY <1>1, <2>1 DEF PubIdle, ToPub, Queued, Sent, KInv, PublisherTypes
<1>10. ASSUME NEW w \in Worker, Consume(w) \/ Join(w) \/ Escape(w) \/ Crash(w) PROVE KnownInv'
  <2>1. UNCHANGED <<outboxVars, publisherVars, topic>>
    BY <1>10 DEF Consume, Start, Fetch, Check, Claim, Work, Inside, FailureRead, FailureCommit,
         DeadLetter, MarkProcessed, Raises, Commit, Seek, SeekUnassigned, Die, Join, Escape, Crash
  <2> QED BY <1>2, <2>1 DEF outboxVars, publisherVars
<1> QED BY <1>3, <1>4, <1>5, <1>6, <1>7, <1>8, <1>9, <1>10 DEF KafkaNext, Publish

\* If no consumer dies and execute never raises, the run of an event in the
\* inbox has ended or has a worker, however often the partition moves
\* (KafkaRunWorker.process_event).
THEOREM ProcessedHandled ==
  ASSUME Faults \cap {"crash", "escape"} = {}
  PROVE  KafkaSafe => []ProcessedIsHandled
<1> DEFINE Inv == KInv /\ IInv /\ RowInv /\ WorkInv /\ KnownInv
<1>1. KafkaInit => Inv
  BY InitKInv, InitIInv, InitWork DEF KafkaInit
<1>2. Inv /\ [KafkaNext]_kafkaVars => Inv'
  <2> SUFFICES ASSUME Inv, [KafkaNext]_kafkaVars PROVE Inv'
    OBVIOUS
  <2>1. KInv' /\ IInv'
    BY KStep, KafkaRestrictsStep, IInvStep
  <2>2. TypeOK /\ PlaceInv
    BY DEF IInv
  <2>3. RowInv' /\ WorkInv'
    BY <2>2, QuietStep, RowStep, HandStep
  <2>4. KnownInv'
    BY <2>2, QuietStep, StatusMoves, OnwardKeeps, KnownStep
  <2> QED BY <2>1, <2>3, <2>4
<1>3. Inv => ProcessedIsHandled
  BY DEF ProcessedIsHandled, WorkInv, RowInv, KInv, InboxTypes, Begun
<1> QED BY <1>1, <1>2, <1>3, PTL DEF KafkaSafe
=============================================================================
