-------------------------- MODULE PipelineDelivery --------------------------
(***************************************************************************)
(* The pipeline implements AtLeastOnce, proved for every instance: what    *)
(* each step does to the set of messages the broker is responsible for.    *)
(* Most steps leave that set alone (Settles), a first publication adds one *)
(* message to it (Posts), and only an acknowledgement takes one away       *)
(* (Acks).  Delivery says so of every step; the rest follows from it.      *)
(***************************************************************************)
EXTENDS PipelineSafety

\* The data-access functions of the workers are expanded in every proof.
USE DEF OcrUpdateStatus, OcrRecordEvent, OcrRecordProcessed,
        ChunkUpdateStatus, ChunkRecordEvent, ChunkRecordProcessed,
        EmbedUpdateDocument, EmbedRecordEvent, EmbedRecordProcessed

FullInv == AllInv /\ DeliveryInv

\* An open channel keeps a delivery with the broker.
Holds(s, id) == pc[s] # "idle" /\ linked[s] /\ held[s].id = id

\* The messages with a copy somewhere stay the same.
Settles ==
    /\ sent' = sent
    /\ \A id \in sent : Unsettled(id)' <=> Unsettled(id)

\* A message that was never published is, and no other one moves.
Posts ==
    /\ UNCHANGED <<status, stamped>>
    /\ \E id \in MessageIds \ sent :
          /\ sent' = sent \cup {id}
          /\ Unsettled(id)'
          /\ \A k \in sent : Unsettled(k)' <=> Unsettled(k)
          /\ id.stage = "chunk" => pc'["ocr"] # "handoff"
          /\ id.stage = "embed" => id.serial <= minted'[id.doc]

\* A delivery is acknowledged, and no other message moves.
Acks ==
    /\ UNCHANGED <<sent, mainq, retryq, dlq, status, stamped>>
    /\ \E s \in Stages :
          /\ pc[s] = "ack"
          /\ linked[s]
          /\ \A id \in sent \ {held[s].id} : Unsettled(id)' <=> Unsettled(id)

Delivery ==
    /\ \A d \in Docs : minted'[d] >= minted[d]
    /\ Settles \/ Posts \/ Acks

-----------------------------------------------------------------------------

\* Unsettled, with the copies in queues and in workers' hands told apart.
LEMMA UnsettledParts ==
    ASSUME NEW id
    PROVE  Unsettled(id) <=> \/ \E m \in Messages : m.id = id /\ InQueue(m)
                             \/ \E s \in Stages : Holds(s, id)
BY DEF Unsettled, Holds

\* The types the proofs below use.
LEMMA DeliveryTypes ==
    ASSUME AllInv
    PROVE  /\ pc \in [Stages -> Labels]
           /\ held \in [Stages -> Messages \cup {NoMessage}]
           /\ linked \in [Stages -> BOOLEAN]
           /\ mainq \in [Messages -> Nat]
           /\ retryq \in [Messages -> Nat]
           /\ dlq \in [Messages -> Nat]
           /\ minted \in [Docs -> 0..MaxSerial]
           /\ sent \subseteq MessageIds
           /\ upload \in [Docs -> {"none", "stored", "committed", "published",
                                   "rejected", "aborted"}]
           /\ objects \in [Docs -> Contents \cup {"none"}]
           /\ status \in [Docs -> Statuses]
BY DEF AllInv, TypeInv, TypeOK, BrokerTypeOK, ConsumerTypeOK, ApiTypeOK,
       StoreTypeOK, Queue

\* The number of minted uuids only grows, in a type that is ordered.
LEMMA MintedStays ==
    ASSUME AllInv, UNCHANGED minted
    PROVE  \A d \in Docs : minted'[d] >= minted[d]
BY DeliveryTypes

\* Steps that move no message.
LEMMA DeliveryQuiet ==
    ASSUME AllInv, UNCHANGED <<mainq, retryq, dlq, sent, minted, held, linked>>,
           \A s \in Stages : pc[s] = "idle" <=> pc'[s] = "idle"
    PROVE  Delivery
<1>1. Settles
  BY DEF Settles, Unsettled, InQueue
<1>2. QED
  BY <1>1, MintedStays DEF Delivery

\* A busy worker that only goes on to its next call moves no message.
LEMMA DeliveryMove ==
    ASSUME AllInv, NEW s \in Stages, pc[s] # "idle", NEW label, label # "idle",
           Goto(s, label), UNCHANGED <<brokerVars, held, linked>>
    PROVE  Delivery
<1>1. \A t \in Stages : pc[t] = "idle" <=> pc'[t] = "idle"
  BY DeliveryTypes DEF Goto
<1>2. QED
  BY <1>1, DeliveryQuiet DEF brokerVars

\* A database write moves no message.
LEMMA DeliveryWrite ==
    ASSUME AllInv, NEW s \in Stages, NEW here, here # "idle", NEW o,
           NEW next, next # "idle", NEW onError, onError # "idle",
           Write(s, here, o, next, onError)
    PROVE  Delivery
BY DeliveryMove DEF Write, jobVars

\* A database read moves no message.
LEMMA DeliveryRead ==
    ASSUME AllInv, NEW s \in Stages, NEW here, here # "idle", NEW o,
           NEW next, next # "idle", NEW onError, onError # "idle",
           Read(s, here, o, next, onError)
    PROVE  Delivery
BY DeliveryMove DEF Read

\* The copy or the dead letter replaces a delivery that is still in hand.
LEMMA DeliveryRetry ==
    ASSUME AllInv, NEW s \in Stages, RetryOrDeadLetter(s)
    PROVE  Delivery
<1> DEFINE h == held[s]
           c == [h EXCEPT !.attempt = @ + 1]
<1>1. /\ pc[s] = "retry" /\ h \in Messages
      /\ pc' = [pc EXCEPT ![s] = "ack"]
      /\ UNCHANGED <<mainq, sent, minted, held, linked>>
      /\ \/ linked[s] /\ dlq' = Add(dlq, h) /\ retryq' = retryq
         \/ linked[s] /\ retryq' = Add(retryq, c) /\ dlq' = dlq
         \/ dlq' = dlq /\ retryq' = retryq
  BY BusyFacts DEF RetryOrDeadLetter, Goto, jobVars
<1>2. c.id = h.id
  BY <1>1 DEF Messages
<1> HIDE DEF h, c
<1>3. ASSUME NEW id
      PROVE  \A t \in Stages : Holds(t, id)' <=> Holds(t, id)
  BY <1>1, DeliveryTypes DEF Holds
<1>4. \A m \in Messages : InQueue(m) => InQueue(m)'
  BY <1>1, DeliveryTypes DEF InQueue, Add
<1>5. ASSUME NEW m \in Messages, InQueue(m)'
      PROVE  InQueue(m) \/ Holds(s, m.id)
  <2>1. InQueue(m) \/ (linked[s] /\ (m = h \/ m = c))
    BY <1>1, <1>5, DeliveryTypes DEF InQueue, Add
  <2>2. QED
    BY <1>1, <1>2, <2>1 DEF Holds, h
<1>6. ASSUME NEW id
      PROVE  Unsettled(id)' <=> Unsettled(id)
  BY <1>3, <1>4, <1>5 DEF Unsettled, Holds
<1>7. QED
  BY <1>1, <1>6, MintedStays DEF Delivery, Settles

\* A rejected delivery is in the delay queue, or was queued again before.
LEMMA DeliveryNack ==
    ASSUME AllInv, NEW s \in Stages, Nack(s)
    PROVE  Delivery
<1> DEFINE h == held[s]
<1>1. /\ pc[s] = "nack" /\ h \in Messages
      /\ pc' = [pc EXCEPT ![s] = "idle"]
      /\ held' = [held EXCEPT ![s] = NoMessage]
      /\ UNCHANGED <<mainq, dlq, sent, minted, linked>>
      /\ retryq' = IF linked[s] THEN Add(retryq, h) ELSE retryq
  BY BusyFacts DEF Nack, Finish, Goto
<1> HIDE DEF h
<1>2. ASSUME NEW id
      PROVE  /\ ~Holds(s, id)'
             /\ \A t \in Stages \ {s} : Holds(t, id)' <=> Holds(t, id)
  BY <1>1, DeliveryTypes DEF Holds
<1>3. \A m \in Messages : InQueue(m) => InQueue(m)'
  BY <1>1, DeliveryTypes DEF InQueue, Add
<1>4. linked[s] => retryq'[h] > 0
  BY <1>1, DeliveryTypes DEF Add
<1>5. ASSUME NEW m \in Messages, InQueue(m)'
      PROVE  InQueue(m) \/ Holds(s, m.id)
  <2>1. InQueue(m) \/ (linked[s] /\ m = h)
    BY <1>1, <1>5, DeliveryTypes DEF InQueue, Add
  <2>2. QED
    BY <1>1, <2>1 DEF Holds, h
<1>6. ASSUME NEW id, Unsettled(id)
      PROVE  Unsettled(id)'
  <2>1. CASE \E m \in Messages : m.id = id /\ InQueue(m)
    BY <1>3, <2>1 DEF Unsettled
  <2>2. CASE Holds(s, id)
    BY <1>1, <1>4, <2>2 DEF Unsettled, InQueue, Holds, h
  <2>3. CASE \E t \in Stages \ {s} : Holds(t, id)
    BY <1>2, <2>3 DEF Unsettled, Holds
  <2>4. QED
    BY <1>6, <2>1, <2>2, <2>3, UnsettledParts
<1>7. ASSUME NEW id, Unsettled(id)'
      PROVE  Unsettled(id)
  BY <1>2, <1>5, <1>7 DEF Unsettled, Holds
<1>8. QED
  BY <1>1, <1>6, <1>7, MintedStays DEF Delivery, Settles

\* An acknowledgement on an open channel is the one step that forgets; on a
\* closed one it says nothing.
LEMMA DeliveryAck ==
    ASSUME AllInv, NEW s \in Stages, Ack(s)
    PROVE  Delivery
<1>1. /\ pc[s] = "ack"
      /\ pc' = [pc EXCEPT ![s] = "idle"]
      /\ held' = [held EXCEPT ![s] = NoMessage]
      /\ UNCHANGED <<mainq, retryq, dlq, sent, minted, linked, status, stamped>>
  BY DEF Ack, Finish, Goto, brokerVars, storeVars
<1>2. ASSUME NEW id
      PROVE  /\ ~Holds(s, id)'
             /\ \A t \in Stages \ {s} : Holds(t, id)' <=> Holds(t, id)
  BY <1>1, DeliveryTypes DEF Holds
<1>3. ASSUME NEW id, ~Holds(s, id)
      PROVE  Unsettled(id)' <=> Unsettled(id)
  BY <1>1, <1>2, <1>3 DEF Unsettled, Holds, InQueue
<1>4. CASE linked[s]
  BY <1>1, <1>3, <1>4, MintedStays DEF Delivery, Acks, Holds
<1>5. CASE ~linked[s]
  BY <1>1, <1>3, <1>5, MintedStays DEF Delivery, Settles, Holds
<1>6. QED
  BY <1>4, <1>5

\* The first publication of a message, by a worker.
LEMMA DeliveryHandoff ==
    ASSUME AllInv, NEW s \in Stages, NEW m \in Messages, Handoff(s, m),
           m.id \notin sent,
           \A d \in Docs : minted'[d] >= minted[d],
           m.id.stage = "chunk" => s = "ocr",
           m.id.stage = "embed" => m.id.serial <= minted'[m.id.doc]
    PROVE  Delivery
<1>1. /\ pc[s] = "handoff"
      /\ pc' = [pc EXCEPT ![s] = "ack"]
      /\ UNCHANGED <<retryq, dlq, held, linked, status, stamped>>
      /\ IF linked[s] THEN mainq' = Add(mainq, m) /\ sent' = sent \cup {m.id}
         ELSE mainq' = mainq /\ sent' = sent
  BY DEF Handoff, Publish, Goto, jobVars, storeVars
<1>2. ASSUME NEW id
      PROVE  \A t \in Stages : Holds(t, id)' <=> Holds(t, id)
  BY <1>1, DeliveryTypes DEF Holds
<1>3. CASE ~linked[s]
  <2>1. \A id \in sent : Unsettled(id)' <=> Unsettled(id)
    BY <1>1, <1>2, <1>3 DEF Unsettled, InQueue, Holds
  <2>2. QED
    BY <1>1, <1>3, <2>1 DEF Delivery, Settles
<1>4. CASE linked[s]
  <2>1. mainq' = Add(mainq, m) /\ sent' = sent \cup {m.id}
    BY <1>1, <1>4
  <2>2. \A k \in Messages \ {m} : InQueue(k)' <=> InQueue(k)
    BY <1>1, <2>1, DeliveryTypes DEF InQueue, Add
  <2>3. mainq'[m] > 0
    BY <2>1, DeliveryTypes DEF Add
  <2>4. ASSUME NEW id \in sent PROVE Unsettled(id)' <=> Unsettled(id)
    BY <1>2, <2>2, <2>4 DEF Unsettled, Holds
  <2>5. Unsettled(m.id)'
    BY <2>3 DEF Unsettled, InQueue
  <2>6. /\ m.id \in MessageIds
        /\ m.id.stage = "chunk" => pc'["ocr"] # "handoff"
    BY <1>1, MessageFields, DeliveryTypes
  <2>7. Posts
    BY <1>1, <2>1, <2>4, <2>5, <2>6 DEF Posts
  <2>8. QED
    BY <2>7 DEF Delivery
<1>5. QED
  BY <1>3, <1>4

\* A delivery moves a copy from its queue to a worker on an open channel.
LEMMA DeliveryDeliver ==
    ASSUME AllInv, NEW s \in Stages, NEW m \in Messages, Deliver(s, m)
    PROVE  Delivery
<1>1. /\ pc[s] = "idle" /\ linked[s] /\ mainq[m] > 0
      /\ pc' = [pc EXCEPT ![s] = "check"]
      /\ held' = [held EXCEPT ![s] = m]
      /\ mainq' = Remove(mainq, m)
      /\ UNCHANGED <<retryq, dlq, sent, minted, linked>>
  BY DEF Deliver, Goto
<1>2. ASSUME NEW id
      PROVE  /\ ~Holds(s, id)
             /\ Holds(s, id)' <=> m.id = id
             /\ \A t \in Stages \ {s} : Holds(t, id)' <=> Holds(t, id)
  BY <1>1, DeliveryTypes DEF Holds
<1>3. InQueue(m)
  BY <1>1 DEF InQueue
<1>4. \A k \in Messages \ {m} : InQueue(k)' <=> InQueue(k)
  BY <1>1, DeliveryTypes DEF InQueue, Remove
<1>5. ASSUME NEW id PROVE Unsettled(id)' <=> Unsettled(id)
  <2>1. CASE id = m.id
    BY <1>2, <1>3, <2>1 DEF Unsettled, Holds
  <2>2. CASE id # m.id
    BY <1>2, <1>4, <2>2 DEF Unsettled, Holds
  <2>3. QED
    BY <2>1, <2>2
<1>6. QED
  BY <1>1, <1>5, MintedStays DEF Delivery, Settles

\* The end of a TTL moves a copy from the delay queue to the main queue.
LEMMA DeliveryExpire ==
    ASSUME AllInv, NEW m \in Messages, Expire(m), UNCHANGED consumerVars
    PROVE  Delivery
<1>1. /\ retryq[m] > 0
      /\ retryq' = Remove(retryq, m)
      /\ mainq' = Add(mainq, m)
      /\ UNCHANGED <<dlq, sent, minted, pc, held, linked>>
  BY DEF Expire, consumerVars, jobVars
<1>2. \A k \in Messages : InQueue(k)' <=> InQueue(k)
  BY <1>1, DeliveryTypes DEF InQueue, Add, Remove
<1>3. QED
  BY <1>1, <1>2, MintedStays DEF Delivery, Settles, Unsettled

\* A crash or a lost channel puts a delivery back that was still in hand.
LEMMA DeliveryDisrupt ==
    ASSUME AllInv, NEW s \in Stages, DisruptStep(s)
    PROVE  Delivery
<1> DEFINE h == held[s]
<1>1. pc[s] # "idle" /\ h \in Messages
  BY BusyFacts DEF DisruptStep, Crash, Disconnect
<1>2. /\ mainq' = IF linked[s] THEN Add(mainq, h) ELSE mainq
      /\ UNCHANGED <<retryq, dlq, sent, minted>>
      /\ \A t \in Stages \ {s} : /\ pc'[t] = pc[t]
                                 /\ held'[t] = held[t]
                                 /\ linked'[t] = linked[t]
      /\ pc'[s] = "idle" \/ linked'[s] = FALSE
  BY DeliveryTypes
     DEF DisruptStep, Crash, Disconnect, Requeue, Finish, Goto, jobVars
<1> HIDE DEF h
<1>3. ASSUME NEW id
      PROVE  /\ ~Holds(s, id)'
             /\ \A t \in Stages \ {s} : Holds(t, id)' <=> Holds(t, id)
  BY <1>2 DEF Holds
<1>4. \A m \in Messages : InQueue(m) => InQueue(m)'
  BY <1>1, <1>2, DeliveryTypes DEF InQueue, Add
<1>5. linked[s] => mainq'[h] > 0
  BY <1>1, <1>2, DeliveryTypes DEF Add
<1>6. ASSUME NEW m \in Messages, InQueue(m)'
      PROVE  InQueue(m) \/ Holds(s, m.id)
  <2>1. InQueue(m) \/ (linked[s] /\ m = h)
    BY <1>1, <1>2, <1>6, DeliveryTypes DEF InQueue, Add
  <2>2. QED
    BY <1>1, <2>1 DEF Holds, h
<1>7. ASSUME NEW id, Unsettled(id)
      PROVE  Unsettled(id)'
  <2>1. CASE \E m \in Messages : m.id = id /\ InQueue(m)
    BY <1>4, <2>1 DEF Unsettled
  <2>2. CASE Holds(s, id)
    BY <1>1, <1>5, <2>2 DEF Unsettled, InQueue, Holds, h
  <2>3. CASE \E t \in Stages \ {s} : Holds(t, id)
    BY <1>3, <2>3 DEF Unsettled, Holds
  <2>4. QED
    BY <1>7, <2>1, <2>2, <2>3, UnsettledParts
<1>8. ASSUME NEW id, Unsettled(id)'
      PROVE  Unsettled(id)
  BY <1>3, <1>6, <1>8 DEF Unsettled, Holds
<1>9. QED
  BY <1>2, <1>7, <1>8, MintedStays DEF Delivery, Settles

\* A new channel is opened only by a worker without a delivery.
LEMMA DeliveryReconnect ==
    ASSUME AllInv, NEW s \in Stages, ReconnectStep(s)
    PROVE  Delivery
<1>1. /\ pc[s] = "idle"
      /\ linked' = [linked EXCEPT ![s] = TRUE]
      /\ UNCHANGED <<mainq, retryq, dlq, sent, minted, pc, held>>
  BY DEF ReconnectStep, Reconnect, brokerVars, jobVars
<1>2. ASSUME NEW id PROVE Unsettled(id)' <=> Unsettled(id)
  BY <1>1, DeliveryTypes DEF Unsettled, InQueue
<1>3. QED
  BY <1>1, <1>2, MintedStays DEF Delivery, Settles

\* CreateDocument publishes the ocr message once: an upload that was published
\* is not committed any more.
LEMMA DeliveryApi ==
    ASSUME AllInv, ApiStep
    PROVE  Delivery
<1>1. PICK d \in Docs : ApiHandle(d)
  BY DEF ApiStep
<1>2. UNCHANGED <<pc, held, linked>>
  BY DEF ApiStep, consumerVars, jobVars
<1>3. CASE EnqueueFirstStage(d)
  <2> DEFINE m == FirstAttempt(OcrId(d))
  <2>1. /\ m \in Messages /\ m.id = OcrId(d) /\ OcrId(d) \in MessageIds
        /\ OcrId(d).stage = "ocr" /\ OcrId(d).doc = d
    <3>1. 1 \in 1..MaxSerial
      BY IngestAssumption
    <3>2. QED
      BY <3>1, FirstMessages DEF FirstAttempt, OcrId
  <2>2. /\ upload[d] = "committed"
        /\ mainq' = Add(mainq, m) /\ sent' = sent \cup {m.id}
        /\ UNCHANGED <<retryq, dlq, minted, status, stamped>>
    BY <1>3 DEF EnqueueFirstStage, Publish, Progress, storeVars
  <2>3. OcrId(d) \notin sent
    BY <2>1, <2>2 DEF AllInv, SafetyInv, MessageInv, SentIsUploaded
  <2> HIDE DEF m
  <2>4. \A k \in Messages \ {m} : InQueue(k)' <=> InQueue(k)
    BY <2>2, DeliveryTypes DEF InQueue, Add
  <2>5. mainq'[m] > 0
    BY <2>1, <2>2, DeliveryTypes DEF Add
  <2>6. ASSUME NEW id \in sent PROVE Unsettled(id)' <=> Unsettled(id)
    BY <1>2, <2>1, <2>3, <2>4, <2>6 DEF Unsettled
  <2>7. Unsettled(OcrId(d))'
    BY <2>1, <2>5 DEF Unsettled, InQueue
  <2>8. Posts
    BY <2>1, <2>2, <2>3, <2>6, <2>7 DEF Posts
  <2>9. QED
    BY <2>2, <2>8, MintedStays DEF Delivery
<1>4. CASE ~EnqueueFirstStage(d)
  BY <1>1, <1>2, <1>4, DeliveryQuiet
     DEF ApiHandle, PutUpload, CommitDocument, RejectDocument, AbortUpload,
         RetryDocument, brokerVars
<1>5. QED
  BY <1>3, <1>4

\* The calls of the OCR worker.
LEMMA DeliveryOcr ==
    ASSUME FullInv, OcrHandle
    PROVE  Delivery
<1> USE DEF Stages, FullInv
<1>1. ASSUME NEW o, OcrCheck(o) \/ OcrFetch(o) PROVE Delivery
  BY <1>1, DeliveryRead DEF OcrCheck, OcrFetch, CheckProcessed, FetchDocument
<1>2. ASSUME NEW o, \/ OcrStart(o) \/ OcrStartEvent(o) \/ OcrComplete(o)
                    \/ OcrCompleteEvent(o) \/ OcrRecord(o) \/ OcrFail(o)
                    \/ OcrFailEvent(o) \/ OcrTransientEvent(o)
      PROVE  Delivery
  BY <1>2, DeliveryWrite
     DEF OcrStart, OcrStartEvent, OcrComplete, OcrCompleteEvent, OcrRecord,
         OcrFail, OcrFailEvent, OcrTransientEvent
<1>3. ASSUME OcrExtract PROVE Delivery
  BY <1>3, DeliveryMove DEF OcrExtract, jobVars
<1>4. ASSUME OcrHandoff PROVE Delivery
  <2> DEFINE m == FirstAttempt(ChunkId(Doc("ocr")))
  <2>1. /\ pc["ocr"] = "handoff" /\ Doc("ocr") \in Docs /\ 1 \in 1..MaxSerial
        /\ UNCHANGED minted
    BY <1>4, BusyFacts, IngestAssumption DEF OcrHandoff, Handoff
  <2>2. m \in Messages /\ m.id = ChunkId(Doc("ocr")) /\ m.id.stage = "chunk"
    BY <2>1, FirstMessages DEF FirstAttempt, ChunkId
  <2>3. m.id \notin sent
    BY <2>1, <2>2 DEF DeliveryInv, HandoffIsFirst
  <2>4. Handoff("ocr", m)
    BY <1>4 DEF OcrHandoff
  <2> HIDE DEF m
  <2>5. QED
    BY <2>1, <2>2, <2>3, <2>4, DeliveryHandoff, MintedStays
<1>5. ASSUME OcrRetry \/ OcrNack \/ OcrAck PROVE Delivery
  BY <1>5, DeliveryRetry, DeliveryNack, DeliveryAck
     DEF OcrRetry, OcrNack, OcrAck
<1>6. QED
  BY <1>1, <1>2, <1>3, <1>4, <1>5 DEF OcrHandle

\* The calls of the chunker.
LEMMA DeliveryChunk ==
    ASSUME FullInv, ChunkHandle
    PROVE  Delivery
<1> USE DEF Stages, FullInv
<1>1. ASSUME NEW o, ChunkCheck(o) \/ ChunkFetch(o) PROVE Delivery
  BY <1>1, DeliveryRead
     DEF ChunkCheck, ChunkFetch, CheckProcessed, FetchDocument
<1>2. ASSUME NEW o, \/ ChunkStart(o) \/ ChunkStartEvent(o) \/ ChunkInsert(o)
                    \/ ChunkComplete(o) \/ ChunkCompleteEvent(o)
                    \/ ChunkRecord(o)
      PROVE  Delivery
  BY <1>2, DeliveryWrite
     DEF ChunkStart, ChunkStartEvent, ChunkInsert, ChunkComplete,
         ChunkCompleteEvent, ChunkRecord
<1>3. ASSUME ChunkHandoff PROVE Delivery
  <2> DEFINE d == Doc("chunk")
             n == minted[d] + 1
             m == FirstAttempt(EmbedId(d, n))
  <2>1. /\ d \in Docs /\ minted[d] < MaxSerial
        /\ minted' = [minted EXCEPT ![d] = @ + 1]
    BY <1>3, BusyFacts DEF ChunkHandoff
  <2>2. n \in 1..MaxSerial /\ minted[d] \in Nat /\ minted'[d] = n
    BY <2>1, DeliveryTypes, IngestAssumption
  <2>3. /\ m \in Messages /\ m.id = EmbedId(d, n)
        /\ m.id.stage = "embed" /\ m.id.doc = d /\ m.id.serial = n
    BY <2>1, <2>2, FirstMessages DEF FirstAttempt, EmbedId
  <2>4. Handoff("chunk", m)
    BY <1>3 DEF ChunkHandoff
  <2>5. \A e \in Docs : minted'[e] >= minted[e]
    BY <2>1, DeliveryTypes
  <2> HIDE DEF m
  <2>6. m.id \notin sent
    <3>1. ~(n <= minted[d])
      BY <2>2
    <3>2. QED
      BY <2>3, <3>1 DEF DeliveryInv, UuidsAreMinted
  <2> HIDE DEF n, d
  <2>7. m.id.serial <= minted'[m.id.doc]
    BY <2>2, <2>3
  <2>8. QED
    BY <2>3, <2>4, <2>5, <2>6, <2>7, DeliveryHandoff
<1>4. ASSUME ChunkRetry \/ ChunkAck PROVE Delivery
  BY <1>4, DeliveryRetry, DeliveryAck DEF ChunkRetry, ChunkAck
<1>5. QED
  BY <1>1, <1>2, <1>3, <1>4 DEF ChunkHandle

\* The calls of the embedder.
LEMMA DeliveryEmbed ==
    ASSUME AllInv, EmbedHandle
    PROVE  Delivery
<1> USE DEF Stages
<1>1. ASSUME NEW o, EmbedCheck(o) \/ EmbedFetch(o) \/ EmbedReadChunks(o)
      PROVE  Delivery
  BY <1>1, DeliveryRead
     DEF EmbedCheck, EmbedFetch, EmbedReadChunks, CheckProcessed, FetchDocument
<1>2. ASSUME NEW o, \/ EmbedStart(o) \/ EmbedStartEvent(o) \/ EmbedWrite(o)
                    \/ EmbedComplete(o) \/ EmbedCompleteEvent(o)
                    \/ EmbedRecord(o) \/ EmbedTransientEvent(o)
      PROVE  Delivery
  BY <1>2, DeliveryWrite
     DEF EmbedStart, EmbedStartEvent, EmbedWrite, EmbedComplete,
         EmbedCompleteEvent, EmbedRecord, EmbedTransientEvent
<1>3. ASSUME EmbedBatchFails PROVE Delivery
  BY <1>3, DeliveryMove DEF EmbedBatchFails, jobVars
<1>4. ASSUME EmbedRetry \/ EmbedNack \/ EmbedAck PROVE Delivery
  BY <1>4, DeliveryRetry, DeliveryNack, DeliveryAck
     DEF EmbedRetry, EmbedNack, EmbedAck
<1>5. QED
  BY <1>1, <1>2, <1>3, <1>4 DEF EmbedHandle

\* Every step of the pipeline moves messages in one of the three ways.
LEMMA DeliveryNext ==
    ASSUME FullInv, [Next]_vars
    PROVE  Delivery
<1> USE DEF FullInv
<1>1. CASE TtlStep
  BY <1>1, DeliveryExpire DEF TtlStep
<1>2. ASSUME NEW s \in Stages, HandleStep(s)
      PROVE  Delivery
  BY <1>2, DeliveryOcr, DeliveryChunk, DeliveryEmbed DEF HandleStep
<1>3. ASSUME NEW s \in Stages, DeliverStep(s)
      PROVE  Delivery
  BY <1>3, DeliveryDeliver DEF DeliverStep
<1>4. CASE UNCHANGED vars
  BY <1>4, DeliveryQuiet DEF vars, brokerVars, consumerVars, jobVars
<1>5. QED
  BY <1>1, <1>2, <1>3, <1>4, DeliveryApi, DeliveryDisrupt, DeliveryReconnect
     DEF Next

-----------------------------------------------------------------------------

\* The ocr worker comes to a hand-off from record_processed only.
LEMMA HandoffIsFirstNext ==
    ASSUME FullInv, [Next]_vars
    PROVE  HandoffIsFirst'
<1> USE DEF FullInv
<1> SUFFICES ASSUME pc'["ocr"] = "handoff"
             PROVE  ChunkId(Doc("ocr"))' \notin sent'
  BY DEF HandoffIsFirst
<1>1. pc["ocr"] \in {"record", "handoff"} /\ held'["ocr"] = held["ocr"]
  <2>1. CASE Undisturbed("ocr")
    BY <2>1 DEF Undisturbed
  <2>2. CASE OcrHandle
    BY <2>2, DeliveryTypes
       DEF OcrHandle, OcrCheck, OcrFetch, OcrStart, OcrStartEvent, OcrExtract,
           OcrComplete, OcrCompleteEvent, OcrRecord, OcrHandoff, OcrFail,
           OcrFailEvent, OcrTransientEvent, OcrRetry, OcrNack, OcrAck,
           CheckProcessed, FetchDocument, Read, Write, Handoff,
           RetryOrDeadLetter, Nack, Ack, Finish, Goto, jobVars, Stages
  <2>3. QED
    BY <2>1, <2>2, OtherStep DEF HandleStep, Stages
<1>2. ChunkId(Doc("ocr"))' = ChunkId(Doc("ocr"))
  BY <1>1 DEF Doc, ChunkId
<1>3. /\ Doc("ocr") \in Docs /\ held["ocr"].id = OcrId(Doc("ocr"))
      /\ ChunkId(Doc("ocr")).stage = "chunk"
  BY <1>1, BusyFacts DEF Stages, ChunkId
<1>4. ChunkId(Doc("ocr")) \notin sent
  BY <1>1, <1>3
     DEF DeliveryInv, HandoffIsFirst, AllInv, SafetyInv, WorkerInv, OcrIsFresh,
         MessageInv, ChunkIsHandedOver
<1>5. ChunkId(Doc("ocr")) \notin sent' \ sent
  BY <1>3, DeliveryNext DEF Delivery, Settles, Posts, Acks
<1>6. QED
  BY <1>2, <1>4, <1>5

\* No message carries a uuid that was not minted.
LEMMA UuidsAreMintedNext ==
    ASSUME FullInv, [Next]_vars, TypeInv'
    PROVE  UuidsAreMinted'
<1> USE DEF FullInv
<1> SUFFICES ASSUME NEW id \in sent', id.stage = "embed"
             PROVE  id.serial <= minted'[id.doc]
  BY DEF UuidsAreMinted
<1>1. Delivery
  BY DeliveryNext
<1>2. CASE id \in sent
  <2>1. id \in MessageIds /\ id.doc \in Docs
    BY <1>2, DeliveryTypes DEF MessageIds
  <2>2. id.serial \in Nat
    BY <2>1, IngestAssumption DEF MessageIds
  <2>3. id.serial <= minted[id.doc] /\ minted'[id.doc] >= minted[id.doc]
    BY <1>1, <1>2, <2>1 DEF Delivery, DeliveryInv, UuidsAreMinted
  <2>4. minted[id.doc] \in Nat /\ minted'[id.doc] \in Nat
    BY <2>1, IngestAssumption
       DEF AllInv, TypeInv, TypeOK, BrokerTypeOK
  <2>5. QED
    BY <2>2, <2>3, <2>4
<1>3. CASE id \notin sent
  BY <1>1, <1>3 DEF Delivery, Settles, Posts, Acks
<1>4. QED
  BY <1>2, <1>3

-----------------------------------------------------------------------------

\* An UPDATE of documents.status does not delete the row.
LEMMA UpdateKeepsRow ==
    ASSUME AllInv, NEW d \in Docs, NEW new, new # "absent", NEW stamps, NEW o,
           UpdateStatus(d, new, stamps, o)
    PROVE  \A e \in Docs : status[e] # "absent" => status'[e] # "absent"
BY DeliveryTypes DEF UpdateStatus

\* No worker deletes the row of a document.
LEMMA RowsStay ==
    ASSUME AllInv, NEW s \in Stages, HandleStep(s)
    PROVE  \A e \in Docs : status[e] # "absent" => status'[e] # "absent"
<1> USE DEF Stages
<1>1. ASSUME NEW o, OcrStart(o) \/ OcrComplete(o) \/ OcrFail(o)
      PROVE  \A e \in Docs : status[e] # "absent" => status'[e] # "absent"
  <2>1. pc["ocr"] # "idle"
    BY <1>1 DEF OcrStart, OcrComplete, OcrFail, Write
  <2>2. Doc("ocr") \in Docs
    BY <2>1, BusyFacts
  <2>3. QED
    BY <1>1, <2>2, UpdateKeepsRow DEF OcrStart, OcrComplete, OcrFail
<1>2. ASSUME NEW o, ChunkStart(o) \/ ChunkComplete(o)
      PROVE  \A e \in Docs : status[e] # "absent" => status'[e] # "absent"
  <2>1. pc["chunk"] # "idle"
    BY <1>2 DEF ChunkStart, ChunkComplete, Write
  <2>2. Doc("chunk") \in Docs
    BY <2>1, BusyFacts
  <2>3. QED
    BY <1>2, <2>2, UpdateKeepsRow DEF ChunkStart, ChunkComplete
<1>3. ASSUME NEW o, EmbedStart(o) \/ EmbedComplete(o)
      PROVE  \A e \in Docs : status[e] # "absent" => status'[e] # "absent"
  <2>1. pc["embed"] # "idle"
    BY <1>3 DEF EmbedStart, EmbedComplete, Write
  <2>2. Doc("embed") \in Docs
    BY <2>1, BusyFacts
  <2>3. QED
    BY <1>3, <2>2, UpdateKeepsRow DEF EmbedStart, EmbedComplete
<1>4. CASE OcrHandle
  <2>1. ASSUME NEW o, \/ OcrCheck(o) \/ OcrFetch(o) \/ OcrStartEvent(o)
                      \/ OcrCompleteEvent(o) \/ OcrRecord(o) \/ OcrFailEvent(o)
                      \/ OcrTransientEvent(o) \/ OcrExtract \/ OcrHandoff
                      \/ OcrRetry \/ OcrNack \/ OcrAck
        PROVE  status' = status
    BY <2>1
       DEF OcrCheck, OcrFetch, OcrStartEvent, OcrCompleteEvent, OcrRecord,
           OcrFailEvent, OcrTransientEvent, OcrExtract, OcrHandoff, OcrRetry,
           OcrNack, OcrAck, CheckProcessed, FetchDocument, Read, Handoff,
           RetryOrDeadLetter, Nack, Ack, storeVars
  <2>2. QED
    BY <1>1, <1>4, <2>1 DEF OcrHandle
<1>5. CASE ChunkHandle
  <2>1. ASSUME NEW o, \/ ChunkCheck(o) \/ ChunkFetch(o) \/ ChunkStartEvent(o)
                      \/ ChunkInsert(o) \/ ChunkCompleteEvent(o)
                      \/ ChunkRecord(o) \/ ChunkHandoff \/ ChunkRetry
                      \/ ChunkAck
        PROVE  status' = status
    BY <2>1
       DEF ChunkCheck, ChunkFetch, ChunkStartEvent, ChunkInsert,
           ChunkCompleteEvent, ChunkRecord, ChunkHandoff, ChunkRetry, ChunkAck,
           CheckProcessed, FetchDocument, Read, Handoff, RetryOrDeadLetter, Ack,
           storeVars
  <2>2. QED
    BY <1>2, <1>5, <2>1 DEF ChunkHandle
<1>6. CASE EmbedHandle
  <2>1. ASSUME NEW o, \/ EmbedCheck(o) \/ EmbedFetch(o) \/ EmbedStartEvent(o)
                      \/ EmbedReadChunks(o) \/ EmbedBatchFails \/ EmbedWrite(o)
                      \/ EmbedCompleteEvent(o) \/ EmbedRecord(o)
                      \/ EmbedTransientEvent(o) \/ EmbedRetry \/ EmbedNack
                      \/ EmbedAck
        PROVE  status' = status
    BY <2>1
       DEF EmbedCheck, EmbedFetch, EmbedStartEvent, EmbedReadChunks,
           EmbedBatchFails, EmbedWrite, EmbedCompleteEvent, EmbedRecord,
           EmbedTransientEvent, EmbedRetry, EmbedNack, EmbedAck, CheckProcessed,
           FetchDocument, Read, RetryOrDeadLetter, Nack, Ack, storeVars
  <2>2. QED
    BY <1>3, <1>6, <2>1 DEF EmbedHandle
<1>7. QED
  BY <1>4, <1>5, <1>6 DEF HandleStep

\* CreateDocument puts the file first, then commits the row.
LEMMA RowHasFileApi ==
    ASSUME FullInv, ApiStep
    PROVE  RowHasFile'
<1> USE DEF FullInv, RowHasFile, DeliveryInv
<1>1. PICK d \in Docs : ApiHandle(d)
  BY DEF ApiStep
<1>2. CASE PutUpload(d)
  BY <1>2, DeliveryTypes DEF PutUpload, Progress, storeVars
<1>3. CASE CommitDocument(d)
  BY <1>3, DeliveryTypes DEF CommitDocument, Progress
<1>4. CASE RejectDocument(d) \/ EnqueueFirstStage(d) \/ AbortUpload(d)
  BY <1>4, DeliveryTypes
     DEF RejectDocument, EnqueueFirstStage, AbortUpload, Progress, storeVars
<1>5. CASE RetryDocument(d)
  BY <1>5 DEF RetryDocument, storeVars
<1>6. QED
  BY <1>1, <1>2, <1>3, <1>4, <1>5 DEF ApiHandle

\* An upload keeps its row and its file.
LEMMA RowHasFileNext ==
    ASSUME FullInv, [Next]_vars
    PROVE  RowHasFile'
<1> USE DEF FullInv
<1>1. ASSUME UNCHANGED apiVars,
             \A e \in Docs : status[e] # "absent" => status'[e] # "absent"
      PROVE  RowHasFile'
  BY <1>1 DEF RowHasFile, DeliveryInv, apiVars
<1>2. ASSUME NEW s \in Stages, HandleStep(s) PROVE RowHasFile'
  BY <1>1, <1>2, RowsStay DEF HandleStep
<1>3. ASSUME NEW s \in Stages,
             DeliverStep(s) \/ DisruptStep(s) \/ ReconnectStep(s)
      PROVE  RowHasFile'
  BY <1>1, <1>3
     DEF DeliverStep, Deliver, DisruptStep, Crash, Disconnect, ReconnectStep,
         Reconnect, storeVars
<1>4. CASE TtlStep \/ UNCHANGED vars
  BY <1>1, <1>4 DEF TtlStep, vars, storeVars
<1>5. QED
  BY <1>2, <1>3, <1>4, RowHasFileApi DEF Next

-----------------------------------------------------------------------------

\* The initial states satisfy the whole invariant.
LEMMA FullInit ==
    ASSUME Init
    PROVE  FullInv
<1>1. DeliveryInv
  BY DEF Init, BrokerInit, ConsumerInit, ApiInit, DeliveryInv, HandoffIsFirst,
         UuidsAreMinted, RowHasFile, Stages
<1>2. QED
  BY <1>1, SafetyInit DEF FullInv

\* Every step preserves it.
LEMMA FullNext ==
    ASSUME FullInv, [Next]_vars
    PROVE  FullInv'
<1>1. AllInv'
  BY SafetyNext DEF FullInv
<1>2. DeliveryInv'
  BY <1>1, HandoffIsFirstNext, UuidsAreMintedNext, RowHasFileNext
     DEF AllInv, DeliveryInv
<1>3. QED
  BY <1>1, <1>2 DEF FullInv

\* No message is published twice as a new one, and every upload has its row and
\* its file, in every reachable state.
THEOREM DeliveryInvariant == Spec => []DeliveryInv
<1>1. FullInv => DeliveryInv
  BY DEF FullInv
<1>2. QED
  BY <1>1, FullInit, FullNext, PTL DEF Spec

\* A message never overtakes the row or the file it is about.
THEOREM MessagesFindDocuments == Spec => []MessageFindsDocument
<1>1. FullInv => MessageFindsDocument
  <2> SUFFICES ASSUME FullInv, NEW id \in sent
               PROVE  /\ status[id.doc] # "absent"
                      /\ objects[id.doc] \in Contents \ {"empty"}
    BY DEF MessageFindsDocument
  <2>1. id.doc \in Docs
    BY DeliveryTypes DEF FullInv, MessageIds
  <2>2. upload[id.doc] = "published"
    BY DEF FullInv, AllInv, SafetyInv, MessageInv, SentIsUploaded
  <2>3. QED
    BY <2>1, <2>2 DEF FullInv, DeliveryInv, RowHasFile
<1>2. QED
  BY <1>1, FullInit, FullNext, PTL DEF Spec

-----------------------------------------------------------------------------

Kept == {id \in sent : Unsettled(id)}
Completed == {id \in MessageIds : Done(id)}

\* What is done stays done.
LEMMA CompletedGrows ==
    ASSUME AllInv, [Next]_vars
    PROVE  Completed \subseteq Completed'
<1> SUFFICES ASSUME NEW id \in MessageIds, Done(id)
             PROVE  Done(id)'
  BY DEF Completed
<1>1. id.doc \in Docs
  BY DEF MessageIds
<1>2. QED
  BY <1>1, StoreNext DEF StoreGrows, Done

\* Every step of the pipeline is a step of AtLeastOnce, or none.
LEMMA StepsImplement ==
    ASSUME FullInv, [Next]_vars
    PROVE  \/ /\ Completed \subseteq Completed' /\ Completed' \subseteq MessageIds
              /\ sent' = sent /\ Kept' = Kept
           \/ \E id \in MessageIds :
                 /\ id \notin sent /\ sent' = sent \cup {id}
                 /\ Kept' = Kept \cup {id} /\ Completed' = Completed
           \/ \E id \in MessageIds :
                 /\ id \in Kept \cap Completed /\ Kept' = Kept \ {id}
                 /\ sent' = sent /\ Completed' = Completed
<1>1. /\ Delivery
      /\ Completed \subseteq Completed' /\ Completed' \subseteq MessageIds
  BY DeliveryNext, CompletedGrows DEF FullInv, Completed
<1>2. CASE Settles
  BY <1>1, <1>2 DEF Settles, Kept
<1>3. CASE Posts
  <2>1. PICK id \in MessageIds \ sent :
            /\ sent' = sent \cup {id}
            /\ Unsettled(id)'
            /\ \A k \in sent : Unsettled(k)' <=> Unsettled(k)
    BY <1>3 DEF Posts
  <2>2. Kept' = Kept \cup {id}
    BY <2>1 DEF Kept
  <2>3. Completed' = Completed
    BY <1>3 DEF Posts, Completed, Done
  <2>4. QED
    BY <2>1, <2>2, <2>3
<1>4. CASE Acks
  <2>1. PICK s \in Stages :
            /\ pc[s] = "ack" /\ linked[s]
            /\ \A id \in sent \ {held[s].id} : Unsettled(id)' <=> Unsettled(id)
    BY <1>4 DEF Acks
  <2> DEFINE h == held[s].id
  <2>2. /\ UNCHANGED <<sent, mainq, retryq, dlq>> /\ Completed' = Completed
    BY <1>4 DEF Acks, Completed, Done
  <2>3. h \in MessageIds /\ h \in sent /\ Unsettled(h) /\ h.stage = s
        /\ h.doc = Doc(s)
    BY <2>1, BusyFacts DEF FullInv, Unsettled, Doc
  <2> HIDE DEF h
  <2>4. \A id \in sent \ {h} : Unsettled(id)' <=> Unsettled(id)
    BY <2>1 DEF h
  <2>5. CASE \E m \in Messages : m.id = h /\ InQueue(m)
    <3>1. \A id : id = h => Unsettled(id)'
      BY <2>2, <2>5 DEF Unsettled, InQueue
    <3>2. Kept' = Kept
      BY <2>2, <2>3, <2>4, <3>1 DEF Kept
    <3>3. QED
      BY <1>1, <2>2, <3>2
  <2>6. CASE ~\E m \in Messages : m.id = h /\ InQueue(m)
    <3>1. Done(h)
      BY <2>1, <2>3, <2>6
         DEF FullInv, AllInv, SafetyInv, WorkerInv, AckIsSafe, Done, h
    <3>2. h \in Kept \cap Completed
      BY <2>3, <3>1 DEF Kept, Completed
    <3>3. Kept' = Kept \/ Kept' = Kept \ {h}
      BY <2>2, <2>3, <2>4 DEF Kept
    <3>4. QED
      BY <1>1, <2>2, <2>3, <3>2, <3>3
  <2>7. QED
    BY <2>5, <2>6
<1>5. QED
  BY <1>1, <1>2, <1>3, <1>4 DEF Delivery

\* The pipeline implements AtLeastOnce: whatever crashes, channels and
\* statements fail, messages are published once, kept until they are settled,
\* and gone for good once they are forgotten.
THEOREM DeliveryIsAtLeastOnce == Spec => ImplementsAtLeastOnce
<1>1. Init => A!Init
  BY DEF Init, BrokerInit, StoreInit, A!Init, Done, MessageIds
<1>2. FullInv /\ [Next]_vars => [A!Next]_A!vars
  <2> SUFFICES ASSUME FullInv, [Next]_vars PROVE [A!Next]_A!vars
    OBVIOUS
  <2>1. QED
    BY StepsImplement
       DEF A!Next, A!vars, A!Settle, A!Post, A!Forget, Kept, Completed
<1>3. QED
  BY <1>1, <1>2, FullInit, FullNext, PTL DEF Spec, ImplementsAtLeastOnce, A!Spec
=============================================================================
