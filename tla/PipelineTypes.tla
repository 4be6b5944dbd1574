---------------------------- MODULE PipelineTypes ----------------------------
(***************************************************************************)
(* The type invariant of the pipeline, proved for every set of documents,  *)
(* every MAX_RETRIES and every kind and number of disturbances.  TypeOK    *)
(* alone is not inductive: what a busy worker writes depends on its        *)
(* holding a message.                                                      *)
(***************************************************************************)
EXTENDS Pipeline, TLAPS

\* The data-access functions of the workers are expanded in every proof.
USE DEF OcrUpdateStatus, OcrRecordEvent, OcrRecordProcessed,
        ChunkUpdateStatus, ChunkRecordEvent, ChunkRecordProcessed,
        EmbedUpdateDocument, EmbedRecordEvent, EmbedRecordProcessed

TroubleOK == trouble \in TroubleType

\* A busy worker holds a message.
HoldsMessage == \A s \in Stages : pc[s] # "idle" => held[s] \in Messages

TypeInv == TypeOK /\ HoldsMessage

-----------------------------------------------------------------------------

\* The fields of a message (the envelope of publisher.rb).
LEMMA MessageFields ==
    ASSUME NEW m \in Messages
    PROVE  /\ m.id \in MessageIds
           /\ m.attempt \in 1..MaxRetries
           /\ m.id.doc \in Docs
           /\ m.id.stage \in Stages
BY DEF Messages, MessageIds, Stages

\* The first message of each stage is a message.
LEMMA FirstMessages ==
    ASSUME NEW d \in Docs, NEW n \in 1..MaxSerial
    PROVE  /\ OcrId(d) \in MessageIds
           /\ ChunkId(d) \in MessageIds
           /\ EmbedId(d, n) \in MessageIds
           /\ FirstAttempt(OcrId(d)) \in Messages
           /\ FirstAttempt(ChunkId(d)) \in Messages
           /\ FirstAttempt(EmbedId(d, n)) \in Messages
BY IngestAssumption
   DEF OcrId, ChunkId, EmbedId, FirstAttempt, MessageIds, Messages

\* The copy for the next attempt is a message.
LEMMA NextAttempt ==
    ASSUME NEW m \in Messages, ~(m.attempt >= MaxRetries)
    PROVE  [m EXCEPT !.attempt = @ + 1] \in Messages
BY IngestAssumption DEF Messages

\* Adding a copy to a queue.
LEMMA AddType ==
    ASSUME NEW q \in Queue, NEW m \in Messages
    PROVE  Add(q, m) \in Queue
BY DEF Queue, Add

\* Removing a copy that is there.
LEMMA RemoveType ==
    ASSUME NEW q \in Queue, NEW m \in Messages, q[m] > 0
    PROVE  Remove(q, m) \in Queue
BY DEF Queue, Remove

\* A disturbance, and a call with any outcome, keeps the type of trouble.
LEMMA DisturbType ==
    ASSUME TroubleOK, NEW kind, Disturb(kind)
    PROVE  TroubleOK'
BY IngestAssumption DEF TroubleOK, TroubleType, Disturb

\* A call of any outcome keeps the type of trouble.
LEMMA AttemptedType ==
    ASSUME TroubleOK, NEW o, Attempted(o)
    PROVE  TroubleOK'
BY DisturbType DEF Attempted, TroubleOK

\* Going on to another call.
LEMMA GotoType ==
    ASSUME ConsumerTypeOK, NEW s \in Stages, NEW label \in Labels, Goto(s, label)
    PROVE  pc' \in [Stages -> Labels]
BY DEF ConsumerTypeOK, Goto

\* A busy worker stays busy with the message it holds.
LEMMA GotoHolds ==
    ASSUME ConsumerTypeOK, HoldsMessage, NEW s \in Stages, pc[s] # "idle",
           NEW label, Goto(s, label), UNCHANGED held
    PROVE  HoldsMessage'
BY DEF ConsumerTypeOK, HoldsMessage, Goto

-----------------------------------------------------------------------------

\* What the data-access functions of the store write.
LEMMA UpdateStatusType ==
    ASSUME StoreTypeOK, NEW d \in Docs, NEW new \in Statuses,
           NEW stamps \in SUBSET Stages, NEW o, UpdateStatus(d, new, stamps, o)
    PROVE  /\ status' \in [Docs -> Statuses]
           /\ stamped' \in [Docs -> SUBSET Stages]
BY DEF StoreTypeOK, UpdateStatus

\* record_event keeps the type of processing_events.
LEMMA RecordEventType ==
    ASSUME StoreTypeOK, NEW d \in Docs, NEW from \in Statuses,
           NEW to \in Statuses, NEW o, RecordEvent(d, from, to, o)
    PROVE  events' \in [Docs -> SUBSET Event]
BY DEF StoreTypeOK, RecordEvent, Event

\* record_processed stores message ids only.
LEMMA RecordProcessedType ==
    ASSUME StoreTypeOK, NEW id \in MessageIds, NEW o, RecordProcessed(id, o)
    PROVE  processed' \subseteq MessageIds
BY DEF StoreTypeOK, RecordProcessed

\* Replacing the chunks of a document keeps their type.
LEMMA InsertChunksType ==
    ASSUME StoreTypeOK, NEW d \in Docs, NEW o, InsertChunks(d, o)
    PROVE  chunks' \in [Docs -> [gen : Nat, embedded : BOOLEAN]]
<1>1. [gen |-> chunks[d].gen + 1, embedded |-> FALSE]
          \in [gen : Nat, embedded : BOOLEAN]
  BY DEF StoreTypeOK
<1>2. QED
  BY <1>1 DEF StoreTypeOK, InsertChunks

\* Writing embeddings keeps the type of the chunks.
LEMMA WriteEmbeddingsType ==
    ASSUME StoreTypeOK, NEW d \in Docs, NEW rows, NEW o,
           WriteEmbeddings(d, rows, o)
    PROVE  chunks' \in [Docs -> [gen : Nat, embedded : BOOLEAN]]
<1>1. [chunks[d] EXCEPT !.embedded = TRUE] \in [gen : Nat, embedded : BOOLEAN]
  BY DEF StoreTypeOK
<1>2. QED
  BY <1>1 DEF StoreTypeOK, WriteEmbeddings

-----------------------------------------------------------------------------

\* The document of the message a busy worker holds.
LEMMA HeldFields ==
    ASSUME TypeInv, NEW s \in Stages, pc[s] # "idle"
    PROVE  /\ held[s] \in Messages
           /\ held[s].id \in MessageIds
           /\ Doc(s) \in Docs
BY MessageFields DEF TypeInv, HoldsMessage, Doc

\* A call that writes the database.
LEMMA WriteType ==
    ASSUME TypeInv, UNCHANGED apiVars, NEW s \in Stages, NEW here, here # "idle",
           NEW o, NEW next \in Labels, NEW onError \in Labels,
           Write(s, here, o, next, onError), StoreTypeOK'
    PROVE  TypeInv'
<1>1. TroubleOK'
  BY AttemptedType DEF TypeInv, TypeOK, TroubleOK, Write
<1>2. BrokerTypeOK'
  BY DEF TypeInv, TypeOK, BrokerTypeOK, Write, brokerVars
<1>3. pc' \in [Stages -> Labels]
  BY GotoType DEF TypeInv, TypeOK, Write
<1>4. ConsumerTypeOK'
  BY <1>3 DEF TypeInv, TypeOK, ConsumerTypeOK, Write, jobVars
<1>5. HoldsMessage'
  BY GotoHolds DEF TypeInv, TypeOK, Write, jobVars
<1>6. QED
  BY <1>1, <1>2, <1>4, <1>5 DEF TypeInv, TypeOK, TroubleOK, ApiTypeOK, apiVars

\* A call that reads it: everything but what the worker remembers.
LEMMA ReadType ==
    ASSUME TypeInv, NEW s \in Stages, NEW here, here # "idle", NEW o,
           NEW next \in Labels, NEW onError \in Labels,
           Read(s, here, o, next, onError)
    PROVE  /\ TroubleOK' /\ BrokerTypeOK' /\ StoreTypeOK' /\ HoldsMessage'
           /\ pc' \in [Stages -> Labels]
<1>1. TroubleOK'
  BY AttemptedType DEF TypeInv, TypeOK, TroubleOK, Read
<1>2. BrokerTypeOK' /\ StoreTypeOK'
  BY DEF TypeInv, TypeOK, BrokerTypeOK, StoreTypeOK, Read, brokerVars, storeVars
<1>3. pc' \in [Stages -> Labels]
  BY GotoType DEF TypeInv, TypeOK, Read
<1>4. HoldsMessage'
  BY GotoHolds DEF TypeInv, TypeOK, Read
<1>5. QED
  BY <1>1, <1>2, <1>3, <1>4

-----------------------------------------------------------------------------

\* The actions every worker has.
LEMMA CheckProcessedType ==
    ASSUME TypeInv, UNCHANGED apiVars, NEW s \in Stages, NEW o,
           NEW onError \in Labels, CheckProcessed(s, o, onError)
    PROVE  TypeInv'
<1>1. PICK next \in Labels : Read(s, "check", o, next, onError)
  BY DEF CheckProcessed, Labels
<1>2. ConsumerTypeOK'
  BY <1>1, ReadType
     DEF TypeInv, TypeOK, ConsumerTypeOK, CheckProcessed, Read
<1>3. QED
  BY <1>1, <1>2, ReadType
     DEF TypeInv, TypeOK, TroubleOK, ApiTypeOK, apiVars

\* fetch_document, with the decision to skip, preserves the types.
LEMMA FetchDocumentType ==
    ASSUME TypeInv, UNCHANGED apiVars, NEW s \in Stages, NEW o, NEW skip,
           NEW onError \in Labels, FetchDocument(s, o, skip, onError)
    PROVE  TypeInv'
<1>1. PICK next \in Labels : Read(s, "fetch", o, next, onError)
  BY DEF FetchDocument, Labels
<1>2. status[Doc(s)] \in Statuses
  BY <1>1, HeldFields DEF TypeInv, TypeOK, StoreTypeOK, Read
<1>3. ConsumerTypeOK'
  BY <1>1, <1>2, ReadType
     DEF TypeInv, TypeOK, ConsumerTypeOK, FetchDocument, Read
<1>4. QED
  BY <1>1, <1>3, ReadType
     DEF TypeInv, TypeOK, TroubleOK, ApiTypeOK, apiVars

\* Counting a failed execution keeps the counters natural numbers.
LEMMA FailedType ==
    ASSUME ConsumerTypeOK, NEW id \in MessageIds, Failed(id)
    PROVE  failures' \in [MessageIds -> Nat]
BY DEF ConsumerTypeOK, Failed

\* A worker that forgets its delivery is idle and holds no message.
LEMMA FinishType ==
    ASSUME ConsumerTypeOK, HoldsMessage, NEW s \in Stages, Finish(s)
    PROVE  /\ pc' \in [Stages -> Labels]
           /\ held' \in [Stages -> Messages \cup {NoMessage}]
           /\ seen' \in [Stages -> Statuses]
           /\ batch' \in [Stages -> Nat]
           /\ HoldsMessage'
<1>1. pc' \in [Stages -> Labels]
  BY DEF ConsumerTypeOK, Finish, Goto, Labels
<1>2. held' \in [Stages -> Messages \cup {NoMessage}]
  BY DEF ConsumerTypeOK, Finish
<1>3. seen' \in [Stages -> Statuses] /\ batch' \in [Stages -> Nat]
  BY DEF ConsumerTypeOK, Finish, Statuses
<1>4. HoldsMessage'
  BY DEF ConsumerTypeOK, HoldsMessage, Finish, Goto
<1>5. QED
  BY <1>1, <1>2, <1>3, <1>4

\* A retried or dead-lettered delivery preserves the types.
LEMMA RetryType ==
    ASSUME TypeInv, UNCHANGED apiVars, NEW s \in Stages, RetryOrDeadLetter(s)
    PROVE  TypeInv'
<1>1. /\ held[s] \in Messages
      /\ held[s].id \in MessageIds
  BY HeldFields DEF RetryOrDeadLetter
<1>2. BrokerTypeOK'
  <2>1. dlq' \in Queue
    BY <1>1, AddType DEF RetryOrDeadLetter, TypeInv, TypeOK, BrokerTypeOK
  <2>2. retryq' \in Queue
    BY <1>1, AddType, NextAttempt
       DEF RetryOrDeadLetter, TypeInv, TypeOK, BrokerTypeOK
  <2>3. QED
    BY <2>1, <2>2 DEF RetryOrDeadLetter, TypeInv, TypeOK, BrokerTypeOK
<1>3. ConsumerTypeOK'
  BY <1>1, FailedType, GotoType
     DEF RetryOrDeadLetter, TypeInv, TypeOK, ConsumerTypeOK, jobVars, Labels
<1>4. HoldsMessage'
  BY GotoHolds DEF RetryOrDeadLetter, TypeInv, TypeOK, jobVars
<1>5. QED
  BY <1>2, <1>3, <1>4
     DEF RetryOrDeadLetter, TypeInv, TypeOK, StoreTypeOK, storeVars,
         ApiTypeOK, apiVars

\* A negative acknowledgement preserves the types.
LEMMA NackType ==
    ASSUME TypeInv, UNCHANGED apiVars, NEW s \in Stages, Nack(s)
    PROVE  TypeInv'
<1>1. /\ held[s] \in Messages
      /\ held[s].id \in MessageIds
  BY HeldFields DEF Nack
<1>2. BrokerTypeOK'
  BY <1>1, AddType DEF Nack, TypeInv, TypeOK, BrokerTypeOK
<1>3. ConsumerTypeOK' /\ HoldsMessage'
  BY <1>1, FailedType, FinishType DEF Nack, TypeInv, TypeOK, ConsumerTypeOK
<1>4. QED
  BY <1>2, <1>3
     DEF Nack, TypeInv, TypeOK, StoreTypeOK, storeVars, ApiTypeOK, apiVars

\* An acknowledgement preserves the types.
LEMMA AckType ==
    ASSUME TypeInv, UNCHANGED apiVars, NEW s \in Stages, Ack(s)
    PROVE  TypeInv'
<1>1. ConsumerTypeOK' /\ HoldsMessage'
  BY FinishType DEF Ack, TypeInv, TypeOK, ConsumerTypeOK
<1>2. QED
  BY <1>1
     DEF Ack, TypeInv, TypeOK, BrokerTypeOK, brokerVars, StoreTypeOK,
         storeVars, ApiTypeOK, apiVars

\* Publishing the message of the next stage preserves the types.
LEMMA HandoffType ==
    ASSUME TypeInv, UNCHANGED apiVars, NEW s \in Stages,
           NEW m \in Messages, Handoff(s, m), minted' \in [Docs -> 0..MaxSerial]
    PROVE  TypeInv'
<1>1. mainq' \in Queue /\ sent' \subseteq MessageIds
  BY AddType, MessageFields
     DEF Handoff, Publish, TypeInv, TypeOK, BrokerTypeOK
<1>2. BrokerTypeOK'
  BY <1>1 DEF Handoff, TypeInv, TypeOK, BrokerTypeOK
<1>3. ConsumerTypeOK'
  BY GotoType DEF Handoff, TypeInv, TypeOK, ConsumerTypeOK, jobVars, Labels
<1>4. HoldsMessage'
  BY GotoHolds DEF Handoff, TypeInv, TypeOK, jobVars
<1>5. QED
  BY <1>2, <1>3, <1>4
     DEF Handoff, TypeInv, TypeOK, StoreTypeOK, storeVars, ApiTypeOK, apiVars

\* Queueing an unacknowledged delivery again keeps the queue a queue.
LEMMA RequeueType ==
    ASSUME TypeInv, NEW s \in Stages, pc[s] # "idle", Requeue(s)
    PROVE  mainq' \in Queue
BY HeldFields, AddType DEF Requeue, TypeInv, TypeOK, BrokerTypeOK

\* A crash or a lost channel preserves the types.
LEMMA DisruptType ==
    ASSUME TypeInv, NEW s \in Stages, DisruptStep(s)
    PROVE  TypeInv'
<1>1. CASE Crash(s)
  <2>1. TroubleOK' /\ BrokerTypeOK'
    BY <1>1, DisturbType, RequeueType
       DEF Crash, TypeInv, TypeOK, BrokerTypeOK, TroubleOK
  <2>2. ConsumerTypeOK' /\ HoldsMessage'
    BY <1>1, FinishType DEF Crash, TypeInv, TypeOK, ConsumerTypeOK
  <2>3. QED
    BY <1>1, <2>1, <2>2
       DEF DisruptStep, Crash, TypeInv, TypeOK, TroubleOK, StoreTypeOK,
           storeVars, ApiTypeOK, apiVars
<1>2. CASE Disconnect(s)
  <2>1. TroubleOK' /\ BrokerTypeOK'
    BY <1>2, DisturbType, RequeueType
       DEF Disconnect, TypeInv, TypeOK, BrokerTypeOK, TroubleOK
  <2>2. ConsumerTypeOK' /\ HoldsMessage'
    BY <1>2
       DEF Disconnect, TypeInv, TypeOK, ConsumerTypeOK, HoldsMessage, jobVars
  <2>3. QED
    BY <1>2, <2>1, <2>2
       DEF DisruptStep, Disconnect, TypeInv, TypeOK, TroubleOK, StoreTypeOK,
           storeVars, ApiTypeOK, apiVars
<1>3. QED
  BY <1>1, <1>2 DEF DisruptStep

\* A new channel preserves the types.
LEMMA ReconnectType ==
    ASSUME TypeInv, NEW s \in Stages, ReconnectStep(s)
    PROVE  TypeInv'
BY DEF ReconnectStep, Reconnect, TypeInv, TypeOK, BrokerTypeOK, brokerVars,
       StoreTypeOK, storeVars, ConsumerTypeOK, HoldsMessage, jobVars,
       ApiTypeOK, apiVars

\* A delivery preserves the types.
LEMMA DeliverType ==
    ASSUME TypeInv, NEW s \in Stages, DeliverStep(s)
    PROVE  TypeInv'
<1>1. PICK m \in Messages : Deliver(s, m)
  BY DEF DeliverStep
<1>2. BrokerTypeOK'
  BY <1>1, RemoveType DEF Deliver, TypeInv, TypeOK, BrokerTypeOK
<1>3. ConsumerTypeOK'
  BY <1>1, GotoType DEF Deliver, TypeInv, TypeOK, ConsumerTypeOK, Labels
<1>4. HoldsMessage'
  BY <1>1 DEF Deliver, Goto, TypeInv, TypeOK, ConsumerTypeOK, HoldsMessage
<1>5. QED
  BY <1>1, <1>2, <1>3, <1>4
     DEF DeliverStep, Deliver, TypeInv, TypeOK, StoreTypeOK, storeVars,
         ApiTypeOK, apiVars

\* The end of a TTL preserves the types.
LEMMA TtlType ==
    ASSUME TypeInv, TtlStep
    PROVE  TypeInv'
<1>1. PICK m \in Messages : Expire(m)
  BY DEF TtlStep
<1>2. BrokerTypeOK'
  BY <1>1, AddType, RemoveType DEF Expire, TypeInv, TypeOK, BrokerTypeOK
<1>3. QED
  BY <1>1, <1>2
     DEF TtlStep, Expire, TypeInv, TypeOK, StoreTypeOK, storeVars,
         ConsumerTypeOK, HoldsMessage, consumerVars, jobVars, ApiTypeOK, apiVars

-----------------------------------------------------------------------------

\* The handler of each worker keeps the types.
LEMMA OcrType ==
    ASSUME TypeInv, UNCHANGED apiVars, OcrHandle
    PROVE  TypeInv'
<1> USE DEF Stages
<1>1. ASSUME NEW o, OcrCheck(o) PROVE TypeInv'
  BY <1>1, CheckProcessedType DEF OcrCheck, Labels
<1>2. ASSUME NEW o, OcrFetch(o) PROVE TypeInv'
  BY <1>2, FetchDocumentType DEF OcrFetch, Labels
<1>3. ASSUME NEW o, OcrStart(o) PROVE TypeInv'
  <2>1. StoreTypeOK'
    BY <1>3, HeldFields, UpdateStatusType
       DEF OcrStart, Write, Statuses, TypeInv, TypeOK, StoreTypeOK
  <2>2. QED
    BY <1>3, <2>1, WriteType DEF OcrStart, Labels
<1>4. ASSUME NEW o, OcrStartEvent(o) PROVE TypeInv'
  <2>1. seen["ocr"] \in Statuses
    BY DEF TypeInv, TypeOK, ConsumerTypeOK
  <2>2. StoreTypeOK'
    BY <1>4, <2>1, HeldFields, RecordEventType
       DEF OcrStartEvent, Write, Statuses, TypeInv, TypeOK, StoreTypeOK
  <2>3. QED
    BY <1>4, <2>2, WriteType DEF OcrStartEvent, Labels
<1>5. ASSUME NEW o, OcrComplete(o) PROVE TypeInv'
  <2>1. StoreTypeOK'
    BY <1>5, HeldFields, UpdateStatusType
       DEF OcrComplete, Write, Statuses, TypeInv, TypeOK, StoreTypeOK
  <2>2. QED
    BY <1>5, <2>1, WriteType DEF OcrComplete, Labels
<1>6. ASSUME NEW o, OcrCompleteEvent(o) PROVE TypeInv'
  <2>1. StoreTypeOK'
    BY <1>6, HeldFields, RecordEventType
       DEF OcrCompleteEvent, Write, Statuses, TypeInv, TypeOK, StoreTypeOK
  <2>2. QED
    BY <1>6, <2>1, WriteType DEF OcrCompleteEvent, Labels
<1>7. ASSUME NEW o, OcrRecord(o) PROVE TypeInv'
  <2>1. StoreTypeOK'
    BY <1>7, HeldFields, RecordProcessedType
       DEF OcrRecord, Write, Statuses, TypeInv, TypeOK, StoreTypeOK
  <2>2. QED
    BY <1>7, <2>1, WriteType DEF OcrRecord, Labels
<1>8. ASSUME NEW o, OcrFail(o) PROVE TypeInv'
  <2>1. StoreTypeOK'
    BY <1>8, HeldFields, UpdateStatusType
       DEF OcrFail, Write, Statuses, TypeInv, TypeOK, StoreTypeOK
  <2>2. QED
    BY <1>8, <2>1, WriteType DEF OcrFail, Labels
<1>9. ASSUME NEW o, OcrFailEvent(o) PROVE TypeInv'
  <2>1. StoreTypeOK'
    BY <1>9, HeldFields, RecordEventType
       DEF OcrFailEvent, Write, Statuses, TypeInv, TypeOK, StoreTypeOK
  <2>2. QED
    BY <1>9, <2>1, WriteType DEF OcrFailEvent, Labels
<1>10. ASSUME NEW o, OcrTransientEvent(o) PROVE TypeInv'
  <2>1. StoreTypeOK'
    BY <1>10, HeldFields, RecordEventType
       DEF OcrTransientEvent, Write, Statuses, TypeInv, TypeOK, StoreTypeOK
  <2>2. QED
    BY <1>10, <2>1, WriteType DEF OcrTransientEvent, Labels
<1>11. ASSUME OcrExtract PROVE TypeInv'
  <2>1. TroubleOK'
    BY <1>11, DisturbType DEF OcrExtract, TypeInv, TypeOK, TroubleOK
  <2>2. ConsumerTypeOK' /\ HoldsMessage'
    BY <1>11, GotoType, GotoHolds
       DEF OcrExtract, TypeInv, TypeOK, ConsumerTypeOK, jobVars, Labels
  <2>3. QED
    BY <1>11, <2>1, <2>2
       DEF OcrExtract, TypeInv, TypeOK, TroubleOK, BrokerTypeOK, brokerVars,
           StoreTypeOK, storeVars, ApiTypeOK, apiVars
<1>12. ASSUME OcrHandoff PROVE TypeInv'
  <2>1. FirstAttempt(ChunkId(Doc("ocr"))) \in Messages
    BY <1>12, HeldFields, FirstMessages, IngestAssumption
       DEF OcrHandoff, Handoff
  <2>2. minted' \in [Docs -> 0..MaxSerial]
    BY <1>12 DEF OcrHandoff, TypeInv, TypeOK, BrokerTypeOK
  <2>3. QED
    BY <1>12, <2>1, <2>2, HandoffType DEF OcrHandoff
<1>13. ASSUME OcrRetry PROVE TypeInv'
  BY <1>13, RetryType DEF OcrRetry
<1>14. ASSUME OcrNack PROVE TypeInv'
  BY <1>14, NackType DEF OcrNack
<1>15. ASSUME OcrAck PROVE TypeInv'
  BY <1>15, AckType DEF OcrAck
<1>16. QED
  BY <1>1, <1>2, <1>3, <1>4, <1>5, <1>6, <1>7, <1>8, <1>9, <1>10, <1>11, <1>12, <1>13, <1>14, <1>15
     DEF OcrHandle

\* Every call of the chunker preserves the types.
LEMMA ChunkType ==
    ASSUME TypeInv, UNCHANGED apiVars, ChunkHandle
    PROVE  TypeInv'
<1> USE DEF Stages
<1>1. ASSUME NEW o, ChunkCheck(o) PROVE TypeInv'
  BY <1>1, CheckProcessedType DEF ChunkCheck, Labels
<1>2. ASSUME NEW o, ChunkFetch(o) PROVE TypeInv'
  BY <1>2, FetchDocumentType DEF ChunkFetch, Labels
<1>3. ASSUME NEW o, ChunkStart(o) PROVE TypeInv'
  <2>1. StoreTypeOK'
    BY <1>3, HeldFields, UpdateStatusType
       DEF ChunkStart, Write, Statuses, TypeInv, TypeOK, StoreTypeOK
  <2>2. QED
    BY <1>3, <2>1, WriteType DEF ChunkStart, Labels
<1>4. ASSUME NEW o, ChunkStartEvent(o) PROVE TypeInv'
  <2>1. seen["chunk"] \in Statuses
    BY DEF TypeInv, TypeOK, ConsumerTypeOK
  <2>2. StoreTypeOK'
    BY <1>4, <2>1, HeldFields, RecordEventType
       DEF ChunkStartEvent, Write, Statuses, TypeInv, TypeOK, StoreTypeOK
  <2>3. QED
    BY <1>4, <2>2, WriteType DEF ChunkStartEvent, Labels
<1>5. ASSUME NEW o, ChunkInsert(o) PROVE TypeInv'
  <2>1. StoreTypeOK'
    BY <1>5, HeldFields, InsertChunksType
       DEF ChunkInsert, Write, Statuses, TypeInv, TypeOK, StoreTypeOK
  <2>2. QED
    BY <1>5, <2>1, WriteType DEF ChunkInsert, Labels
<1>6. ASSUME NEW o, ChunkComplete(o) PROVE TypeInv'
  <2>1. StoreTypeOK'
    BY <1>6, HeldFields, UpdateStatusType
       DEF ChunkComplete, Write, Statuses, TypeInv, TypeOK, StoreTypeOK
  <2>2. QED
    BY <1>6, <2>1, WriteType DEF ChunkComplete, Labels
<1>7. ASSUME NEW o, ChunkCompleteEvent(o) PROVE TypeInv'
  <2>1. StoreTypeOK'
    BY <1>7, HeldFields, RecordEventType
       DEF ChunkCompleteEvent, Write, Statuses, TypeInv, TypeOK, StoreTypeOK
  <2>2. QED
    BY <1>7, <2>1, WriteType DEF ChunkCompleteEvent, Labels
<1>8. ASSUME NEW o, ChunkRecord(o) PROVE TypeInv'
  <2>1. StoreTypeOK'
    BY <1>8, HeldFields, RecordProcessedType
       DEF ChunkRecord, Write, Statuses, TypeInv, TypeOK, StoreTypeOK
  <2>2. QED
    BY <1>8, <2>1, WriteType DEF ChunkRecord, Labels
<1>9. ASSUME ChunkHandoff PROVE TypeInv'
  <2> DEFINE d == Doc("chunk")
  <2>1. d \in Docs /\ minted[d] + 1 \in 1..MaxSerial
    BY <1>9, HeldFields, IngestAssumption
       DEF ChunkHandoff, TypeInv, TypeOK, BrokerTypeOK
  <2>2. FirstAttempt(EmbedId(d, minted[d] + 1)) \in Messages
    BY <2>1, FirstMessages
  <2>3. minted' \in [Docs -> 0..MaxSerial]
    BY <1>9, <2>1 DEF ChunkHandoff, TypeInv, TypeOK, BrokerTypeOK
  <2>4. QED
    BY <1>9, <2>2, <2>3, HandoffType DEF ChunkHandoff
<1>10. ASSUME ChunkRetry PROVE TypeInv'
  BY <1>10, RetryType DEF ChunkRetry
<1>11. ASSUME ChunkAck PROVE TypeInv'
  BY <1>11, AckType DEF ChunkAck
<1>12. QED
  BY <1>1, <1>2, <1>3, <1>4, <1>5, <1>6, <1>7, <1>8, <1>9, <1>10, <1>11
     DEF ChunkHandle

\* Every call of the embedder preserves the types.
LEMMA EmbedType ==
    ASSUME TypeInv, UNCHANGED apiVars, EmbedHandle
    PROVE  TypeInv'
<1> USE DEF Stages
<1>1. ASSUME NEW o, EmbedCheck(o) PROVE TypeInv'
  BY <1>1, CheckProcessedType DEF EmbedCheck, Labels
<1>2. ASSUME NEW o, EmbedFetch(o) PROVE TypeInv'
  BY <1>2, FetchDocumentType DEF EmbedFetch, Labels
<1>3. ASSUME NEW o, EmbedStart(o) PROVE TypeInv'
  <2>1. StoreTypeOK'
    BY <1>3, HeldFields, UpdateStatusType
       DEF EmbedStart, Write, Statuses, TypeInv, TypeOK, StoreTypeOK
  <2>2. QED
    BY <1>3, <2>1, WriteType DEF EmbedStart, Labels
<1>4. ASSUME NEW o, EmbedStartEvent(o) PROVE TypeInv'
  <2>1. seen["embed"] \in Statuses
    BY DEF TypeInv, TypeOK, ConsumerTypeOK
  <2>2. StoreTypeOK'
    BY <1>4, <2>1, HeldFields, RecordEventType
       DEF EmbedStartEvent, Write, Statuses, TypeInv, TypeOK, StoreTypeOK
  <2>3. QED
    BY <1>4, <2>2, WriteType DEF EmbedStartEvent, Labels
<1>5. ASSUME NEW o, EmbedReadChunks(o) PROVE TypeInv'
  <2> DEFINE next == IF PendingChunks(Doc("embed")) = 0 THEN "complete"
                     ELSE "write"
  <2>1. Read("embed", "work", o, next, "transientEvent") /\ next \in Labels
    BY <1>5 DEF EmbedReadChunks, Labels
  <2> HIDE DEF next
  <2>2. PendingChunks(Doc("embed")) \in Nat
    BY <2>1, HeldFields
       DEF Read, PendingChunks, TypeInv, TypeOK, StoreTypeOK
  <2>3. /\ TroubleOK' /\ BrokerTypeOK' /\ StoreTypeOK' /\ HoldsMessage'
        /\ pc' \in [Stages -> Labels]
    BY <2>1, ReadType DEF Labels
  <2>4. ConsumerTypeOK'
    BY <1>5, <2>1, <2>2, <2>3
       DEF EmbedReadChunks, Read, TypeInv, TypeOK, ConsumerTypeOK
  <2>5. QED
    BY <2>3, <2>4 DEF TypeInv, TypeOK, TroubleOK, ApiTypeOK, apiVars
<1>6. ASSUME NEW o, EmbedWrite(o) PROVE TypeInv'
  <2>1. StoreTypeOK'
    BY <1>6, HeldFields, WriteEmbeddingsType
       DEF EmbedWrite, Write, Statuses, TypeInv, TypeOK, StoreTypeOK
  <2>2. QED
    BY <1>6, <2>1, WriteType DEF EmbedWrite, Labels
<1>7. ASSUME NEW o, EmbedComplete(o) PROVE TypeInv'
  <2>1. StoreTypeOK'
    BY <1>7, HeldFields, UpdateStatusType
       DEF EmbedComplete, Write, Statuses, TypeInv, TypeOK, StoreTypeOK
  <2>2. QED
    BY <1>7, <2>1, WriteType DEF EmbedComplete, Labels
<1>8. ASSUME NEW o, EmbedCompleteEvent(o) PROVE TypeInv'
  <2>1. StoreTypeOK'
    BY <1>8, HeldFields, RecordEventType
       DEF EmbedCompleteEvent, Write, Statuses, TypeInv, TypeOK, StoreTypeOK
  <2>2. QED
    BY <1>8, <2>1, WriteType DEF EmbedCompleteEvent, Labels
<1>9. ASSUME NEW o, EmbedRecord(o) PROVE TypeInv'
  <2>1. StoreTypeOK'
    BY <1>9, HeldFields, RecordProcessedType
       DEF EmbedRecord, Write, Statuses, TypeInv, TypeOK, StoreTypeOK
  <2>2. QED
    BY <1>9, <2>1, WriteType DEF EmbedRecord, Labels
<1>10. ASSUME NEW o, EmbedTransientEvent(o) PROVE TypeInv'
  <2>1. StoreTypeOK'
    BY <1>10, HeldFields, RecordEventType
       DEF EmbedTransientEvent, Write, Statuses, TypeInv, TypeOK, StoreTypeOK
  <2>2. QED
    BY <1>10, <2>1, WriteType DEF EmbedTransientEvent, Labels
<1>11. ASSUME EmbedBatchFails PROVE TypeInv'
  <2>1. TroubleOK'
    BY <1>11, DisturbType DEF EmbedBatchFails, TypeInv, TypeOK, TroubleOK
  <2>2. ConsumerTypeOK' /\ HoldsMessage'
    BY <1>11, GotoType, GotoHolds
       DEF EmbedBatchFails, TypeInv, TypeOK, ConsumerTypeOK, jobVars, Labels
  <2>3. QED
    BY <1>11, <2>1, <2>2
       DEF EmbedBatchFails, TypeInv, TypeOK, TroubleOK, BrokerTypeOK, brokerVars,
           StoreTypeOK, storeVars, ApiTypeOK, apiVars
<1>12. ASSUME EmbedRetry PROVE TypeInv'
  BY <1>12, RetryType DEF EmbedRetry
<1>13. ASSUME EmbedNack PROVE TypeInv'
  BY <1>13, NackType DEF EmbedNack
<1>14. ASSUME EmbedAck PROVE TypeInv'
  BY <1>14, AckType DEF EmbedAck
<1>15. QED
  BY <1>1, <1>2, <1>3, <1>4, <1>5, <1>6, <1>7, <1>8, <1>9, <1>10, <1>11, <1>12, <1>13, <1>14
     DEF EmbedHandle

-----------------------------------------------------------------------------

\* Every step of the API preserves the types.
LEMMA ApiType ==
    ASSUME TypeInv, ApiStep
    PROVE  TypeInv'
<1>1. PICK d \in Docs : ApiHandle(d)
  BY DEF ApiStep
<1>2. ConsumerTypeOK' /\ HoldsMessage'
  BY DEF ApiStep, consumerVars, jobVars, TypeInv, TypeOK, ConsumerTypeOK,
         HoldsMessage
<1>3. CASE PutUpload(d)
  BY <1>2, <1>3
     DEF PutUpload, Progress, TypeInv, TypeOK, BrokerTypeOK, brokerVars,
         StoreTypeOK, storeVars, ApiTypeOK
<1>4. CASE CommitDocument(d)
  <2>1. StoreTypeOK'
    BY <1>4, RecordEventType
       DEF CommitDocument, TypeInv, TypeOK, StoreTypeOK, Statuses
  <2>2. QED
    BY <1>2, <1>4, <2>1
       DEF CommitDocument, Progress, TypeInv, TypeOK, BrokerTypeOK, brokerVars,
           ApiTypeOK
<1>5. CASE RejectDocument(d)
  BY <1>2, <1>5
     DEF RejectDocument, Progress, TypeInv, TypeOK, BrokerTypeOK, brokerVars,
         StoreTypeOK, storeVars, ApiTypeOK
<1>6. CASE EnqueueFirstStage(d)
  <2>1. BrokerTypeOK'
    BY <1>6, FirstMessages, AddType, MessageFields, IngestAssumption
       DEF EnqueueFirstStage, Publish, TypeInv, TypeOK, BrokerTypeOK
  <2>2. QED
    BY <1>2, <1>6, <2>1
       DEF EnqueueFirstStage, Progress, TypeInv, TypeOK, StoreTypeOK, storeVars,
           ApiTypeOK
<1>7. CASE AbortUpload(d)
  <2>1. TroubleOK'
    BY <1>7, DisturbType DEF AbortUpload, TypeInv, TypeOK, TroubleOK
  <2>2. QED
    BY <1>2, <1>7, <2>1
       DEF AbortUpload, Progress, TypeInv, TypeOK, TroubleOK, BrokerTypeOK,
           brokerVars, StoreTypeOK, storeVars, ApiTypeOK
<1>8. CASE RetryDocument(d)
  <2>1. TroubleOK'
    BY <1>8, DisturbType DEF RetryDocument, TypeInv, TypeOK, TroubleOK
  <2>2. QED
    BY <1>2, <1>8, <2>1
       DEF RetryDocument, TypeInv, TypeOK, TroubleOK, BrokerTypeOK,
           brokerVars, StoreTypeOK, storeVars, ApiTypeOK
<1>9. QED
  BY <1>1, <1>3, <1>4, <1>5, <1>6, <1>7, <1>8 DEF ApiHandle

\* The initial states have the types.
LEMMA InitType ==
    ASSUME Init
    PROVE  TypeInv
<1>1. BrokerTypeOK
  BY IngestAssumption DEF Init, BrokerInit, BrokerTypeOK, Queue
<1>2. StoreTypeOK
  BY DEF Init, StoreInit, StoreTypeOK, Statuses
<1>3. ConsumerTypeOK /\ HoldsMessage
  BY DEF Init, ConsumerInit, ConsumerTypeOK, Labels, Statuses, HoldsMessage
<1>4. ApiTypeOK
  BY DEF Init, ApiInit, ApiTypeOK
<1>5. QED
  BY <1>1, <1>2, <1>3, <1>4, IngestAssumption DEF Init, TroubleType, TypeInv, TypeOK

\* A stuttering step preserves the types.
LEMMA StutterType ==
    ASSUME TypeInv, UNCHANGED vars
    PROVE  TypeInv'
BY DEF TypeInv, TypeOK, HoldsMessage, vars, BrokerTypeOK, brokerVars,
       StoreTypeOK, storeVars, ConsumerTypeOK, consumerVars, jobVars,
       ApiTypeOK, apiVars

\* Every step of the pipeline preserves the types.
LEMMA NextType ==
    ASSUME TypeInv, [Next]_vars
    PROVE  TypeInv'
<1>1. CASE ApiStep
  BY <1>1, ApiType
<1>2. CASE TtlStep
  BY <1>2, TtlType
<1>3. ASSUME NEW s \in Stages, HandleStep(s)
      PROVE  TypeInv'
  BY <1>3, OcrType, ChunkType, EmbedType DEF HandleStep
<1>4. CASE UNCHANGED vars
  BY <1>4, StutterType
<1>5. QED
  BY <1>1, <1>2, <1>3, <1>4, DeliverType, DisruptType, ReconnectType DEF Next

\* The inductive invariant holds in every reachable state, ...
THEOREM TypeInvariant == Spec => []TypeInv
BY InitType, NextType, PTL DEF Spec

\* ... and with it the type invariant: whatever fails, queues count copies of
\* well-formed messages, no attempt exceeds MAX_RETRIES, and every status,
\* event and processed_messages row is one the code's vocabulary has.
THEOREM TypeCorrect == Spec => []TypeOK
<1>1. TypeInv => TypeOK
  BY DEF TypeInv
<1>2. QED
  BY <1>1, TypeInvariant, PTL

=============================================================================
