-------------------------- MODULE PipelineHandover --------------------------
(***************************************************************************)
(* The order in which the stages own a document, proved for every          *)
(* instance: OrderInv of PipelineOrder is inductive together with FullInv. *)
(*   OthersStay   only its own calls move a busy worker, or its death;     *)
(*   RowsNext     which row a step may write, and at which call;           *)
(*   CopiesNext   how a step moves the copies of messages while channels   *)
(*                stay open and processes alive.                           *)
(* What follows: an embedded document is final and complete, and statuses  *)
(* move as document.rb declares, until two kinds of failure have met.      *)
(***************************************************************************)
EXTENDS PipelineOrder, PipelineDelivery

\* The data-access functions of the workers are expanded in every proof.
USE DEF OcrUpdateStatus, OcrRecordEvent, OcrRecordProcessed,
        ChunkUpdateStatus, ChunkRecordEvent, ChunkRecordProcessed,
        EmbedUpdateDocument, EmbedRecordEvent, EmbedRecordProcessed

HandoverInv == FullInv /\ OrderInv

-----------------------------------------------------------------------------
(* Disturbances.                                                           *)

\* What happened stays happened: a step never takes a kind of disturbance back.
Remembers == trouble.met \subseteq trouble'.met

\* A call remembers, and an outcome other than ok is remembered itself.
LEMMA AttemptedRemembers ==
    ASSUME NEW o, Attempted(o)
    PROVE  /\ Remembers
           /\ o # "ok" => o \in trouble'.met
BY DEF Attempted, Disturb, Remembers

\* The calls of the OCR worker remember.
LEMMA OcrRemembers ==
    ASSUME OcrHandle
    PROVE  Remembers
<1>1. ASSUME NEW o, \/ OcrCheck(o) \/ OcrFetch(o) \/ OcrStart(o)
                    \/ OcrStartEvent(o) \/ OcrComplete(o) \/ OcrCompleteEvent(o)
                    \/ OcrRecord(o) \/ OcrFail(o) \/ OcrFailEvent(o)
                    \/ OcrTransientEvent(o)
      PROVE  Attempted(o)
  BY <1>1
     DEF OcrCheck, OcrFetch, OcrStart, OcrStartEvent, OcrComplete,
         OcrCompleteEvent, OcrRecord, OcrFail, OcrFailEvent, OcrTransientEvent,
         CheckProcessed, FetchDocument, Read, Write
<1>2. ASSUME OcrExtract \/ OcrHandoff \/ OcrRetry \/ OcrNack \/ OcrAck
      PROVE  Remembers
  BY <1>2
     DEF OcrExtract, OcrHandoff, OcrRetry, OcrNack, OcrAck, Disturb, Handoff,
         RetryOrDeadLetter, Nack, Ack, Remembers
<1>3. QED
  BY <1>1, <1>2, AttemptedRemembers DEF OcrHandle

\* The calls of the chunker remember.
LEMMA ChunkRemembers ==
    ASSUME ChunkHandle
    PROVE  Remembers
<1>1. ASSUME NEW o, \/ ChunkCheck(o) \/ ChunkFetch(o) \/ ChunkStart(o)
                    \/ ChunkStartEvent(o) \/ ChunkInsert(o) \/ ChunkComplete(o)
                    \/ ChunkCompleteEvent(o) \/ ChunkRecord(o)
      PROVE  Attempted(o)
  BY <1>1
     DEF ChunkCheck, ChunkFetch, ChunkStart, ChunkStartEvent, ChunkInsert,
         ChunkComplete, ChunkCompleteEvent, ChunkRecord, CheckProcessed,
         FetchDocument, Read, Write
<1>2. ASSUME ChunkHandoff \/ ChunkRetry \/ ChunkAck PROVE Remembers
  BY <1>2
     DEF ChunkHandoff, ChunkRetry, ChunkAck, Handoff, RetryOrDeadLetter, Ack,
         Remembers
<1>3. QED
  BY <1>1, <1>2, AttemptedRemembers DEF ChunkHandle

\* The calls of the embedder remember.
LEMMA EmbedRemembers ==
    ASSUME EmbedHandle
    PROVE  Remembers
<1>1. ASSUME NEW o, \/ EmbedCheck(o) \/ EmbedFetch(o) \/ EmbedStart(o)
                    \/ EmbedStartEvent(o) \/ EmbedReadChunks(o) \/ EmbedWrite(o)
                    \/ EmbedComplete(o) \/ EmbedCompleteEvent(o)
                    \/ EmbedRecord(o) \/ EmbedTransientEvent(o)
      PROVE  Attempted(o)
  BY <1>1
     DEF EmbedCheck, EmbedFetch, EmbedStart, EmbedStartEvent, EmbedReadChunks,
         EmbedWrite, EmbedComplete, EmbedCompleteEvent, EmbedRecord,
         EmbedTransientEvent, CheckProcessed, FetchDocument, Read, Write
<1>2. ASSUME EmbedBatchFails \/ EmbedRetry \/ EmbedNack \/ EmbedAck
      PROVE  Remembers
  BY <1>2
     DEF EmbedBatchFails, EmbedRetry, EmbedNack, EmbedAck, Disturb,
         RetryOrDeadLetter, Nack, Ack, Remembers
<1>3. QED
  BY <1>1, <1>2, AttemptedRemembers DEF EmbedHandle

\* Every step remembers.
LEMMA RemembersNext ==
    ASSUME [Next]_vars
    PROVE  Remembers
<1>1. ASSUME NEW d \in Docs, ApiHandle(d) PROVE Remembers
  BY <1>1
     DEF ApiHandle, PutUpload, CommitDocument, RejectDocument,
         EnqueueFirstStage, AbortUpload, RetryDocument, Disturb, Remembers
<1>2. ASSUME NEW s \in Stages, HandleStep(s) PROVE Remembers
  BY <1>2, OcrRemembers, ChunkRemembers, EmbedRemembers DEF HandleStep
<1>3. ASSUME NEW s \in Stages,
             DeliverStep(s) \/ DisruptStep(s) \/ ReconnectStep(s)
      PROVE  Remembers
  BY <1>3
     DEF DeliverStep, Deliver, DisruptStep, Crash, Disconnect, ReconnectStep,
         Reconnect, Disturb, Remembers
<1>4. CASE TtlStep \/ UNCHANGED vars
  BY <1>4 DEF TtlStep, Expire, vars, Remembers
<1>5. QED
  BY <1>1, <1>2, <1>3, <1>4 DEF Next, ApiStep

\* So what did not happen by the end of a step had not happened before it.
LEMMA WithoutBefore ==
    ASSUME [Next]_vars
    PROVE  /\ \A kinds : Without(kinds)' => Without(kinds)
           /\ Steady' => Steady
           /\ NoRework' => NoRework
<1>1. Remembers
  BY RemembersNext
<1>2. \A kinds : Without(kinds)' => Without(kinds)
  BY <1>1 DEF Remembers, Without
<1>3. QED
  BY <1>2 DEF Steady, NoRework

-----------------------------------------------------------------------------
(* Workers.                                                                *)

Still(s) ==
    /\ pc'[s] = pc[s] /\ held'[s] = held[s]
    /\ seen'[s] = seen[s] /\ batch'[s] = batch[s]

\* A worker takes a delivery, or dies.
Takes(s) == pc[s] = "idle" /\ pc'[s] = "check"
Dies(s) == pc'[s] = "idle" /\ "crash" \in trouble'.met

\* The types the proofs below use.
LEMMA OrderTypes ==
    ASSUME AllInv
    PROVE  /\ pc \in [Stages -> Labels]
           /\ held \in [Stages -> Messages \cup {NoMessage}]
           /\ seen \in [Stages -> Statuses]
           /\ batch \in [Stages -> Nat]
           /\ linked \in [Stages -> BOOLEAN]
           /\ status \in [Docs -> Statuses]
           /\ stamped \in [Docs -> SUBSET Stages]
           /\ chunks \in [Docs -> [gen : Nat, embedded : BOOLEAN]]
           /\ events \in [Docs -> SUBSET Event]
           /\ processed \subseteq MessageIds
           /\ sent \subseteq MessageIds
           /\ mainq \in [Messages -> Nat]
           /\ retryq \in [Messages -> Nat]
           /\ dlq \in [Messages -> Nat]
BY DEF AllInv, TypeInv, TypeOK, BrokerTypeOK, ConsumerTypeOK, StoreTypeOK, Queue

\* A call of one worker leaves the others where they are.
LEMMA OthersStill ==
    ASSUME AllInv, NEW s \in Stages, NEW t \in Stages \ {s}, HandleStep(s)
    PROVE  Still(t)
<1>1. CASE s = "ocr"
  BY <1>1, OrderTypes
     DEF Still, HandleStep, OcrHandle, OcrCheck, OcrFetch, OcrStart,
         OcrStartEvent, OcrExtract, OcrComplete, OcrCompleteEvent, OcrRecord,
         OcrHandoff, OcrFail, OcrFailEvent, OcrTransientEvent, OcrRetry,
         OcrNack, OcrAck, CheckProcessed, FetchDocument, Read, Write, Handoff,
         RetryOrDeadLetter, Nack, Ack, Finish, Goto, jobVars
<1>2. CASE s = "chunk"
  BY <1>2, OrderTypes
     DEF Still, HandleStep, ChunkHandle, ChunkCheck, ChunkFetch, ChunkStart,
         ChunkStartEvent, ChunkInsert, ChunkComplete, ChunkCompleteEvent,
         ChunkRecord, ChunkHandoff, ChunkRetry, ChunkAck, CheckProcessed,
         FetchDocument, Read, Write, Handoff, RetryOrDeadLetter, Ack, Finish,
         Goto, jobVars
<1>3. CASE s = "embed"
  BY <1>3, OrderTypes
     DEF Still, HandleStep, EmbedHandle, EmbedCheck, EmbedFetch, EmbedStart,
         EmbedStartEvent, EmbedReadChunks, EmbedBatchFails, EmbedWrite,
         EmbedComplete, EmbedCompleteEvent, EmbedRecord, EmbedTransientEvent,
         EmbedRetry, EmbedNack, EmbedAck, CheckProcessed, FetchDocument, Read,
         Write, RetryOrDeadLetter, Nack, Ack, Finish, Goto, jobVars
<1>4. QED
  BY <1>1, <1>2, <1>3 DEF Stages

\* Only its own calls move a busy worker, or its death.
LEMMA OthersStay ==
    ASSUME AllInv, [Next]_vars, NEW t \in Stages
    PROVE  HandleStep(t) \/ Still(t) \/ Takes(t) \/ Dies(t)
<1>1. ASSUME NEW s \in Stages, HandleStep(s)
      PROVE  HandleStep(t) \/ Still(t)
  BY <1>1, OthersStill
<1>2. ASSUME NEW s \in Stages, DeliverStep(s)
      PROVE  Still(t) \/ Takes(t)
  BY <1>2, OrderTypes DEF DeliverStep, Deliver, Goto, Still, Takes
<1>3. ASSUME NEW s \in Stages, DisruptStep(s)
      PROVE  Still(t) \/ Dies(t)
  BY <1>3, OrderTypes
     DEF DisruptStep, Crash, Disconnect, Disturb, Finish, Goto, jobVars, Still,
         Dies
<1>4. ASSUME NEW s \in Stages, ReconnectStep(s)
      PROVE  Still(t)
  BY <1>4 DEF ReconnectStep, Reconnect, jobVars, Still
<1>5. ASSUME ApiStep \/ TtlStep \/ UNCHANGED vars
      PROVE  Still(t)
  BY <1>5 DEF Still, ApiStep, TtlStep, vars, consumerVars, jobVars
<1>6. QED
  BY <1>1, <1>2, <1>3, <1>4, <1>5 DEF Next

-----------------------------------------------------------------------------
(* Rows.                                                                   *)

\* Which status each worker writes, and at which call.
Writes(s, label, new) ==
    \/ s = "ocr" /\ \/ label = "start" /\ new = "ocr_processing"
                    \/ label = "complete" /\ new = "ocr_completed"
                    \/ label = "fail" /\ new = "failed"
    \/ s = "chunk" /\ \/ label = "start" /\ new = "chunking"
                      \/ label = "complete" /\ new = "chunked"
    \/ s = "embed" /\ \/ label = "start" /\ new = "embedding"
                      \/ label = "complete" /\ new = "embedded"

Creates(d) ==
    /\ status[d] = "absent"
    /\ status' = [status EXCEPT ![d] = "uploaded"]
    /\ UNCHANGED <<chunks, sent>>

Updates(s, new) ==
    /\ Writes(s, pc[s], new)
    /\ pc'[s] # pc[s]
    /\ status' = [status EXCEPT ![Doc(s)] = new]
    /\ UNCHANGED <<chunks, sent>>

\* The chunker replaces the rows of its document.
Replaces ==
    /\ pc["chunk"] = "write" /\ pc'["chunk"] # "write"
    /\ \A d \in Docs \ {Doc("chunk")} : chunks'[d] = chunks[d]

\* The embedder may complete the rows it read.
Completes ==
    /\ pc["embed"] = "write" /\ pc'["embed"] # "write"
    /\ \A d \in Docs : /\ chunks'[d].gen = chunks[d].gen
                       /\ chunks[d].embedded => chunks'[d].embedded

\* The first message of a stage is published.
OcrIsSent == \E d \in Docs : sent' = sent \cup {OcrId(d)}
ChunkIsSent ==
    pc["ocr"] = "handoff" /\ sent' = sent \cup {ChunkId(Doc("ocr"))}
EmbedIsSent ==
    /\ pc["chunk"] = "handoff" /\ pc'["chunk"] = "ack"
    /\ \E n \in Nat : sent' = sent \cup {EmbedId(Doc("chunk"), n)}

RowsMove ==
    \/ UNCHANGED <<status, chunks, sent>>
    \/ \E d \in Docs : Creates(d)
    \/ \E s \in Stages, new \in Statuses : pc[s] # "idle" /\ Updates(s, new)
    \/ UNCHANGED <<status, sent>> /\ (Replaces \/ Completes)
    \/ UNCHANGED <<status, chunks>> /\ (OcrIsSent \/ ChunkIsSent \/ EmbedIsSent)

\* The calls of the OCR worker.
LEMMA RowsOcr ==
    ASSUME AllInv, OcrHandle
    PROVE  RowsMove
<1> USE DEF Stages
<1>1. ASSUME NEW o, OcrStart(o) \/ OcrComplete(o) \/ OcrFail(o)
      PROVE  RowsMove
  <2>1. \E new \in Statuses :
            \/ Updates("ocr", new)
            \/ UNCHANGED <<status, chunks, sent>>
    BY <1>1, OrderTypes
       DEF OcrStart, OcrComplete, OcrFail, Write, Goto, UpdateStatus, Updates,
           Writes, Statuses, brokerVars
  <2>2. pc["ocr"] # "idle"
    BY <1>1 DEF OcrStart, OcrComplete, OcrFail, Write
  <2>3. QED
    BY <2>1, <2>2 DEF RowsMove
<1>2. ASSUME OcrHandoff
      PROVE  RowsMove
  BY <1>2
     DEF OcrHandoff, Handoff, Publish, FirstAttempt, storeVars, RowsMove,
         ChunkIsSent
<1>3. ASSUME NEW o, \/ OcrCheck(o) \/ OcrFetch(o) \/ OcrStartEvent(o)
                    \/ OcrCompleteEvent(o) \/ OcrRecord(o) \/ OcrFailEvent(o)
                    \/ OcrTransientEvent(o) \/ OcrExtract \/ OcrRetry
                    \/ OcrNack \/ OcrAck
      PROVE  RowsMove
  BY <1>3
     DEF OcrCheck, OcrFetch, OcrStartEvent, OcrCompleteEvent, OcrRecord,
         OcrFailEvent, OcrTransientEvent, OcrExtract, OcrRetry, OcrNack, OcrAck,
         CheckProcessed, FetchDocument, Read, Write, RetryOrDeadLetter, Nack,
         Ack, brokerVars, storeVars, RowsMove
<1>4. QED
  BY <1>1, <1>2, <1>3 DEF OcrHandle

\* The calls of the chunker.
LEMMA RowsChunk ==
    ASSUME AllInv, ChunkHandle
    PROVE  RowsMove
<1> USE DEF Stages
<1>1. ASSUME NEW o, ChunkStart(o) \/ ChunkComplete(o)
      PROVE  RowsMove
  <2>1. \E new \in Statuses :
            \/ Updates("chunk", new)
            \/ UNCHANGED <<status, chunks, sent>>
    BY <1>1, OrderTypes
       DEF ChunkStart, ChunkComplete, Write, Goto, UpdateStatus, Updates,
           Writes, Statuses, brokerVars
  <2>2. pc["chunk"] # "idle"
    BY <1>1 DEF ChunkStart, ChunkComplete, Write
  <2>3. QED
    BY <2>1, <2>2 DEF RowsMove
<1>2. ASSUME NEW o, ChunkInsert(o)
      PROVE  RowsMove
  BY <1>2, OrderTypes
     DEF ChunkInsert, Write, Goto, InsertChunks, brokerVars, RowsMove, Replaces
<1>3. ASSUME ChunkHandoff
      PROVE  RowsMove
  <2> DEFINE d == Doc("chunk")
             n == minted[d] + 1
  <2>1. /\ pc["chunk"] = "handoff" /\ pc'["chunk"] = "ack"
        /\ UNCHANGED <<status, chunks>>
        /\ sent' = sent \cup {EmbedId(d, n)} \/ sent' = sent
    BY <1>3, OrderTypes
       DEF ChunkHandoff, Handoff, Publish, FirstAttempt, Goto, storeVars
  <2>2. n \in Nat
    <3>1. d \in Docs
      BY <2>1, BusyFacts
    <3>2. QED
      BY <3>1, DeliveryTypes, IngestAssumption
  <2> HIDE DEF d, n
  <2>3. QED
    BY <2>1, <2>2 DEF RowsMove, EmbedIsSent, d
<1>4. ASSUME NEW o, \/ ChunkCheck(o) \/ ChunkFetch(o) \/ ChunkStartEvent(o)
                    \/ ChunkCompleteEvent(o) \/ ChunkRecord(o) \/ ChunkRetry
                    \/ ChunkAck
      PROVE  RowsMove
  BY <1>4
     DEF ChunkCheck, ChunkFetch, ChunkStartEvent, ChunkCompleteEvent,
         ChunkRecord, ChunkRetry, ChunkAck, CheckProcessed, FetchDocument, Read,
         Write, RetryOrDeadLetter, Ack, brokerVars, storeVars, RowsMove
<1>5. QED
  BY <1>1, <1>2, <1>3, <1>4 DEF ChunkHandle

\* The calls of the embedder.
LEMMA RowsEmbed ==
    ASSUME AllInv, EmbedHandle
    PROVE  RowsMove
<1> USE DEF Stages
<1>1. ASSUME NEW o, EmbedStart(o) \/ EmbedComplete(o)
      PROVE  RowsMove
  <2>1. \E new \in Statuses :
            \/ Updates("embed", new)
            \/ UNCHANGED <<status, chunks, sent>>
    BY <1>1, OrderTypes
       DEF EmbedStart, EmbedComplete, Write, Goto, UpdateStatus, Updates,
           Writes, Statuses, brokerVars
  <2>2. pc["embed"] # "idle"
    BY <1>1 DEF EmbedStart, EmbedComplete, Write
  <2>3. QED
    BY <2>1, <2>2 DEF RowsMove
<1>2. ASSUME NEW o, EmbedWrite(o)
      PROVE  RowsMove
  <2>1. \A d \in Docs : /\ chunks'[d].gen = chunks[d].gen
                        /\ chunks[d].embedded => chunks'[d].embedded
    BY <1>2, OrderTypes DEF EmbedWrite, WriteEmbeddings
  <2>2. QED
    BY <1>2, <2>1, OrderTypes
       DEF EmbedWrite, Write, Goto, brokerVars, RowsMove, Completes
<1>3. ASSUME NEW o, \/ EmbedCheck(o) \/ EmbedFetch(o) \/ EmbedStartEvent(o)
                    \/ EmbedReadChunks(o) \/ EmbedCompleteEvent(o)
                    \/ EmbedRecord(o) \/ EmbedTransientEvent(o)
                    \/ EmbedBatchFails \/ EmbedRetry \/ EmbedNack \/ EmbedAck
      PROVE  RowsMove
  BY <1>3
     DEF EmbedCheck, EmbedFetch, EmbedStartEvent, EmbedReadChunks,
         EmbedCompleteEvent, EmbedRecord, EmbedTransientEvent, EmbedBatchFails,
         EmbedRetry, EmbedNack, EmbedAck, CheckProcessed, FetchDocument, Read,
         Write, RetryOrDeadLetter, Nack, Ack, brokerVars, storeVars, RowsMove
<1>4. QED
  BY <1>1, <1>2, <1>3 DEF EmbedHandle

\* The steps of CreateDocument and RetryDocument.
LEMMA RowsApi ==
    ASSUME AllInv, ApiStep
    PROVE  RowsMove
<1>1. PICK d \in Docs : ApiHandle(d)
  BY DEF ApiStep
<1>2. CASE CommitDocument(d)
  <2>1. upload[d] = "stored" /\ status' = [status EXCEPT ![d] = "uploaded"]
        /\ UNCHANGED <<chunks, sent>>
    BY <1>2 DEF CommitDocument, Progress, brokerVars
  <2>2. status[d] = "absent"
    BY <2>1 DEF AllInv, SafetyInv, MessageInv, RowFollowsUpload
  <2>3. QED
    BY <2>1, <2>2 DEF RowsMove, Creates
<1>3. CASE EnqueueFirstStage(d)
  BY <1>3
     DEF EnqueueFirstStage, Publish, FirstAttempt, storeVars, RowsMove,
         OcrIsSent
<1>4. CASE PutUpload(d) \/ RejectDocument(d) \/ AbortUpload(d)
           \/ RetryDocument(d)
  BY <1>4
     DEF PutUpload, RejectDocument, AbortUpload, RetryDocument, brokerVars,
         storeVars, RowsMove
<1>5. QED
  BY <1>1, <1>2, <1>3, <1>4 DEF ApiHandle

\* Every step writes rows and publishes messages in one of these ways.
LEMMA RowsNext ==
    ASSUME AllInv, [Next]_vars
    PROVE  RowsMove
<1>1. ASSUME NEW s \in Stages, HandleStep(s) PROVE RowsMove
  BY <1>1, RowsOcr, RowsChunk, RowsEmbed DEF HandleStep
<1>2. ASSUME NEW s \in Stages,
             DeliverStep(s) \/ DisruptStep(s) \/ ReconnectStep(s)
      PROVE  RowsMove
  BY <1>2
     DEF DeliverStep, Deliver, DisruptStep, Crash, Disconnect, ReconnectStep,
         Reconnect, brokerVars, storeVars, RowsMove
<1>3. CASE TtlStep \/ UNCHANGED vars
  BY <1>3 DEF TtlStep, Expire, vars, brokerVars, storeVars, RowsMove
<1>4. QED
  BY <1>1, <1>2, <1>3, RowsApi DEF Next

-----------------------------------------------------------------------------
(* What a worker may rely on.                                              *)

OcrOwns == {"fetch", "start", "startEvent", "work", "complete",
            "completeEvent", "record", "handoff", "fail", "failEvent"}

\* Nobody else has heard of a document OCR works on.
LEMMA OcrAlone ==
    ASSUME FullInv, pc["ocr"] \in OcrOwns
    PROVE  ChunkId(Doc("ocr")) \notin sent
<1>1. Doc("ocr") \in Docs /\ held["ocr"].id = OcrId(Doc("ocr"))
  BY BusyFacts DEF FullInv, OcrOwns, Stages
<1>2. CASE pc["ocr"] = "handoff"
  BY <1>2 DEF FullInv, DeliveryInv, HandoffIsFirst
<1>3. CASE pc["ocr"] # "handoff"
  BY <1>1, <1>3
     DEF OcrOwns, FullInv, AllInv, SafetyInv, WorkerInv, OcrIsFresh, MessageInv,
         ChunkIsHandedOver
<1>4. QED
  BY <1>2, <1>3

\* The embed message the embedder works on was published.
LEMMA EmbedKnows ==
    ASSUME AllInv, pc["embed"] # "idle"
    PROVE  EmbedSent(Doc("embed"))
<1>1. /\ held["embed"].id \in sent /\ held["embed"].id.stage = "embed"
      /\ held["embed"].id.doc = Doc("embed")
  BY BusyFacts DEF Stages, Doc
<1>2. QED
  BY <1>1 DEF EmbedSent

\* An embed message follows a chunk message.
LEMMA EmbedFollowsChunk ==
    ASSUME AllInv, NEW d \in Docs, EmbedSent(d)
    PROVE  /\ ChunkId(d) \in sent
           /\ chunks[d].gen > 0
BY DEF EmbedSent, AllInv, SafetyInv, MessageInv, EmbedIsReady

\* Only the chunker's hand-off sends the embed messages of its document.
LEMMA EmbedSentNext ==
    ASSUME AllInv, RowsMove, NEW d \in Docs, EmbedSent(d)'
    PROVE  \/ EmbedSent(d)
           \/ /\ pc["chunk"] = "handoff" /\ pc'["chunk"] = "ack"
              /\ d = Doc("chunk")
              /\ UNCHANGED <<status, chunks>>
<1>1. PICK id \in sent' : id.stage = "embed" /\ id.doc = d
  BY DEF EmbedSent
<1>2. CASE id \in sent
  BY <1>1, <1>2 DEF EmbedSent
<1>3. CASE id \notin sent
  BY <1>1, <1>3
     DEF RowsMove, Creates, Updates, OcrIsSent, ChunkIsSent, EmbedIsSent, OcrId,
         ChunkId, EmbedId
<1>4. QED
  BY <1>2, <1>3

\* No message is taken back.
LEMMA SentStays ==
    ASSUME RowsMove
    PROVE  /\ sent \subseteq sent'
           /\ \A d : EmbedSent(d) => EmbedSent(d)'
<1>1. sent \subseteq sent'
  BY DEF RowsMove, Creates, Updates, OcrIsSent, ChunkIsSent, EmbedIsSent
<1>2. QED
  BY <1>1 DEF EmbedSent

\* A row changes only at its creation, or at a status write of a worker that
\* holds a message about it.
LEMMA RowsChange ==
    ASSUME AllInv, RowsMove, NEW d \in Docs, status'[d] # status[d]
    PROVE  \/ status[d] = "absent" /\ status'[d] = "uploaded"
           \/ \E s \in Stages :
                 /\ pc[s] # "idle" /\ pc'[s] # pc[s] /\ Doc(s) = d
                 /\ Writes(s, pc[s], status'[d])
                 /\ UNCHANGED <<chunks, sent>>
<1>1. status \in [Docs -> Statuses]
  BY OrderTypes
<1>2. CASE \E e \in Docs : Creates(e)
  BY <1>1, <1>2 DEF Creates
<1>3. ASSUME NEW s \in Stages, NEW new \in Statuses, pc[s] # "idle",
             Updates(s, new)
      PROVE  /\ pc'[s] # pc[s] /\ Doc(s) = d
             /\ Writes(s, pc[s], status'[d])
             /\ UNCHANGED <<chunks, sent>>
  <2>1. Doc(s) = d /\ status'[d] = new
    BY <1>1, <1>3 DEF Updates
  <2>2. QED
    BY <1>3, <2>1 DEF Updates
<1>4. QED
  BY <1>2, <1>3 DEF RowsMove

-----------------------------------------------------------------------------
(* Under every disturbance.                                                *)

\* A status of a later stage follows the message of that stage.
LEMMA StatusFollowsMessageNext ==
    ASSUME FullInv, StatusFollowsMessage, RowsMove
    PROVE  StatusFollowsMessage'
<1> USE DEF FullInv
<1> SUFFICES ASSUME NEW d \in Docs
             PROVE  /\ status'[d] \in {"chunking", "chunked", "embedding",
                                       "embedded"} => ChunkId(d) \in sent'
                    /\ status'[d] \in {"embedding", "embedded"} =>
                           EmbedSent(d)'
  BY DEF StatusFollowsMessage, ChunkId
<1>1. sent \subseteq sent' /\ (EmbedSent(d) => EmbedSent(d)')
  BY SentStays
<1>2. CASE status'[d] = status[d]
  BY <1>1, <1>2 DEF StatusFollowsMessage
<1>3. CASE status'[d] = "uploaded"
  BY <1>3
<1>4. ASSUME NEW s \in Stages, pc[s] # "idle", Doc(s) = d,
             Writes(s, pc[s], status'[d])
      PROVE  /\ status'[d] \in {"chunking", "chunked", "embedding",
                                "embedded"} => ChunkId(d) \in sent
             /\ status'[d] \in {"embedding", "embedded"} => EmbedSent(d)
  BY <1>4, BusyFacts, EmbedKnows DEF Writes
<1>5. QED
  BY <1>1, <1>2, <1>3, <1>4, RowsChange

\* Dead letters and recorded messages were published.
LEMMA DeadIsSentNext ==
    ASSUME FullInv, DeadIsSent, RecordedIsSent, StoreGrows, Flow
    PROVE  DeadIsSent' /\ RecordedIsSent'
<1> USE DEF FullInv
<1>1. sent \subseteq sent'
  BY DEF Flow, SentGrows
<1>2. ASSUME NEW m \in Messages, dlq'[m] > 0 PROVE m.id \in sent
  <2>1. dlq[m] > 0 \/ Live(m)
    BY <1>2 DEF Flow, CopiesArePaid
  <2>2. QED
    BY <2>1 DEF DeadIsSent, AllInv, SafetyInv, MessageInv, LiveIsSent
<1>3. ASSUME NEW id \in processed' PROVE id \in sent
  <2>1. \/ id \in processed
        \/ \E s \in Stages : pc[s] = "record" /\ held[s].id = id
    BY DEF StoreGrows
  <2>2. QED
    BY <2>1, BusyFacts DEF RecordedIsSent
<1>4. QED
  BY <1>1, <1>2, <1>3 DEF DeadIsSent, RecordedIsSent

\* Nobody but OCR writes the status of its document: while others move,
LEMMA OcrPlaceOther ==
    ASSUME FullInv, OcrPlace, RowsMove, Still("ocr")
    PROVE  OcrPlace'
<1> USE DEF FullInv
<1> SUFFICES ASSUME pc["ocr"] \in {"startEvent", "work", "complete", "fail",
                                   "completeEvent", "record", "handoff"}
             PROVE  status'[Doc("ocr")] = status[Doc("ocr")]
  BY DEF OcrPlace, Still, Doc
<1>1. /\ Doc("ocr") \in Docs /\ ChunkId(Doc("ocr")) \notin sent
      /\ status[Doc("ocr")] # "absent"
  BY OcrAlone, BusyFacts DEF OcrOwns, OcrPlace, Stages
<1>2. ASSUME NEW s \in Stages, pc[s] # "idle", pc'[s] # pc[s],
             Doc(s) = Doc("ocr")
      PROVE  FALSE
  BY <1>1, <1>2, BusyFacts DEF Still
<1>3. QED
  BY <1>1, <1>2, RowsChange

\* and while it moves itself.
LEMMA OcrPlaceSelf ==
    ASSUME AllInv, OcrPlace, OcrHandle
    PROVE  OcrPlace'
<1> USE DEF Stages
<1>1. pc \in [Stages -> Labels] /\ status \in [Docs -> Statuses]
  BY OrderTypes
<1>2. pc["ocr"] # "idle" => Doc("ocr") \in Docs
  BY BusyFacts
<1>3. ASSUME NEW o, OcrStart(o) \/ OcrComplete(o) \/ OcrFail(o)
      PROVE  OcrPlace'
  BY <1>1, <1>2, <1>3
     DEF OcrStart, OcrComplete, OcrFail, Write, Goto, jobVars, UpdateStatus,
         Applied, Doc, OcrPlace
<1>4. ASSUME NEW o, \/ OcrStartEvent(o) \/ OcrCompleteEvent(o) \/ OcrRecord(o)
                    \/ OcrFailEvent(o) \/ OcrTransientEvent(o) \/ OcrExtract
      PROVE  OcrPlace'
  BY <1>1, <1>4
     DEF OcrStartEvent, OcrCompleteEvent, OcrRecord, OcrFailEvent,
         OcrTransientEvent, OcrExtract, Write, Goto, jobVars, storeVars, Doc,
         OcrPlace
<1>5. ASSUME NEW o, \/ OcrCheck(o) \/ OcrFetch(o) \/ OcrHandoff \/ OcrRetry
                    \/ OcrNack \/ OcrAck
      PROVE  OcrPlace'
  BY <1>1, <1>5
     DEF OcrCheck, OcrFetch, OcrHandoff, OcrRetry, OcrNack, OcrAck,
         CheckProcessed, FetchDocument, Read, Handoff, RetryOrDeadLetter, Nack,
         Ack, Finish, Goto, OcrPlace
<1>6. QED
  BY <1>3, <1>4, <1>5 DEF OcrHandle

\* A worker that takes a delivery or dies is before its first call.
LEMMA OcrPlaceNext ==
    ASSUME FullInv, OcrPlace, [Next]_vars
    PROVE  OcrPlace'
<1> USE DEF FullInv
<1>1. CASE Takes("ocr") \/ Dies("ocr")
  BY <1>1 DEF Takes, Dies, OcrPlace
<1>2. QED
  BY <1>1, OthersStay, RowsNext, OcrPlaceOther, OcrPlaceSelf
     DEF HandleStep, Stages

\* The chunker moves itself,
LEMMA ChunkIsFreshSelf ==
    ASSUME AllInv, ChunkIsFresh, ChunkHandle
    PROVE  ChunkIsFresh'
<1> USE DEF Stages, ChunkIsFresh, ChunkerOwns
<1>1. pc \in [Stages -> Labels]
  BY OrderTypes
<1>2. ASSUME NEW o, \/ ChunkCheck(o) \/ ChunkFetch(o) \/ ChunkStart(o)
                    \/ ChunkStartEvent(o) \/ ChunkInsert(o) \/ ChunkComplete(o)
                    \/ ChunkCompleteEvent(o)
      PROVE  ChunkIsFresh'
  BY <1>1, <1>2
     DEF ChunkCheck, ChunkFetch, ChunkStart, ChunkStartEvent, ChunkInsert,
         ChunkComplete, ChunkCompleteEvent, CheckProcessed, FetchDocument, Read,
         Write, Goto, jobVars, storeVars
<1>3. ASSUME NEW o, ChunkRecord(o) \/ ChunkHandoff \/ ChunkRetry \/ ChunkAck
      PROVE  ChunkIsFresh'
  BY <1>1, <1>3
     DEF ChunkRecord, ChunkHandoff, ChunkRetry, ChunkAck, Write, Handoff,
         RetryOrDeadLetter, Ack, Finish, Goto
<1>4. QED
  BY <1>2, <1>3 DEF ChunkHandle

\* and nobody else records its message.
LEMMA ChunkIsFreshNext ==
    ASSUME FullInv, ChunkIsFresh, [Next]_vars
    PROVE  ChunkIsFresh'
<1> USE DEF FullInv
<1>1. CASE Takes("chunk") \/ Dies("chunk")
  BY <1>1 DEF Takes, Dies, ChunkIsFresh, ChunkerOwns
<1>2. CASE Still("chunk") /\ pc["chunk"] # "idle"
  <2>1. ASSUME held["chunk"].id \in processed' \ processed PROVE FALSE
    <3>1. PICK s \in Stages : /\ pc[s] = "record" /\ pc'[s] # "record"
                              /\ held[s].id = held["chunk"].id
      BY <2>1, StoreNext DEF StoreGrows
    <3>2. s = "chunk"
      BY <1>2, <3>1, BusyFacts DEF Stages
    <3>3. QED
      BY <1>2, <3>1, <3>2 DEF Still
  <2>2. QED
    BY <1>2, <2>1 DEF ChunkIsFresh, Still
<1>3. CASE Still("chunk") /\ pc["chunk"] = "idle"
  BY <1>3 DEF Still, ChunkIsFresh, ChunkerOwns
<1>4. QED
  BY <1>1, <1>2, <1>3, OthersStay, ChunkIsFreshSelf DEF HandleStep, Stages

\* The part that holds under every disturbance is preserved by every step.
LEMMA StageNext ==
    ASSUME FullInv, StageInv, [Next]_vars
    PROVE  StageInv'
<1>1. AllInv /\ RowsMove /\ StoreGrows /\ Flow
  BY RowsNext, StoreNext, FlowNext DEF FullInv
<1>2. QED
  BY <1>1, StatusFollowsMessageNext, DeadIsSentNext, OcrPlaceNext,
     ChunkIsFreshNext
     DEF StageInv

-----------------------------------------------------------------------------
(* Copies of messages, while channels stay open and processes alive.       *)

Copies(m) == mainq[m] + retryq[m] + dlq[m]

\* The message has n more copies in queues, and no other message any more.
Gains(c, n) ==
    /\ Copies(c)' = Copies(c) + n
    /\ \A m \in Messages \ {c} : Copies(m)' = Copies(m)

\* A worker that is busy was busy with the same delivery, and it never comes
\* back from its last calls.
Onward(s) ==
    pc'[s] # "idle" =>
        /\ pc[s] # "idle" /\ held'[s] = held[s]
        /\ pc[s] = "ack" => pc'[s] = "ack"
        /\ pc[s] \in {"handoff", "ack"} => pc'[s] \in {"handoff", "ack"}

\* No copy is made or taken.
Rests ==
    /\ sent' = sent
    /\ \A m \in Messages : Copies(m)' = Copies(m)
    /\ \A s \in Stages : Onward(s)

\* A message is published for the first time.
Publishes ==
    /\ \A s \in Stages : Onward(s)
    /\ \E c \in Messages :
          /\ c.id \notin sent /\ sent' = sent \cup {c.id}
          /\ Gains(c, 1)
          /\ c.id.stage = "embed" =>
                 /\ pc["chunk"] = "handoff" /\ pc'["chunk"] = "ack"
                 /\ c.id.doc = Doc("chunk")

\* A worker gives its delivery back, to be retried or as a dead letter.
Returns(s) ==
    /\ sent' = sent
    /\ pc[s] \in {"retry", "nack"} /\ pc'[s] \in {"ack", "idle"}
    /\ \A t \in Stages : Onward(t)
    /\ \E c \in Messages : c.id = held[s].id /\ Gains(c, 1)

\* A worker takes a delivery.
Receives(s) ==
    /\ sent' = sent
    /\ pc[s] = "idle" /\ pc'[s] = "check"
    /\ \A t \in Stages \ {s} : Onward(t)
    /\ \E c \in Messages : /\ held'[s] = c
                           /\ Copies(c) = Copies(c)' + 1
                           /\ \A m \in Messages \ {c} : Copies(m)' = Copies(m)

CopiesMove == Rests \/ Publishes \/ \E s \in Stages : Returns(s) \/ Receives(s)

\* A message has a copy in a queue just when it is in one.
LEMMA InQueueCopies ==
    ASSUME AllInv, NEW m \in Messages
    PROVE  Copies(m) \in Nat /\ (InQueue(m) <=> Copies(m) > 0)
BY OrderTypes DEF Copies, InQueue

\* Steps that leave workers and messages alone.
LEMMA CopiesQuiet ==
    ASSUME UNCHANGED <<mainq, retryq, dlq, sent, pc, held>>
    PROVE  CopiesMove
BY DEF CopiesMove, Rests, Copies, Onward

\* A busy worker goes on to its next call.
LEMMA CopiesGoOn ==
    ASSUME AllInv, NEW s \in Stages, pc[s] \notin {"idle", "handoff", "ack"},
           NEW label, Goto(s, label), UNCHANGED <<brokerVars, held>>
    PROVE  CopiesMove
BY OrderTypes DEF CopiesMove, Rests, Copies, Onward, Goto, brokerVars

\* A database write makes no copy.
LEMMA CopiesWrite ==
    ASSUME AllInv, NEW s \in Stages,
           NEW here, here \notin {"idle", "handoff", "ack"}, NEW o, NEW next,
           NEW onError, Write(s, here, o, next, onError)
    PROVE  CopiesMove
BY CopiesGoOn DEF Write, jobVars

\* A database read makes no copy.
LEMMA CopiesRead ==
    ASSUME AllInv, NEW s \in Stages,
           NEW here, here \notin {"idle", "handoff", "ack"}, NEW o, NEW next,
           NEW onError, Read(s, here, o, next, onError)
    PROVE  CopiesMove
BY CopiesGoOn DEF Read

\* A copy of a failed delivery, or the delivery itself, is queued.
LEMMA CopiesRetry ==
    ASSUME AllInv, Connected, NEW s \in Stages, RetryOrDeadLetter(s)
    PROVE  Returns(s)
<1> DEFINE h == held[s]
           c == [h EXCEPT !.attempt = @ + 1]
<1>1. pc[s] = "retry" /\ h \in Messages /\ linked[s]
  BY BusyFacts DEF RetryOrDeadLetter, Connected
<1>2. /\ pc' = [pc EXCEPT ![s] = "ack"]
      /\ UNCHANGED <<mainq, sent, held>>
      /\ \/ h.attempt >= MaxRetries /\ dlq' = Add(dlq, h) /\ retryq' = retryq
         \/ ~(h.attempt >= MaxRetries) /\ retryq' = Add(retryq, c) /\ dlq' = dlq
  BY <1>1 DEF RetryOrDeadLetter, Goto, jobVars
<1>3. c.id = h.id /\ (~(h.attempt >= MaxRetries) => c \in Messages)
  BY <1>1, NextAttempt DEF Messages
<1> HIDE DEF h, c
<1>4. \A t \in Stages : Onward(t)
  BY <1>1, <1>2, OrderTypes DEF Onward
<1>5. CASE h.attempt >= MaxRetries
  <2>1. dlq' = Add(dlq, h) /\ retryq' = retryq /\ mainq' = mainq
    BY <1>2, <1>5
  <2>2. ASSUME NEW k \in Messages, k = h PROVE Gains(k, 1)
    BY <2>1, <2>2, OrderTypes DEF Gains, Copies, Add
  <2>3. QED
    BY <1>1, <1>2, <1>4, <2>2, OrderTypes DEF Returns, h
<1>6. CASE ~(h.attempt >= MaxRetries)
  <2>1. retryq' = Add(retryq, c) /\ dlq' = dlq /\ mainq' = mainq /\ c \in Messages
    BY <1>2, <1>3, <1>6
  <2>2. ASSUME NEW k \in Messages, k = c PROVE Gains(k, 1)
    BY <2>1, <2>2, OrderTypes DEF Gains, Copies, Add
  <2>3. QED
    BY <1>1, <1>2, <1>3, <1>4, <2>1, <2>2, OrderTypes DEF Returns, h
<1>7. QED
  BY <1>5, <1>6

\* A rejected delivery is queued as it is.
LEMMA CopiesNack ==
    ASSUME AllInv, Connected, NEW s \in Stages, Nack(s)
    PROVE  Returns(s)
<1> DEFINE h == held[s]
<1>1. pc[s] = "nack" /\ h \in Messages /\ linked[s]
  BY BusyFacts DEF Nack, Connected
<1>2. /\ pc' = [pc EXCEPT ![s] = "idle"]
      /\ held' = [held EXCEPT ![s] = NoMessage]
      /\ UNCHANGED <<mainq, dlq, sent>>
      /\ retryq' = Add(retryq, h)
  BY <1>1 DEF Nack, Finish, Goto
<1> HIDE DEF h
<1>3. \A t \in Stages : Onward(t)
  BY <1>1, <1>2, OrderTypes DEF Onward
<1>4. ASSUME NEW k \in Messages, k = h PROVE Gains(k, 1)
  BY <1>1, <1>2, <1>4, OrderTypes DEF Gains, Copies, Add
<1>5. QED
  BY <1>1, <1>2, <1>3, <1>4, OrderTypes DEF Returns, h

\* An acknowledged delivery was no copy any more.
LEMMA CopiesAck ==
    ASSUME AllInv, NEW s \in Stages, Ack(s)
    PROVE  CopiesMove
<1>1. /\ pc[s] = "ack"
      /\ pc' = [pc EXCEPT ![s] = "idle"]
      /\ held' = [held EXCEPT ![s] = NoMessage]
      /\ UNCHANGED <<mainq, retryq, dlq, sent>>
  BY DEF Ack, Finish, Goto, brokerVars
<1>2. QED
  BY <1>1, OrderTypes DEF CopiesMove, Rests, Copies, Onward

\* A first publication, by a worker.
LEMMA CopiesHandoff ==
    ASSUME AllInv, Connected, NEW s \in Stages, NEW m \in Messages,
           Handoff(s, m), m.id \notin sent,
           m.id.stage = "embed" => s = "chunk" /\ m.id.doc = Doc("chunk")
    PROVE  CopiesMove
<1>1. /\ pc[s] = "handoff" /\ linked[s]
      /\ pc' = [pc EXCEPT ![s] = "ack"]
      /\ UNCHANGED <<retryq, dlq, held>>
      /\ mainq' = Add(mainq, m) /\ sent' = sent \cup {m.id}
  BY DEF Handoff, Connected, Publish, Goto, jobVars
<1>2. \A t \in Stages : Onward(t)
  BY <1>1, OrderTypes DEF Onward
<1>3. Gains(m, 1)
  BY <1>1, OrderTypes DEF Gains, Copies, Add
<1>4. m.id.stage = "embed" =>
          /\ pc["chunk"] = "handoff" /\ pc'["chunk"] = "ack"
          /\ m.id.doc = Doc("chunk")
  BY <1>1, OrderTypes
<1>5. Publishes
  BY <1>1, <1>2, <1>3, <1>4 DEF Publishes
<1>6. QED
  BY <1>5 DEF CopiesMove

\* A delivery takes a copy from its queue.
LEMMA CopiesDeliver ==
    ASSUME AllInv, NEW s \in Stages, NEW m \in Messages, Deliver(s, m)
    PROVE  CopiesMove
<1>1. /\ pc[s] = "idle" /\ mainq[m] > 0
      /\ pc' = [pc EXCEPT ![s] = "check"]
      /\ held' = [held EXCEPT ![s] = m]
      /\ mainq' = Remove(mainq, m)
      /\ UNCHANGED <<retryq, dlq, sent>>
  BY DEF Deliver, Goto
<1>2. \A t \in Stages \ {s} : Onward(t)
  BY <1>1, OrderTypes DEF Onward
<1>3. /\ Copies(m) = Copies(m)' + 1
      /\ \A k \in Messages \ {m} : Copies(k)' = Copies(k)
  BY <1>1, OrderTypes DEF Copies, Remove
<1>4. Receives(s)
  BY <1>1, <1>2, <1>3, OrderTypes DEF Receives
<1>5. QED
  BY <1>4 DEF CopiesMove

\* The end of a TTL moves a copy to another queue.
LEMMA CopiesExpire ==
    ASSUME AllInv, NEW m \in Messages, Expire(m), UNCHANGED consumerVars
    PROVE  CopiesMove
<1>1. /\ retryq[m] > 0
      /\ retryq' = Remove(retryq, m)
      /\ mainq' = Add(mainq, m)
      /\ UNCHANGED <<dlq, sent, pc, held>>
  BY DEF Expire, consumerVars, jobVars
<1>2. \A k \in Messages : Copies(k)' = Copies(k)
  BY <1>1, OrderTypes DEF Copies, Add, Remove
<1>3. QED
  BY <1>1, <1>2 DEF CopiesMove, Rests, Onward

\* CreateDocument publishes the ocr message of an upload once.
LEMMA CopiesApi ==
    ASSUME AllInv, ApiStep
    PROVE  CopiesMove
<1>1. PICK d \in Docs : ApiHandle(d)
  BY DEF ApiStep
<1>2. UNCHANGED <<pc, held>>
  BY DEF ApiStep, consumerVars, jobVars
<1>3. CASE EnqueueFirstStage(d)
  <2> DEFINE m == FirstAttempt(OcrId(d))
  <2>1. m \in Messages /\ m.id = OcrId(d) /\ m.id.stage = "ocr"
        /\ OcrId(d).doc = d
    <3>1. 1 \in 1..MaxSerial
      BY IngestAssumption
    <3>2. QED
      BY <3>1, FirstMessages DEF FirstAttempt, OcrId
  <2>2. /\ upload[d] = "committed"
        /\ mainq' = Add(mainq, m) /\ sent' = sent \cup {m.id}
        /\ UNCHANGED <<retryq, dlq>>
    BY <1>3 DEF EnqueueFirstStage, Publish, Progress
  <2>3. m.id \notin sent
    BY <2>1, <2>2 DEF AllInv, SafetyInv, MessageInv, SentIsUploaded
  <2> HIDE DEF m
  <2>4. Gains(m, 1)
    BY <2>1, <2>2, OrderTypes DEF Gains, Copies, Add
  <2>5. Publishes
    BY <1>2, <2>1, <2>2, <2>3, <2>4 DEF Publishes, Onward
  <2>6. QED
    BY <2>5 DEF CopiesMove
<1>4. CASE ~EnqueueFirstStage(d)
  BY <1>1, <1>2, <1>4, CopiesQuiet
     DEF ApiHandle, PutUpload, CommitDocument, RejectDocument, AbortUpload,
         RetryDocument, brokerVars
<1>5. QED
  BY <1>3, <1>4

\* The calls of the OCR worker.
LEMMA CopiesOcr ==
    ASSUME FullInv, Connected, OcrHandle
    PROVE  CopiesMove
<1> USE DEF Stages, FullInv
<1>1. ASSUME NEW o, OcrCheck(o) \/ OcrFetch(o) PROVE CopiesMove
  BY <1>1, CopiesRead DEF OcrCheck, OcrFetch, CheckProcessed, FetchDocument
<1>2. ASSUME NEW o, \/ OcrStart(o) \/ OcrStartEvent(o) \/ OcrComplete(o)
                    \/ OcrCompleteEvent(o) \/ OcrRecord(o) \/ OcrFail(o)
                    \/ OcrFailEvent(o) \/ OcrTransientEvent(o)
      PROVE  CopiesMove
  BY <1>2, CopiesWrite
     DEF OcrStart, OcrStartEvent, OcrComplete, OcrCompleteEvent, OcrRecord,
         OcrFail, OcrFailEvent, OcrTransientEvent
<1>3. ASSUME OcrExtract PROVE CopiesMove
  BY <1>3, CopiesGoOn DEF OcrExtract, jobVars
<1>4. ASSUME OcrHandoff PROVE CopiesMove
  <2> DEFINE m == FirstAttempt(ChunkId(Doc("ocr")))
  <2>1. pc["ocr"] = "handoff" /\ Doc("ocr") \in Docs /\ 1 \in 1..MaxSerial
    BY <1>4, BusyFacts, IngestAssumption DEF OcrHandoff, Handoff
  <2>2. m \in Messages /\ m.id = ChunkId(Doc("ocr")) /\ m.id.stage = "chunk"
    BY <2>1, FirstMessages DEF FirstAttempt, ChunkId
  <2>3. m.id \notin sent
    BY <2>1, <2>2, OcrAlone DEF OcrOwns
  <2>4. Handoff("ocr", m)
    BY <1>4 DEF OcrHandoff
  <2> HIDE DEF m
  <2>5. QED
    BY <2>2, <2>3, <2>4, CopiesHandoff
<1>5. ASSUME OcrRetry \/ OcrNack \/ OcrAck PROVE CopiesMove
  BY <1>5, CopiesRetry, CopiesNack, CopiesAck
     DEF OcrRetry, OcrNack, OcrAck, CopiesMove
<1>6. QED
  BY <1>1, <1>2, <1>3, <1>4, <1>5 DEF OcrHandle

\* The calls of the chunker.
LEMMA CopiesChunk ==
    ASSUME FullInv, Connected, ChunkHandle
    PROVE  CopiesMove
<1> USE DEF Stages, FullInv
<1>1. ASSUME NEW o, ChunkCheck(o) \/ ChunkFetch(o) PROVE CopiesMove
  BY <1>1, CopiesRead DEF ChunkCheck, ChunkFetch, CheckProcessed, FetchDocument
<1>2. ASSUME NEW o, \/ ChunkStart(o) \/ ChunkStartEvent(o) \/ ChunkInsert(o)
                    \/ ChunkComplete(o) \/ ChunkCompleteEvent(o)
                    \/ ChunkRecord(o)
      PROVE  CopiesMove
  BY <1>2, CopiesWrite
     DEF ChunkStart, ChunkStartEvent, ChunkInsert, ChunkComplete,
         ChunkCompleteEvent, ChunkRecord
<1>3. ASSUME ChunkHandoff PROVE CopiesMove
  <2> DEFINE d == Doc("chunk")
             n == minted[d] + 1
             m == FirstAttempt(EmbedId(d, n))
  <2>1. d \in Docs /\ minted[d] < MaxSerial
    BY <1>3, BusyFacts DEF ChunkHandoff
  <2>2. n \in 1..MaxSerial /\ ~(n <= minted[d])
    BY <2>1, DeliveryTypes, IngestAssumption
  <2>3. /\ m \in Messages
        /\ m.id.stage = "embed" /\ m.id.doc = d /\ m.id.serial = n
    BY <2>1, <2>2, FirstMessages DEF FirstAttempt, EmbedId
  <2>4. Handoff("chunk", m)
    BY <1>3 DEF ChunkHandoff
  <2> HIDE DEF m
  <2>5. m.id \notin sent
    BY <2>2, <2>3 DEF DeliveryInv, UuidsAreMinted
  <2> HIDE DEF n
  <2>6. QED
    BY <2>3, <2>4, <2>5, CopiesHandoff
<1>4. ASSUME ChunkRetry \/ ChunkAck PROVE CopiesMove
  BY <1>4, CopiesRetry, CopiesAck DEF ChunkRetry, ChunkAck, CopiesMove
<1>5. QED
  BY <1>1, <1>2, <1>3, <1>4 DEF ChunkHandle

\* The calls of the embedder.
LEMMA CopiesEmbed ==
    ASSUME AllInv, Connected, EmbedHandle
    PROVE  CopiesMove
<1> USE DEF Stages
<1>1. ASSUME NEW o, EmbedCheck(o) \/ EmbedFetch(o) \/ EmbedReadChunks(o)
      PROVE  CopiesMove
  BY <1>1, CopiesRead
     DEF EmbedCheck, EmbedFetch, EmbedReadChunks, CheckProcessed, FetchDocument
<1>2. ASSUME NEW o, \/ EmbedStart(o) \/ EmbedStartEvent(o) \/ EmbedWrite(o)
                    \/ EmbedComplete(o) \/ EmbedCompleteEvent(o)
                    \/ EmbedRecord(o) \/ EmbedTransientEvent(o)
      PROVE  CopiesMove
  BY <1>2, CopiesWrite
     DEF EmbedStart, EmbedStartEvent, EmbedWrite, EmbedComplete,
         EmbedCompleteEvent, EmbedRecord, EmbedTransientEvent
<1>3. ASSUME EmbedBatchFails PROVE CopiesMove
  BY <1>3, CopiesGoOn DEF EmbedBatchFails, jobVars
<1>4. ASSUME EmbedRetry \/ EmbedNack \/ EmbedAck PROVE CopiesMove
  BY <1>4, CopiesRetry, CopiesNack, CopiesAck
     DEF EmbedRetry, EmbedNack, EmbedAck, CopiesMove
<1>5. QED
  BY <1>1, <1>2, <1>3, <1>4 DEF EmbedHandle

\* Every step that is no crash and no lost channel moves copies in this way.
LEMMA CopiesNext ==
    ASSUME FullInv, Connected, [Next]_vars, Steady'
    PROVE  CopiesMove /\ Connected'
<1> USE DEF FullInv
<1>1. ASSUME NEW s \in Stages, HandleStep(s)
      PROVE  CopiesMove /\ linked' = linked
  <2>1. CopiesMove
    BY <1>1, CopiesOcr, CopiesChunk, CopiesEmbed DEF HandleStep
  <2>2. CASE OcrHandle
    BY <2>1, <2>2
       DEF OcrHandle, OcrCheck, OcrFetch, OcrStart, OcrStartEvent, OcrExtract,
           OcrComplete, OcrCompleteEvent, OcrRecord, OcrHandoff, OcrFail,
           OcrFailEvent, OcrTransientEvent, OcrRetry, OcrNack, OcrAck,
           CheckProcessed, FetchDocument, Read, Write, Handoff,
           RetryOrDeadLetter, Nack, Ack
  <2>3. CASE ChunkHandle
    BY <2>1, <2>3
       DEF ChunkHandle, ChunkCheck, ChunkFetch, ChunkStart, ChunkStartEvent,
           ChunkInsert, ChunkComplete, ChunkCompleteEvent, ChunkRecord,
           ChunkHandoff, ChunkRetry, ChunkAck, CheckProcessed, FetchDocument,
           Read, Write, Handoff, RetryOrDeadLetter, Ack
  <2>4. CASE EmbedHandle
    BY <2>1, <2>4
       DEF EmbedHandle, EmbedCheck, EmbedFetch, EmbedStart, EmbedStartEvent,
           EmbedReadChunks, EmbedBatchFails, EmbedWrite, EmbedComplete,
           EmbedCompleteEvent, EmbedRecord, EmbedTransientEvent, EmbedRetry,
           EmbedNack, EmbedAck, CheckProcessed, FetchDocument, Read, Write,
           RetryOrDeadLetter, Nack, Ack
  <2>5. QED
    BY <1>1, <2>1, <2>2, <2>3, <2>4 DEF HandleStep
<1>2. ASSUME NEW s \in Stages, DeliverStep(s)
      PROVE  CopiesMove /\ linked' = linked
  BY <1>2, CopiesDeliver DEF DeliverStep, Deliver
<1>3. ASSUME NEW s \in Stages, DisruptStep(s)
      PROVE  FALSE
  BY <1>3 DEF DisruptStep, Crash, Disconnect, Disturb, Steady, Without
<1>4. ASSUME NEW s \in Stages, ReconnectStep(s)
      PROVE  FALSE
  BY <1>4 DEF ReconnectStep, Reconnect, Connected
<1>5. CASE ApiStep
  BY <1>5, CopiesApi DEF ApiStep, consumerVars, Connected
<1>6. CASE TtlStep
  BY <1>6, CopiesExpire DEF TtlStep, consumerVars, Connected
<1>7. CASE UNCHANGED vars
  BY <1>7, CopiesQuiet DEF vars, brokerVars, consumerVars, jobVars, Connected
<1>8. QED
  BY <1>1, <1>2, <1>3, <1>4, <1>5, <1>6, <1>7 DEF Next, Connected

-----------------------------------------------------------------------------
(* One copy of each message.                                               *)

\* A queued message was published.
LEMMA QueuedIsSent ==
    ASSUME FullInv, DeadIsSent, NEW m \in Messages, InQueue(m)
    PROVE  m.id \in sent
<1>1. Live(m) \/ dlq[m] > 0
  BY DEF InQueue, Live
<1>2. QED
  BY <1>1 DEF DeadIsSent, FullInv, AllInv, SafetyInv, MessageInv, LiveIsSent

SteadyParts == OneCopy /\ TakenIsGone /\ ChunkIsSpent

\* A worker still busy with its delivery keeps the document of it.
LEMMA OnwardFacts ==
    ASSUME NEW s \in Stages, Onward(s), pc'[s] # "idle"
    PROVE  pc[s] # "idle" /\ held'[s] = held[s]
BY DEF Onward

\* Whether a message is in a queue, before and after a step.
LEMMA QueuedNext ==
    ASSUME AllInv, AllInv', NEW m \in Messages, Copies(m)' = Copies(m)
    PROVE  InQueue(m)' <=> InQueue(m)
<1>1. /\ InQueue(m) <=> Copies(m) > 0
      /\ InQueue(m)' <=> Copies(m)' > 0
  <2>1. InQueue(m) <=> Copies(m) > 0
    BY InQueueCopies
  <2>2. mainq' \in [Messages -> Nat] /\ retryq' \in [Messages -> Nat]
        /\ dlq' \in [Messages -> Nat]
    BY DEF AllInv, TypeInv, TypeOK, BrokerTypeOK, Queue
  <2>3. InQueue(m)' <=> Copies(m)' > 0
    BY <2>2 DEF InQueue, Copies
  <2>4. QED
    BY <2>1, <2>3
<1>2. QED
  BY <1>1

\* It remains so while nothing is queued or taken,
LEMMA SteadyRests ==
    ASSUME AllInv, AllInv', RowsMove, SteadyParts, Rests
    PROVE  SteadyParts'
<1>1. \A m \in Messages : Copies(m)' = Copies(m) /\ (InQueue(m)' <=> InQueue(m))
  BY QueuedNext DEF Rests
<1>2. OneCopy'
  BY <1>1 DEF SteadyParts, OneCopy, Copies
<1>3. TakenIsGone'
  BY <1>1 DEF SteadyParts, TakenIsGone, Rests, Onward
<1>4. ASSUME NEW d \in Docs, EmbedSent(d)' PROVE Spent(ChunkId(d))'
  <2>1. Spent(ChunkId(d)) /\ ChunkId(d)' = ChunkId(d)
    BY <1>4 DEF EmbedSent, Rests, SteadyParts, ChunkIsSpent, ChunkId
  <2>2. QED
    BY <1>1, <2>1 DEF Spent, Rests, Onward
<1>5. QED
  BY <1>2, <1>3, <1>4 DEF SteadyParts, ChunkIsSpent

\* when a new message is published,
LEMMA SteadyPublishes ==
    ASSUME FullInv, AllInv', DeadIsSent, SteadyParts, Publishes
    PROVE  SteadyParts'
<1> USE DEF FullInv
<1>1. PICK c \in Messages :
          /\ c.id \notin sent /\ sent' = sent \cup {c.id}
          /\ Gains(c, 1)
          /\ c.id.stage = "embed" =>
                 /\ pc["chunk"] = "handoff" /\ pc'["chunk"] = "ack"
                 /\ c.id.doc = Doc("chunk")
  BY DEF Publishes
<1>2. \A m \in Messages : InQueue(m) => m.id \in sent
  BY QueuedIsSent
<1>3. \A m \in Messages \ {c} :
          Copies(m)' = Copies(m) /\ (InQueue(m)' <=> InQueue(m))
  BY <1>1, QueuedNext DEF Gains
<1>4. ~InQueue(c) /\ Copies(c) = 0 /\ Copies(c)' = 1
  BY <1>1, <1>2, InQueueCopies DEF Gains
<1>5. \A s \in Stages : Onward(s) /\ (pc[s] # "idle" => held[s].id \in sent)
  BY BusyFacts DEF Publishes
<1>6. OneCopy'
  BY <1>1, <1>2, <1>3, <1>4 DEF SteadyParts, OneCopy, Copies
<1>7. TakenIsGone'
  BY <1>1, <1>3, <1>5 DEF SteadyParts, TakenIsGone, Onward
<1>8. ASSUME NEW d \in Docs, EmbedSent(d)' PROVE Spent(ChunkId(d))'
  <2>1. c.id \in MessageIds /\ ChunkId(d).stage = "chunk"
        /\ ChunkId(d)' = ChunkId(d)
    BY MessageFields DEF ChunkId
  <2>2. CASE EmbedSent(d)
    <3>1. Spent(ChunkId(d)) /\ ChunkId(d) # c.id
      BY <1>1, <2>2, EmbedFollowsChunk DEF SteadyParts, ChunkIsSpent
    <3>2. QED
      BY <1>3, <1>5, <2>1, <3>1 DEF Spent, Onward
  <2>3. CASE ~EmbedSent(d)
    <3>1. c.id.stage = "embed" /\ c.id.doc = d
      BY <1>1, <1>8, <2>3 DEF EmbedSent
    <3>2. /\ pc["chunk"] = "handoff" /\ pc'["chunk"] = "ack"
          /\ d = Doc("chunk")
      BY <1>1, <3>1
    <3>3. held["chunk"].id = ChunkId(d)
      BY <3>2, BusyFacts DEF Stages
    <3>4. ASSUME NEW m \in Messages, InQueue(m)' PROVE m.id # ChunkId(d)
      BY <1>3, <2>1, <3>1, <3>2, <3>3, <3>4
         DEF SteadyParts, TakenIsGone, Stages
    <3>5. ASSUME NEW s \in Stages, pc'[s] # "idle", held'[s].id = ChunkId(d)
          PROVE  pc'[s] = "ack"
      <4>1. held[s].id = ChunkId(d) /\ held[s].id.stage = s
        BY <1>5, <3>5, OnwardFacts, BusyFacts
      <4>2. QED
        BY <2>1, <3>2, <4>1
    <3>6. QED
      BY <2>1, <3>4, <3>5 DEF Spent
  <2>4. QED
    BY <2>2, <2>3
<1>9. QED
  BY <1>6, <1>7, <1>8 DEF SteadyParts, ChunkIsSpent

\* when a worker gives its delivery back,
LEMMA SteadyReturns ==
    ASSUME AllInv, AllInv', SteadyParts, NEW s \in Stages, Returns(s)
    PROVE  SteadyParts'
<1>1. PICK c \in Messages : c.id = held[s].id /\ Gains(c, 1)
  BY DEF Returns
<1>2. /\ pc[s] \in {"retry", "nack"} /\ pc'[s] \in {"ack", "idle"}
      /\ held[s].id.stage = s
      /\ sent' = sent
      /\ \A t \in Stages : Onward(t)
  BY BusyFacts DEF Returns
<1>3. \A m \in Messages : InQueue(m) => m.id # c.id
  BY <1>1, <1>2 DEF SteadyParts, TakenIsGone
<1>4. \A m \in Messages \ {c} :
          Copies(m)' = Copies(m) /\ (InQueue(m)' <=> InQueue(m))
  BY <1>1, QueuedNext DEF Gains
<1>5. Copies(c) = 0 /\ Copies(c)' = 1
  BY <1>1, <1>3, InQueueCopies DEF Gains
<1>6. OneCopy'
  BY <1>3, <1>4, <1>5 DEF SteadyParts, OneCopy, Copies
<1>7. TakenIsGone'
  <2> SUFFICES ASSUME NEW t \in Stages, pc'[t] \notin {"idle", "ack"},
                      NEW m \in Messages, InQueue(m)'
               PROVE  m.id # held'[t].id
    BY DEF TakenIsGone
  <2>1. t # s /\ pc[t] \notin {"idle", "ack"} /\ held'[t] = held[t]
    BY <1>2 DEF Onward
  <2>2. held[t].id.stage = t
    BY <2>1, BusyFacts
  <2>3. QED
    BY <1>1, <1>2, <1>4, <2>1, <2>2 DEF SteadyParts, TakenIsGone
<1>8. ASSUME NEW d \in Docs, EmbedSent(d)' PROVE Spent(ChunkId(d))'
  <2>1. Spent(ChunkId(d)) /\ ChunkId(d)' = ChunkId(d)
    BY <1>2, <1>8 DEF EmbedSent, SteadyParts, ChunkIsSpent, ChunkId
  <2>2. c.id # ChunkId(d)
    BY <1>1, <1>2, <2>1 DEF Spent
  <2>3. QED
    BY <1>2, <1>4, <2>1, <2>2 DEF Spent, Onward
<1>9. QED
  BY <1>6, <1>7, <1>8 DEF SteadyParts, ChunkIsSpent

\* and when a worker takes one.
LEMMA SteadyReceives ==
    ASSUME AllInv, AllInv', SteadyParts, NEW s \in Stages, Receives(s)
    PROVE  SteadyParts'
<1>1. PICK c \in Messages : /\ held'[s] = c
                            /\ Copies(c) = Copies(c)' + 1
                            /\ \A m \in Messages \ {c} : Copies(m)' = Copies(m)
  BY DEF Receives
<1>2. /\ pc[s] = "idle" /\ pc'[s] = "check" /\ sent' = sent
      /\ \A t \in Stages \ {s} : Onward(t)
  BY DEF Receives
<1>3. /\ mainq' \in [Messages -> Nat] /\ retryq' \in [Messages -> Nat]
      /\ dlq' \in [Messages -> Nat]
  BY DEF AllInv, TypeInv, TypeOK, BrokerTypeOK, Queue
<1>4. InQueue(c) /\ ~InQueue(c)' /\ Copies(c)' = 0
  <2>1. Copies(c) <= 1 /\ Copies(c) \in Nat /\ Copies(c)' \in Nat
    <3>1. Copies(c) <= 1
      BY DEF SteadyParts, OneCopy, Copies
    <3>2. Copies(c)' \in Nat
      BY <1>3 DEF Copies
    <3>3. QED
      BY <3>1, <3>2, InQueueCopies
  <2>2. Copies(c) = 1 /\ Copies(c)' = 0
    BY <1>1, <2>1
  <2>3. ~InQueue(c)'
    <3>1. mainq'[c] \in Nat /\ retryq'[c] \in Nat /\ dlq'[c] \in Nat
      BY <1>3
    <3>2. mainq'[c] + retryq'[c] + dlq'[c] = 0
      BY <2>2 DEF Copies
    <3>3. ~(mainq'[c] > 0) /\ ~(retryq'[c] > 0) /\ ~(dlq'[c] > 0)
      BY <3>1, <3>2
    <3>4. QED
      BY <3>3 DEF InQueue
  <2>4. QED
    BY <2>2, <2>3, InQueueCopies
<1>5. \A m \in Messages \ {c} :
          Copies(m)' = Copies(m) /\ (InQueue(m)' <=> InQueue(m))
  BY <1>1, QueuedNext
<1>6. OneCopy'
  BY <1>4, <1>5 DEF SteadyParts, OneCopy, Copies
<1>7. \A m \in Messages : InQueue(m)' => InQueue(m) /\ m.id # c.id
  BY <1>4, <1>5 DEF SteadyParts, OneCopy
<1>8. TakenIsGone'
  <2> SUFFICES ASSUME NEW t \in Stages, pc'[t] \notin {"idle", "ack"},
                      NEW m \in Messages, InQueue(m)'
               PROVE  m.id # held'[t].id
    BY DEF TakenIsGone
  <2>1. CASE t = s
    BY <1>1, <1>7, <2>1
  <2>2. CASE t # s
    BY <1>2, <1>7, <2>2 DEF Onward, SteadyParts, TakenIsGone
  <2>3. QED
    BY <2>1, <2>2
<1>9. ASSUME NEW d \in Docs, EmbedSent(d)' PROVE Spent(ChunkId(d))'
  <2>1. Spent(ChunkId(d)) /\ ChunkId(d)' = ChunkId(d)
    BY <1>2, <1>9 DEF EmbedSent, SteadyParts, ChunkIsSpent, ChunkId
  <2>2. c.id # ChunkId(d)
    BY <1>4, <2>1 DEF Spent
  <2>3. QED
    BY <1>1, <1>2, <1>7, <2>1, <2>2 DEF Spent, Onward
<1>10. QED
  BY <1>6, <1>8, <1>9 DEF SteadyParts, ChunkIsSpent

\* While no process died and no channel closed, each message has one copy.
LEMMA SteadyNext ==
    ASSUME FullInv, FullInv', DeadIsSent, SteadyInv, [Next]_vars
    PROVE  SteadyInv'
<1> SUFFICES ASSUME Steady'
             PROVE  Connected' /\ SteadyParts'
  BY DEF SteadyInv, SteadyParts
<1>1. Connected /\ SteadyParts
  BY WithoutBefore DEF SteadyInv, SteadyParts
<1>2. CopiesMove /\ Connected' /\ RowsMove
  BY <1>1, CopiesNext, RowsNext DEF FullInv
<1>3. AllInv /\ AllInv'
  BY DEF FullInv
<1>4. QED
  BY <1>1, <1>2, <1>3, SteadyRests, SteadyPublishes, SteadyReturns,
     SteadyReceives
     DEF CopiesMove

-----------------------------------------------------------------------------
(* While every statement is applied.                                       *)

\* The chunker comes to its hand-off from record_processed only.
LEMMA HandoffIsRecorded ==
    ASSUME AllInv, ChunkHandle, pc'["chunk"] = "handoff", Without({"error"})'
    PROVE  held'["chunk"].id \in processed'
<1>1. pc \in [Stages -> Labels] /\ "chunk" \in Stages
  BY OrderTypes DEF Stages
<1>2. ASSUME NEW o, ChunkRecord(o) PROVE held'["chunk"].id \in processed'
  <2>1. o # "error"
    BY <1>2, AttemptedRemembers DEF ChunkRecord, Write, Without
  <2>2. QED
    BY <1>2, <2>1 DEF ChunkRecord, Write, RecordProcessed, Applied, jobVars
<1>3. ASSUME NEW o, \/ ChunkCheck(o) \/ ChunkFetch(o) \/ ChunkStart(o)
                    \/ ChunkStartEvent(o) \/ ChunkInsert(o) \/ ChunkComplete(o)
                    \/ ChunkCompleteEvent(o) \/ ChunkHandoff \/ ChunkRetry
                    \/ ChunkAck
      PROVE  FALSE
  BY <1>1, <1>3
     DEF ChunkCheck, ChunkFetch, ChunkStart, ChunkStartEvent, ChunkInsert,
         ChunkComplete, ChunkCompleteEvent, ChunkHandoff, ChunkRetry, ChunkAck,
         CheckProcessed, FetchDocument, Read, Write, Handoff,
         RetryOrDeadLetter, Ack, Finish, Goto
<1>4. QED
  BY <1>2, <1>3 DEF ChunkHandle

\* As long as no statement failed, an embed message follows the record of its
\* chunk message.
LEMMA RecordedNext ==
    ASSUME FullInv, RecordedInv, [Next]_vars
    PROVE  RecordedInv'
<1> USE DEF FullInv
<1> SUFFICES ASSUME Without({"error"})'
             PROVE  /\ pc'["chunk"] = "handoff" =>
                           held'["chunk"].id \in processed'
                    /\ \A d \in Docs : EmbedSent(d)' =>
                           ChunkId(d) \in processed'
  BY DEF RecordedInv, ChunkId
<1>1. /\ pc["chunk"] = "handoff" => held["chunk"].id \in processed
      /\ \A d \in Docs : EmbedSent(d) => ChunkId(d) \in processed
  BY WithoutBefore DEF RecordedInv
<1>2. processed \subseteq processed' /\ RowsMove
  BY StoreNext, RowsNext DEF StoreGrows
<1>3. pc'["chunk"] = "handoff" => held'["chunk"].id \in processed'
  <2>1. CASE Takes("chunk") \/ Dies("chunk")
    BY <2>1 DEF Takes, Dies
  <2>2. CASE Still("chunk")
    BY <1>1, <1>2, <2>2 DEF Still
  <2>3. QED
    BY <2>1, <2>2, OthersStay, HandoffIsRecorded DEF HandleStep, Stages
<1>4. ASSUME NEW d \in Docs, EmbedSent(d)'
      PROVE  ChunkId(d) \in processed'
  <2>1. CASE EmbedSent(d)
    BY <1>1, <1>2, <2>1
  <2>2. CASE pc["chunk"] = "handoff" /\ d = Doc("chunk")
    BY <1>1, <1>2, <2>2, BusyFacts DEF Stages
  <2>3. QED
    BY <1>2, <1>4, <2>1, <2>2, EmbedSentNext
<1>5. QED
  BY <1>3, <1>4

-----------------------------------------------------------------------------
(* Until a statement failed and a delivery was repeated.                   *)

Owner == ChunkPrecedesEmbed /\ ChunkPlace /\ EmbedPlace /\ EmbedRows

\* A chunk message that leads the chunker to its document was not handled to
\* the end before.
LEMMA ChunkIsNew ==
    ASSUME HandoverInv, NoRework, pc["chunk"] = "check",
           held["chunk"].id \notin processed
    PROVE  ~EmbedSent(Doc("chunk"))
<1>1. Doc("chunk") \in Docs /\ held["chunk"].id = ChunkId(Doc("chunk"))
  BY BusyFacts DEF HandoverInv, FullInv, Stages
<1>2. CASE Without({"error"})
  BY <1>1, <1>2 DEF HandoverInv, OrderInv, RecordedInv
<1>3. CASE Steady
  <2>1. "chunk" \in Stages
    BY DEF Stages
  <2>2. QED
    BY <1>1, <1>3, <2>1
       DEF HandoverInv, OrderInv, SteadyInv, ChunkIsSpent, Spent
<1>4. QED
  BY <1>2, <1>3 DEF NoRework, Steady

\* The chunker moves itself: it never works on a document it handed over.
LEMMA ChunkPrecedesSelf ==
    ASSUME HandoverInv, NoRework, Owner, ChunkHandle
    PROVE  pc'["chunk"] \in ChunkerOwns => ~EmbedSent(Doc("chunk"))'
<1> USE DEF Stages, ChunkerOwns, Owner, ChunkPrecedesEmbed
<1>1. pc \in [Stages -> Labels]
  BY OrderTypes DEF HandoverInv, FullInv
<1>2. ASSUME NEW o, ChunkCheck(o), pc'["chunk"] \in ChunkerOwns
      PROVE  ~EmbedSent(Doc("chunk"))'
  <2>1. /\ pc["chunk"] = "check" /\ held["chunk"].id \notin processed
        /\ UNCHANGED <<sent, held>>
    BY <1>1, <1>2 DEF ChunkCheck, CheckProcessed, Read, Goto, brokerVars
  <2>2. QED
    BY <2>1, ChunkIsNew DEF EmbedSent, Doc
<1>3. ASSUME NEW o, \/ ChunkFetch(o) \/ ChunkStart(o) \/ ChunkStartEvent(o)
                    \/ ChunkInsert(o) \/ ChunkComplete(o)
                    \/ ChunkCompleteEvent(o) \/ ChunkRecord(o)
      PROVE  ~EmbedSent(Doc("chunk"))'
  <2>1. pc["chunk"] \in ChunkerOwns /\ UNCHANGED <<sent, held>>
    BY <1>1, <1>3
       DEF ChunkFetch, ChunkStart, ChunkStartEvent, ChunkInsert, ChunkComplete,
           ChunkCompleteEvent, ChunkRecord, FetchDocument, Read, Write,
           brokerVars, jobVars
  <2>2. QED
    BY <2>1 DEF EmbedSent, Doc
<1>4. ASSUME ChunkHandoff \/ ChunkRetry \/ ChunkAck
      PROVE  pc'["chunk"] \notin ChunkerOwns
  BY <1>1, <1>4
     DEF ChunkHandoff, ChunkRetry, ChunkAck, Handoff, RetryOrDeadLetter, Ack,
         Finish, Goto
<1>5. QED
  BY <1>2, <1>3, <1>4 DEF ChunkHandle

\* And it stays so while others move.
LEMMA ChunkPrecedesNext ==
    ASSUME HandoverInv, NoRework, Owner, [Next]_vars
    PROVE  ChunkPrecedesEmbed'
<1> SUFFICES ASSUME pc'["chunk"] \in ChunkerOwns
             PROVE  ~EmbedSent(Doc("chunk"))'
  BY DEF ChunkPrecedesEmbed
<1>1. CASE Takes("chunk") \/ Dies("chunk")
  BY <1>1 DEF Takes, Dies, ChunkerOwns
<1>2. CASE Still("chunk")
  <2>1. /\ pc["chunk"] \in ChunkerOwns /\ Doc("chunk")' = Doc("chunk")
        /\ ~EmbedSent(Doc("chunk"))
    BY <1>2 DEF Still, Doc, Owner, ChunkPrecedesEmbed
  <2>2. Doc("chunk") \in Docs
    BY <2>1, BusyFacts DEF ChunkerOwns, HandoverInv, FullInv, Stages
  <2>3. ASSUME NEW d \in Docs, d = Doc("chunk"), EmbedSent(d)' PROVE FALSE
    BY <1>2, <2>1, <2>3, EmbedSentNext, RowsNext
       DEF HandoverInv, FullInv, Still
  <2>4. QED
    BY <2>1, <2>2, <2>3
<1>3. QED
  BY <1>1, <1>2, OthersStay, ChunkPrecedesSelf
     DEF HandleStep, Stages, HandoverInv, FullInv

\* Who may write the row of a document the chunker or the embedder holds.
LEMMA RowOwners ==
    ASSUME FullInv, Owner, RowsMove, NEW d \in Docs, status'[d] # status[d],
           ChunkId(d) \in sent
    PROVE  \/ /\ ~EmbedSent(d)
              /\ pc["chunk"] # "idle" /\ pc'["chunk"] # pc["chunk"]
              /\ Doc("chunk") = d
              /\ Writes("chunk", pc["chunk"], status'[d])
              /\ UNCHANGED <<chunks, sent>>
           \/ /\ EmbedSent(d)
              /\ pc["embed"] # "idle" /\ pc'["embed"] # pc["embed"]
              /\ Doc("embed") = d
              /\ Writes("embed", pc["embed"], status'[d])
              /\ UNCHANGED <<chunks, sent>>
<1> USE DEF FullInv
<1>1. status[d] # "absent"
  BY DEF AllInv, SafetyInv, MessageInv, ChunkIsHandedOver, Early
<1>2. PICK s \in Stages : /\ pc[s] # "idle" /\ pc'[s] # pc[s] /\ Doc(s) = d
                          /\ Writes(s, pc[s], status'[d])
                          /\ UNCHANGED <<chunks, sent>>
  BY <1>1, RowsChange
<1>3. s # "ocr"
  BY <1>2, OcrAlone DEF Writes, OcrOwns
<1>4. s = "chunk" => ~EmbedSent(d)
  BY <1>2 DEF Writes, Owner, ChunkPrecedesEmbed, ChunkerOwns
<1>5. s = "embed" => EmbedSent(d)
  BY <1>2, EmbedKnows
<1>6. QED
  BY <1>2, <1>3, <1>4, <1>5 DEF Stages

\* The status the chunker wrote is there until it writes again: its own calls,
LEMMA ChunkPlaceSelf ==
    ASSUME AllInv, ChunkPlace, ChunkHandle
    PROVE  ChunkPlace'
<1> USE DEF Stages
<1>1. pc \in [Stages -> Labels] /\ status \in [Docs -> Statuses]
  BY OrderTypes
<1>2. pc["chunk"] # "idle" => Doc("chunk") \in Docs
  BY BusyFacts
<1>3. ASSUME NEW o, ChunkStart(o) \/ ChunkComplete(o)
      PROVE  ChunkPlace'
  BY <1>1, <1>2, <1>3
     DEF ChunkStart, ChunkComplete, Write, Goto, jobVars, UpdateStatus, Applied,
         Doc, ChunkPlace
<1>4. ASSUME NEW o, \/ ChunkStartEvent(o) \/ ChunkInsert(o)
                    \/ ChunkCompleteEvent(o) \/ ChunkRecord(o)
      PROVE  ChunkPlace'
  BY <1>1, <1>4
     DEF ChunkStartEvent, ChunkInsert, ChunkCompleteEvent, ChunkRecord, Write,
         Goto, jobVars, Doc, ChunkPlace
<1>5. ASSUME NEW o, \/ ChunkCheck(o) \/ ChunkFetch(o) \/ ChunkHandoff
                    \/ ChunkRetry \/ ChunkAck
      PROVE  ChunkPlace'
  BY <1>1, <1>5
     DEF ChunkCheck, ChunkFetch, ChunkHandoff, ChunkRetry, ChunkAck,
         CheckProcessed, FetchDocument, Read, Handoff, RetryOrDeadLetter, Ack,
         Finish, Goto, ChunkPlace
<1>6. QED
  BY <1>3, <1>4, <1>5 DEF ChunkHandle

\* and everybody else's.
LEMMA ChunkPlaceNext ==
    ASSUME FullInv, Owner, [Next]_vars
    PROVE  ChunkPlace'
<1> USE DEF FullInv
<1>1. CASE Takes("chunk") \/ Dies("chunk")
  BY <1>1 DEF Takes, Dies, ChunkPlace
<1>2. CASE Still("chunk")
  <2> SUFFICES ASSUME pc["chunk"] \in ChunkerOwns,
                      status'[Doc("chunk")] # status[Doc("chunk")]
               PROVE  FALSE
    BY <1>2 DEF ChunkPlace, Still, Doc, ChunkerOwns, Owner
  <2>1. /\ Doc("chunk") \in Docs /\ ChunkId(Doc("chunk")) \in sent
        /\ ~EmbedSent(Doc("chunk"))
    BY BusyFacts DEF ChunkerOwns, Stages, Owner, ChunkPrecedesEmbed
  <2>2. QED
    BY <1>2, <2>1, RowOwners, RowsNext DEF Still
<1>3. QED
  BY <1>1, <1>2, OthersStay, ChunkPlaceSelf DEF HandleStep, Stages, Owner

\* A document handed to the embedder stays with it.
LEMMA HandedToEmbedder ==
    ASSUME FullInv, Owner, RowsMove, NEW d \in Docs, EmbedSent(d)'
    PROVE  status'[d] \in {"chunked", "embedding", "embedded"}
<1> USE DEF FullInv
<1>1. CASE EmbedSent(d)
  <2>1. status[d] \in {"chunked", "embedding", "embedded"}
    BY <1>1 DEF Owner, EmbedPlace
  <2>2. ChunkId(d) \in sent
    BY <1>1, EmbedFollowsChunk
  <2>3. QED
    BY <1>1, <2>1, <2>2, RowOwners DEF Writes
<1>2. CASE ~EmbedSent(d)
  BY <1>2, EmbedSentNext DEF Owner, ChunkPlace
<1>3. QED
  BY <1>1, <1>2

EmbedCalls ==
    /\ pc["embed"] = "start" => status[Doc("embed")] # "embedded"
    /\ pc["embed"] \in {"startEvent", "work", "write", "complete"} =>
           status[Doc("embed")] = "embedding"
    /\ pc["embed"] \in {"completeEvent", "record"} =>
           status[Doc("embed")] = "embedded"

\* The embedder moves itself.
LEMMA EmbedCallsSelf ==
    ASSUME AllInv, EmbedCalls, EmbedHandle
    PROVE  EmbedCalls'
<1> USE DEF Stages
<1>1. pc \in [Stages -> Labels] /\ status \in [Docs -> Statuses]
  BY OrderTypes
<1>2. pc["embed"] # "idle" => Doc("embed") \in Docs
  BY BusyFacts
<1>3. ASSUME NEW o, EmbedStart(o) \/ EmbedComplete(o)
      PROVE  EmbedCalls'
  BY <1>1, <1>2, <1>3
     DEF EmbedStart, EmbedComplete, Write, Goto, jobVars, UpdateStatus, Applied,
         Doc, EmbedCalls
<1>4. ASSUME NEW o, EmbedCheck(o) \/ EmbedFetch(o) \/ EmbedReadChunks(o)
      PROVE  EmbedCalls'
  BY <1>1, <1>4
     DEF EmbedCheck, EmbedFetch, EmbedReadChunks, CheckProcessed, FetchDocument,
         Read, Goto, storeVars, Terminal, Doc, EmbedCalls
<1>5. ASSUME NEW o, \/ EmbedStartEvent(o) \/ EmbedWrite(o)
                    \/ EmbedCompleteEvent(o) \/ EmbedRecord(o)
                    \/ EmbedTransientEvent(o) \/ EmbedBatchFails
      PROVE  EmbedCalls'
  BY <1>1, <1>5
     DEF EmbedStartEvent, EmbedWrite, EmbedCompleteEvent, EmbedRecord,
         EmbedTransientEvent, EmbedBatchFails, Write, Goto, storeVars, jobVars,
         Doc, EmbedCalls
<1>6. ASSUME EmbedRetry \/ EmbedNack \/ EmbedAck
      PROVE  EmbedCalls'
  BY <1>1, <1>6
     DEF EmbedRetry, EmbedNack, EmbedAck, RetryOrDeadLetter, Nack, Ack, Finish,
         Goto, EmbedCalls
<1>7. QED
  BY <1>3, <1>4, <1>5, <1>6 DEF EmbedHandle

\* What the embedder found and wrote is there until it writes again.
LEMMA EmbedPlaceNext ==
    ASSUME FullInv, Owner, [Next]_vars
    PROVE  EmbedPlace'
<1> USE DEF FullInv
<1>1. RowsMove /\ EmbedCalls
  BY RowsNext DEF Owner, EmbedPlace, EmbedCalls
<1>2. EmbedCalls'
  <2>1. CASE Takes("embed") \/ Dies("embed")
    BY <2>1 DEF Takes, Dies, EmbedCalls
  <2>2. CASE Still("embed") /\ pc["embed"] = "idle"
    BY <2>2 DEF Still, EmbedCalls
  <2>3. CASE Still("embed") /\ pc["embed"] # "idle"
    <3>1. /\ Doc("embed") \in Docs /\ ChunkId(Doc("embed")) \in sent
          /\ EmbedSent(Doc("embed"))
      BY <2>3, BusyFacts, EmbedKnows DEF Stages
    <3>2. status'[Doc("embed")] = status[Doc("embed")]
      BY <1>1, <2>3, <3>1, RowOwners DEF Still
    <3>3. QED
      BY <1>1, <2>3, <3>2 DEF EmbedCalls, Still, Doc
  <2>4. QED
    BY <1>1, <2>1, <2>2, <2>3, OthersStay, EmbedCallsSelf DEF HandleStep, Stages
<1>3. \A d \in Docs : EmbedSent(d)' =>
          status'[d] \in {"chunked", "embedding", "embedded"}
  BY <1>1, HandedToEmbedder
<1>4. QED
  BY <1>2, <1>3 DEF EmbedPlace, EmbedCalls

EmbedHasRows ==
    /\ pc["embed"] = "write" => batch["embed"] = chunks[Doc("embed")].gen
    /\ pc["embed"] \in {"complete", "completeEvent", "record"} =>
           chunks[Doc("embed")].embedded

\* The embedder writes the rows it read.
LEMMA EmbedHasRowsSelf ==
    ASSUME AllInv, EmbedHasRows, EmbedHandle
    PROVE  EmbedHasRows'
<1> USE DEF Stages
<1>1. /\ pc \in [Stages -> Labels] /\ batch \in [Stages -> Nat]
      /\ chunks \in [Docs -> [gen : Nat, embedded : BOOLEAN]]
  BY OrderTypes
<1>2. pc["embed"] # "idle" => /\ Doc("embed") \in Docs
                              /\ chunks[Doc("embed")].gen > 0
  BY BusyFacts
<1>3. ASSUME NEW o, EmbedReadChunks(o)
      PROVE  EmbedHasRows'
  BY <1>1, <1>2, <1>3
     DEF EmbedReadChunks, Read, Goto, storeVars, PendingChunks, Doc,
         EmbedHasRows
<1>4. ASSUME NEW o, EmbedWrite(o)
      PROVE  EmbedHasRows'
  <2>1. pc["embed"] = "write" /\ batch["embed"] = chunks[Doc("embed")].gen
    BY <1>4 DEF EmbedWrite, Write, EmbedHasRows
  <2>2. o = "ok" => chunks'[Doc("embed")].embedded
    BY <1>1, <1>2, <1>4, <2>1 DEF EmbedWrite, WriteEmbeddings, Applied
  <2>3. QED
    BY <1>1, <1>4, <2>2
       DEF EmbedWrite, Write, Goto, jobVars, Doc, EmbedHasRows
<1>5. ASSUME NEW o, \/ EmbedComplete(o) \/ EmbedCompleteEvent(o)
                    \/ EmbedRecord(o) \/ EmbedTransientEvent(o)
                    \/ EmbedStart(o) \/ EmbedStartEvent(o)
      PROVE  EmbedHasRows'
  BY <1>1, <1>5
     DEF EmbedComplete, EmbedCompleteEvent, EmbedRecord, EmbedTransientEvent,
         EmbedStart, EmbedStartEvent, Write, Goto, jobVars, Doc, EmbedHasRows
<1>6. ASSUME NEW o, \/ EmbedCheck(o) \/ EmbedFetch(o) \/ EmbedBatchFails
                    \/ EmbedRetry \/ EmbedNack \/ EmbedAck
      PROVE  EmbedHasRows'
  BY <1>1, <1>6
     DEF EmbedCheck, EmbedFetch, EmbedBatchFails, EmbedRetry, EmbedNack,
         EmbedAck, CheckProcessed, FetchDocument, Read, RetryOrDeadLetter, Nack,
         Ack, Finish, Goto, EmbedHasRows
<1>7. QED
  BY <1>3, <1>4, <1>5, <1>6 DEF EmbedHandle

\* Nobody replaces rows the embedder has read.
LEMMA RowsWhileEmbedding ==
    ASSUME FullInv, Owner, RowsMove, NEW d \in Docs, EmbedSent(d)
    PROVE  /\ chunks[d].embedded => chunks'[d].embedded
           /\ pc'["embed"] = pc["embed"] => chunks'[d].gen = chunks[d].gen
<1>1. CASE UNCHANGED chunks
  BY <1>1
<1>2. CASE Replaces
  <2>1. d # Doc("chunk")
    BY <1>2 DEF Replaces, Owner, ChunkPrecedesEmbed, ChunkerOwns
  <2>2. QED
    BY <1>2, <2>1 DEF Replaces
<1>3. CASE Completes
  BY <1>3 DEF Completes
<1>4. QED
  BY <1>1, <1>2, <1>3 DEF RowsMove, Creates, Updates

\* The rows of a document that says embedded are embedded.
LEMMA EmbedRowsNext ==
    ASSUME FullInv, Owner, StatusFollowsMessage, [Next]_vars
    PROVE  EmbedRows'
<1> USE DEF FullInv
<1>1. RowsMove /\ EmbedHasRows
  BY RowsNext DEF Owner, EmbedRows, EmbedHasRows
<1>2. EmbedHasRows'
  <2>1. CASE Takes("embed") \/ Dies("embed")
    BY <2>1 DEF Takes, Dies, EmbedHasRows
  <2>2. CASE Still("embed") /\ pc["embed"] = "idle"
    BY <2>2 DEF Still, EmbedHasRows
  <2>3. CASE Still("embed") /\ pc["embed"] # "idle"
    <3>1. Doc("embed") \in Docs /\ EmbedSent(Doc("embed"))
      BY <2>3, BusyFacts, EmbedKnows DEF Stages
    <3>2. /\ chunks[Doc("embed")].embedded => chunks'[Doc("embed")].embedded
          /\ chunks'[Doc("embed")].gen = chunks[Doc("embed")].gen
      BY <1>1, <2>3, <3>1, RowsWhileEmbedding DEF Still
    <3>3. QED
      BY <1>1, <2>3, <3>2 DEF EmbedHasRows, Still, Doc
  <2>4. QED
    BY <1>1, <2>1, <2>2, <2>3, OthersStay, EmbedHasRowsSelf
       DEF HandleStep, Stages
<1>3. ASSUME NEW d \in Docs, status'[d] = "embedded"
      PROVE  chunks'[d].embedded
  <2>1. CASE status[d] = "embedded"
    <3>1. EmbedSent(d) /\ chunks[d].embedded
      BY <2>1 DEF StatusFollowsMessage, Owner, EmbedRows
    <3>2. QED
      BY <1>1, <3>1, RowsWhileEmbedding
  <2>2. CASE status[d] # "embedded"
    <3>1. PICK s \in Stages : /\ pc[s] # "idle" /\ Doc(s) = d
                              /\ Writes(s, pc[s], "embedded")
                              /\ UNCHANGED chunks
      BY <1>1, <1>3, <2>2, RowsChange
    <3>2. s = "embed" /\ pc[s] = "complete"
      BY <3>1 DEF Writes
    <3>3. QED
      BY <1>1, <3>1, <3>2 DEF EmbedHasRows
  <2>3. QED
    BY <2>1, <2>2
<1>4. QED
  BY <1>2, <1>3 DEF EmbedRows, EmbedHasRows

\* Nobody works on a document it handed on.
LEMMA OwnerNext ==
    ASSUME HandoverInv, [Next]_vars
    PROVE  OwnerInv'
<1> SUFFICES ASSUME NoRework'
             PROVE  Owner'
  BY DEF OwnerInv, Owner
<1>1. NoRework
  BY WithoutBefore
<1>2. /\ FullInv /\ Owner /\ StatusFollowsMessage
  BY <1>1 DEF HandoverInv, OrderInv, OwnerInv, StageInv, Owner
<1>3. QED
  BY <1>1, <1>2, ChunkPrecedesNext, ChunkPlaceNext, EmbedPlaceNext,
     EmbedRowsNext
     DEF Owner


-----------------------------------------------------------------------------
(* The invariant, and what follows from it.                                *)

\* Nothing was published, taken or recorded yet.
LEMMA HandoverInit ==
    ASSUME Init
    PROVE  HandoverInv
<1>1. /\ sent = {} /\ processed = {}
      /\ \A s \in Stages : pc[s] = "idle" /\ linked[s]
      /\ \A m \in Messages : mainq[m] = 0 /\ retryq[m] = 0 /\ dlq[m] = 0
      /\ \A d \in Docs : status[d] = "absent"
  BY DEF Init, BrokerInit, StoreInit, ConsumerInit
<1>2. StageInv
  BY <1>1
     DEF StageInv, StatusFollowsMessage, DeadIsSent, RecordedIsSent, OcrPlace,
         ChunkIsFresh, ChunkerOwns, Stages
<1>3. SteadyInv
  BY <1>1
     DEF SteadyInv, Connected, OneCopy, TakenIsGone, ChunkIsSpent, EmbedSent,
         InQueue
<1>4. RecordedInv /\ OwnerInv
  BY <1>1
     DEF RecordedInv, OwnerInv, ChunkPrecedesEmbed, ChunkPlace, EmbedPlace,
         EmbedRows, EmbedSent, ChunkerOwns, Stages
<1>5. QED
  BY <1>2, <1>3, <1>4, FullInit DEF HandoverInv, OrderInv

\* Every step preserves the invariant.
LEMMA HandoverNext ==
    ASSUME HandoverInv, [Next]_vars
    PROVE  HandoverInv'
<1>1. FullInv'
  BY FullNext DEF HandoverInv
<1>2. QED
  BY <1>1, StageNext, SteadyNext, RecordedNext, OwnerNext
     DEF HandoverInv, OrderInv, StageInv

\* The stages own a document one after the other, in every reachable state.
THEOREM StagesInOrder == Spec => []OrderInv
<1>1. HandoverInv => OrderInv
  BY DEF HandoverInv
<1>2. QED
  BY <1>1, HandoverInit, HandoverNext, PTL DEF Spec

\* A worker that finds a document embedded leaves it so.
LEMMA EmbeddedStays ==
    ASSUME HandoverInv, [Next]_vars, NEW d \in Docs, NoRework',
           status[d] = "embedded"
    PROVE  status'[d] = "embedded"
<1> SUFFICES ASSUME status'[d] # "embedded"
             PROVE  FALSE
  OBVIOUS
<1>1. FullInv /\ Owner /\ RowsMove
  BY WithoutBefore, RowsNext
     DEF HandoverInv, FullInv, OrderInv, OwnerInv, Owner
<1>2. ChunkId(d) \in sent /\ EmbedSent(d)
  BY DEF HandoverInv, OrderInv, StageInv, StatusFollowsMessage
<1>3. /\ pc["embed"] # "idle" /\ Doc("embed") = d
      /\ Writes("embed", pc["embed"], status'[d])
  BY <1>1, <1>2, RowOwners
<1>4. QED
  BY <1>1, <1>3 DEF Writes, Owner, EmbedPlace

\* No message still under way takes an embedded document up again, unless a
\* statement failed and a delivery was repeated.
THEOREM EmbeddedStaysEmbedded == Spec => EmbeddedIsFinal
<1>1. HandoverInv /\ [Next]_vars =>
          [\A d \in Docs : NoRework' /\ status[d] = "embedded" =>
              status'[d] = "embedded"]_vars
  BY EmbeddedStays
<1>2. QED
  BY <1>1, HandoverInit, HandoverNext, PTL DEF Spec, EmbeddedIsFinal

\* A document that says embedded has its chunks and all their embeddings,
\* unless a statement failed and a delivery was repeated.
THEOREM EmbeddedHasEmbeddings == Spec => []CompleteUnlessReworked
<1>1. HandoverInv => CompleteUnlessReworked
  <2> SUFFICES ASSUME HandoverInv, NoRework, NEW d \in Docs,
                      status[d] = "embedded"
               PROVE  chunks[d].gen > 0 /\ chunks[d].embedded
    BY DEF CompleteUnlessReworked, EmbeddedIsComplete
  <2>1. EmbedSent(d) /\ chunks[d].embedded
    BY DEF HandoverInv, OrderInv, StageInv, StatusFollowsMessage, OwnerInv,
           EmbedRows
  <2>2. QED
    BY <2>1, EmbedFollowsChunk DEF HandoverInv, FullInv
<1>2. QED
  BY <1>1, HandoverInit, HandoverNext, PTL DEF Spec

\* What each status write finds, before it moves the document on.
LEMMA StatusBefore ==
    ASSUME HandoverInv, NoRework, NEW s \in Stages, pc[s] # "idle",
           NEW new, Writes(s, pc[s], new)
    PROVE  \/ new = "ocr_processing" /\ status[Doc(s)] \in
                  {"uploaded", "ocr_processing", "ocr_completed"}
           \/ new = "ocr_completed" /\ status[Doc(s)] = "ocr_processing"
           \/ new = "failed" /\ status[Doc(s)] # "absent"
           \/ new = "chunking" /\ status[Doc(s)] \in
                  {"ocr_completed", "chunking", "chunked"}
           \/ new = "chunked" /\ status[Doc(s)] = "chunking"
           \/ new = "embedding" /\ status[Doc(s)] \in {"chunked", "embedding"}
           \/ new = "embedded" /\ status[Doc(s)] = "embedding"
<1>1. FullInv /\ Owner /\ StatusFollowsMessage /\ OcrPlace
  BY DEF HandoverInv, OrderInv, StageInv, OwnerInv, Owner
<1>2. Doc(s) \in Docs /\ status[Doc(s)] \in Statuses /\ status[Doc(s)] # "absent"
  BY <1>1, BusyFacts, OrderTypes DEF FullInv, DeliveryInv, RowHasFile
<1>3. CASE s = "ocr"
  <2>1. ChunkId(Doc("ocr")) \notin sent
    BY <1>3, <1>1, OcrAlone DEF Writes, OcrOwns
  <2>2. pc["ocr"] = "start" => status[Doc("ocr")] # "failed"
    BY <1>1 DEF FullInv, AllInv, SafetyInv, WorkerInv, OcrIsAlive
  <2>3. QED
    BY <1>1, <1>2, <1>3, <2>1, <2>2
       DEF Writes, Statuses, StatusFollowsMessage, OcrPlace
<1>4. CASE s = "chunk"
  <2>1. status[Doc("chunk")] \notin Early
    BY <1>1, <1>4, BusyFacts DEF FullInv
  <2>2. ~EmbedSent(Doc("chunk"))
    BY <1>1, <1>4 DEF Writes, Owner, ChunkPrecedesEmbed, ChunkerOwns
  <2>3. QED
    BY <1>1, <1>2, <1>4, <2>1, <2>2
       DEF Writes, Statuses, Early, StatusFollowsMessage, Owner, ChunkPlace
<1>5. CASE s = "embed"
  <2>1. EmbedSent(Doc("embed"))
    BY <1>1, <1>5, EmbedKnows DEF FullInv
  <2>2. QED
    BY <1>1, <1>2, <1>5, <2>1 DEF Writes, Owner, EmbedPlace
<1>6. QED
  BY <1>3, <1>4, <1>5 DEF Stages

\* The plain UPDATE statements of the workers are transitions document.rb
\* declares, or write the status that is there.
LEMMA StepsAreTransitions ==
    ASSUME HandoverInv, NoRework, [Next]_vars
    PROVE  [L!Next]_status
<1>1. RowsMove
  BY RowsNext DEF HandoverInv, FullInv
<1>2. ASSUME NEW d \in Docs, Creates(d) PROVE L!Next
  BY <1>2 DEF Creates, L!Next, L!Create, L!Transition
<1>3. ASSUME NEW s \in Stages, NEW new \in Statuses, pc[s] # "idle",
             Updates(s, new)
      PROVE  [L!Next]_status
  <2> DEFINE d == Doc(s)
  <2>1. /\ d \in Docs /\ status \in [Docs -> Statuses]
        /\ status' = [status EXCEPT ![d] = new] /\ Writes(s, pc[s], new)
    BY <1>3, BusyFacts, OrderTypes DEF HandoverInv, FullInv, Updates
  <2>2. status[d] = new => status' = status
    BY <2>1
  <2>3. \/ new = "ocr_processing" /\ status[d] \in
               {"uploaded", "ocr_processing", "ocr_completed"}
        \/ new = "ocr_completed" /\ status[d] = "ocr_processing"
        \/ new = "failed" /\ status[d] # "absent"
        \/ new = "chunking" /\ status[d] \in
               {"ocr_completed", "chunking", "chunked"}
        \/ new = "chunked" /\ status[d] = "chunking"
        \/ new = "embedding" /\ status[d] \in {"chunked", "embedding"}
        \/ new = "embedded" /\ status[d] = "embedding"
    BY <1>3, <2>1, StatusBefore
  <2> HIDE DEF d
  <2>4. QED
    BY <2>1, <2>2, <2>3
       DEF L!Next, L!Transition, L!start_ocr, L!complete_ocr, L!start_chunking,
           L!complete_chunking, L!start_embedding, L!complete_embedding,
           L!mark_failed
<1>4. QED
  BY <1>1, <1>2, <1>3 DEF RowsMove

\* Until a statement failed and a delivery was repeated, the pipeline is an
\* implementation of the state machine of document.rb.
THEOREM PipelineImplementsLifecycle ==
    Spec /\ []NoRework => ImplementsLifecycle
<1>1. Init => L!Init
  BY DEF Init, StoreInit, L!Init
<1>2. HandoverInv /\ NoRework /\ [Next]_vars => [L!Next]_status
  BY StepsAreTransitions
<1>3. QED
  BY <1>1, <1>2, HandoverInit, HandoverNext, PTL
     DEF Spec, ImplementsLifecycle, L!Spec

=============================================================================
