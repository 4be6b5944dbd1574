--------------------------- MODULE PipelineSafety ---------------------------
(***************************************************************************)
(* The safety properties of the pipeline, proved for every instance.       *)
(* SafetyInv of PipelineInv is shown inductive in three moves:             *)
(*   StoreNext   what a step may do to the store and to uploads;           *)
(*   FlowNext    which messages a step may publish, where copies of        *)
(*               messages come from and where they go;                     *)
(*   OcrNext, ChunkNext, EmbedNext, AckNext   how the workers move.        *)
(* Each is proved action by action; the parts of the invariant then follow *)
(* from these without looking at the actions again.                        *)
(***************************************************************************)
EXTENDS PipelineInv, PipelineTypes

\* The data-access functions of the workers are expanded in every proof.
USE DEF OcrUpdateStatus, OcrRecordEvent, OcrRecordProcessed,
        ChunkUpdateStatus, ChunkRecordEvent, ChunkRecordProcessed,
        EmbedUpdateDocument, EmbedRecordEvent, EmbedRecordProcessed

AllInv == TypeInv /\ SafetyInv

\* What every step does to the rows of documents, chunks and
\* processed_messages, and to uploads.
StoreGrows ==
    /\ \A d \in Docs :
          /\ stamped[d] \subseteq stamped'[d]
          /\ chunks[d].gen > 0 => chunks'[d].gen > 0
          /\ status[d] = "failed" => status'[d] = "failed"
          /\ status'[d] = "failed" /\ status[d] # "failed" =>
                 pc["ocr"] = "fail" /\ pc'["ocr"] # "fail"
          /\ ChunkId(d) \in sent => status'[d] \notin Early
          /\ pc["ocr"] \in {"completeEvent", "record", "handoff"}
                 /\ Doc("ocr") = d => status'[d] \notin Early
          /\ upload[d] = "published" => upload'[d] = "published"
          /\ upload'[d] \in {"none", "stored"} => status'[d] = "absent"
          /\ status'[d] = "embedded" => Stages \subseteq stamped'[d]
    /\ processed \subseteq processed'
    /\ \A id \in processed' \ processed :
          \E s \in Stages : /\ pc[s] = "record" /\ pc'[s] # "record"
                            /\ held[s].id = id

-----------------------------------------------------------------------------

\* What a busy worker may rely on.
LEMMA BusyFacts ==
    ASSUME AllInv, NEW s \in Stages, pc[s] # "idle"
    PROVE  /\ held[s] \in Messages
           /\ held[s].id \in MessageIds
           /\ held[s].id.stage = s
           /\ Doc(s) \in Docs
           /\ held[s].id \in sent
           /\ upload[Doc(s)] = "published"
           /\ failures[held[s].id] >= held[s].attempt - 1
           /\ s = "ocr" => held[s].id = OcrId(Doc(s))
           /\ s = "chunk" => held[s].id = ChunkId(Doc(s))
           /\ s # "ocr" => /\ ChunkId(Doc(s)) \in sent
                           /\ OcrId(Doc(s)) \in processed
                           /\ status[Doc(s)] \notin Early
                           /\ "ocr" \in stamped[Doc(s)]
           /\ s = "embed" => /\ "chunk" \in stamped[Doc(s)]
                             /\ chunks[Doc(s)].gen > 0
<1>1. /\ held[s] \in Messages /\ held[s].id \in MessageIds
      /\ Doc(s) \in Docs /\ held[s].id.doc = Doc(s)
  BY HeldFields DEF AllInv, Doc
<1>2. held[s].id.stage = s
  BY DEF AllInv, SafetyInv, WorkerInv, OwnStage
<1>3. Live(held[s])
  BY DEF Live
<1>4. held[s].id \in sent /\ failures[held[s].id] >= held[s].attempt - 1
  BY <1>1, <1>3 DEF AllInv, SafetyInv, MessageInv, LiveIsSent, AttemptsPaid
<1>5. upload[Doc(s)] = "published"
  BY <1>1, <1>4 DEF AllInv, SafetyInv, MessageInv, SentIsUploaded
<1>6. /\ s = "ocr" => held[s].id = OcrId(Doc(s))
      /\ s = "chunk" => held[s].id = ChunkId(Doc(s))
  BY <1>1, <1>2 DEF MessageIds, OcrId, ChunkId
<1>7. s = "embed" => /\ ChunkId(Doc(s)) \in sent
                     /\ "chunk" \in stamped[Doc(s)]
                     /\ chunks[Doc(s)].gen > 0
  BY <1>1, <1>2, <1>4 DEF AllInv, SafetyInv, MessageInv, EmbedIsReady
<1>8. ASSUME s # "ocr"
      PROVE  /\ ChunkId(Doc(s)) \in sent
             /\ OcrId(Doc(s)) \in processed
             /\ status[Doc(s)] \notin Early
             /\ "ocr" \in stamped[Doc(s)]
  <2>1. ChunkId(Doc(s)) \in sent
    BY <1>4, <1>6, <1>7, <1>8 DEF Stages
  <2>2. OcrId(Doc(s)) \in processed /\ status[Doc(s)] \notin Early
    BY <1>1, <2>1 DEF AllInv, SafetyInv, MessageInv, ChunkIsHandedOver
  <2>3. OcrId(Doc(s)).stage \in stamped[OcrId(Doc(s)).doc]
    BY <2>2 DEF AllInv, SafetyInv, ProcessedIsDone
  <2>4. QED
    BY <2>1, <2>2, <2>3 DEF OcrId
<1>9. QED
  BY <1>1, <1>2, <1>4, <1>5, <1>6, <1>7, <1>8

\* Steps that leave the rows alone.
LEMMA StoreQuiet ==
    ASSUME AllInv, UNCHANGED <<status, stamped, chunks, processed>>,
           \A d \in Docs : upload'[d] = upload[d]
    PROVE  StoreGrows
BY DEF StoreGrows, AllInv, TypeInv, TypeOK, StoreTypeOK, SafetyInv, MessageInv,
       WorkerInv, ChunkIsHandedOver, OcrIsDone, RowFollowsUpload,
       EmbeddedIsStamped

\* An UPDATE of documents.status by a busy worker.
LEMMA StatusWrite ==
    ASSUME AllInv, NEW s \in Stages, pc[s] # "idle",
           NEW new \in Statuses, NEW stamps \in SUBSET Stages, NEW o,
           UpdateStatus(Doc(s), new, stamps, o),
           UNCHANGED <<chunks, processed, upload>>,
           status[Doc(s)] = "failed" => new = "failed",
           new = "failed" => pc["ocr"] = "fail" /\ pc'["ocr"] # "fail",
           ChunkId(Doc(s)) \in sent => new \notin Early,
           pc["ocr"] \in {"completeEvent", "record", "handoff"}
               => s # "ocr" /\ new \notin Early,
           new = "embedded" => Stages \subseteq stamped[Doc(s)] \cup stamps
    PROVE  StoreGrows
<1>1. Doc(s) \in Docs /\ upload[Doc(s)] = "published"
  BY BusyFacts
<1>2. CASE ~Applied(o)
  BY <1>2, StoreQuiet DEF UpdateStatus
<1>3. CASE Applied(o)
  <2>1. /\ status' = [status EXCEPT ![Doc(s)] = new]
        /\ stamped' = [stamped EXCEPT ![Doc(s)] = @ \cup stamps]
    BY <1>3 DEF UpdateStatus
  <2>2. /\ status \in [Docs -> Statuses]
        /\ stamped \in [Docs -> SUBSET Stages]
        /\ chunks \in [Docs -> [gen : Nat, embedded : BOOLEAN]]
    BY DEF AllInv, TypeInv, TypeOK, StoreTypeOK
  <2>3. ASSUME NEW d \in Docs
        PROVE  /\ stamped[d] \subseteq stamped'[d]
               /\ chunks[d].gen > 0 => chunks'[d].gen > 0
               /\ status[d] = "failed" => status'[d] = "failed"
               /\ status'[d] = "failed" /\ status[d] # "failed" =>
                      pc["ocr"] = "fail" /\ pc'["ocr"] # "fail"
               /\ upload[d] = "published" => upload'[d] = "published"
    BY <2>1, <2>2
  <2>4. ASSUME NEW d \in Docs
        PROVE  /\ ChunkId(d) \in sent => status'[d] \notin Early
               /\ pc["ocr"] \in {"completeEvent", "record", "handoff"}
                      /\ Doc("ocr") = d => status'[d] \notin Early
    BY <2>1, <2>2 DEF AllInv, SafetyInv, MessageInv, WorkerInv,
                      ChunkIsHandedOver, OcrIsDone
  <2>5. ASSUME NEW d \in Docs
        PROVE  /\ upload'[d] \in {"none", "stored"} => status'[d] = "absent"
               /\ status'[d] = "embedded" => Stages \subseteq stamped'[d]
    BY <1>1, <2>1, <2>2
       DEF AllInv, SafetyInv, MessageInv, RowFollowsUpload, EmbeddedIsStamped
  <2>6. QED
    BY <2>3, <2>4, <2>5 DEF StoreGrows
<1>4. QED
  BY <1>2, <1>3

\* A row of processed_messages.
LEMMA ProcessedWrite ==
    ASSUME AllInv, NEW s \in Stages, pc[s] = "record", pc'[s] # "record", NEW o,
           RecordProcessed(held[s].id, o),
           UNCHANGED <<status, stamped, chunks, upload>>
    PROVE  StoreGrows
BY DEF RecordProcessed, StoreGrows, AllInv, TypeInv, TypeOK, StoreTypeOK,
       SafetyInv, MessageInv, WorkerInv, ChunkIsHandedOver, OcrIsDone,
       RowFollowsUpload, EmbeddedIsStamped

\* The calls of the OCR worker.
LEMMA StoreOcr ==
    ASSUME AllInv, UNCHANGED apiVars, OcrHandle
    PROVE  StoreGrows
<1> USE DEF Stages
<1>1. ASSUME NEW o, OcrStart(o) PROVE StoreGrows
  <2>1. pc["ocr"] = "start"
    BY <1>1 DEF OcrStart, Write
  <2>2. status[Doc("ocr")] # "failed" /\ ChunkId(Doc("ocr")) \notin sent
    BY <2>1, BusyFacts DEF AllInv, SafetyInv, WorkerInv, OcrIsFresh, OcrIsAlive,
                           MessageInv, ChunkIsHandedOver
  <2>3. QED
    BY <1>1, <2>1, <2>2, StatusWrite DEF OcrStart, apiVars, Statuses
<1>2. ASSUME NEW o, OcrComplete(o) PROVE StoreGrows
  <2>1. pc["ocr"] = "complete"
    BY <1>2 DEF OcrComplete, Write
  <2>2. status[Doc("ocr")] # "failed"
    BY <2>1 DEF AllInv, SafetyInv, WorkerInv, OcrIsAlive
  <2>3. QED
    BY <1>2, <2>1, <2>2, StatusWrite DEF OcrComplete, apiVars, Statuses, Early
<1>3. ASSUME NEW o, OcrFail(o) PROVE StoreGrows
  <2>1. pc["ocr"] = "fail" /\ pc'["ocr"] # "fail"
    BY <1>3 DEF OcrFail, Write, Goto, AllInv, TypeInv, TypeOK, ConsumerTypeOK
  <2>2. ChunkId(Doc("ocr")) \notin sent
    BY <2>1, BusyFacts DEF AllInv, SafetyInv, WorkerInv, OcrIsFresh,
                           MessageInv, ChunkIsHandedOver
  <2>3. QED
    BY <1>3, <2>1, <2>2, StatusWrite DEF OcrFail, apiVars, Statuses
<1>4. ASSUME NEW o, OcrRecord(o) PROVE StoreGrows
  <2>1. pc["ocr"] = "record" /\ pc'["ocr"] # "record"
    BY <1>4 DEF OcrRecord, Write, Goto, AllInv, TypeInv, TypeOK, ConsumerTypeOK
  <2>2. QED
    BY <1>4, <2>1, ProcessedWrite DEF OcrRecord, apiVars
<1>5. ASSUME NEW o, OcrCheck(o) \/ OcrFetch(o) PROVE StoreGrows
  BY <1>5, StoreQuiet
     DEF OcrCheck, OcrFetch, CheckProcessed, FetchDocument, Read, storeVars,
         apiVars
<1>6. ASSUME NEW o, \/ OcrStartEvent(o) \/ OcrCompleteEvent(o)
                    \/ OcrFailEvent(o) \/ OcrTransientEvent(o)
      PROVE  StoreGrows
  BY <1>6, StoreQuiet
     DEF OcrStartEvent, OcrCompleteEvent, OcrFailEvent, OcrTransientEvent,
         apiVars
<1>7. ASSUME OcrExtract \/ OcrHandoff \/ OcrRetry \/ OcrNack \/ OcrAck
      PROVE  StoreGrows
  BY <1>7, StoreQuiet
     DEF OcrExtract, OcrHandoff, OcrRetry, OcrNack, OcrAck, Handoff,
         RetryOrDeadLetter, Nack, Ack, storeVars, apiVars
<1>8. QED
  BY <1>1, <1>2, <1>3, <1>4, <1>5, <1>6, <1>7 DEF OcrHandle

\* The calls of the chunker.
LEMMA StoreChunk ==
    ASSUME AllInv, UNCHANGED apiVars, ChunkHandle
    PROVE  StoreGrows
<1> USE DEF Stages
<1>1. ASSUME NEW o, ChunkStart(o) \/ ChunkComplete(o) PROVE StoreGrows
  <2>1. pc["chunk"] # "idle"
    BY <1>1 DEF ChunkStart, ChunkComplete, Write
  <2>2. status[Doc("chunk")] \notin Early
    BY <2>1, BusyFacts
  <2>3. QED
    BY <1>1, <2>1, <2>2, StatusWrite
       DEF ChunkStart, ChunkComplete, apiVars, Statuses, Early
<1>2. ASSUME NEW o, ChunkInsert(o) PROVE StoreGrows
  <2>1. pc["chunk"] # "idle" /\ Doc("chunk") \in Docs
    BY <1>2, BusyFacts DEF ChunkInsert, Write
  <2>2. ASSUME NEW d \in Docs PROVE chunks[d].gen > 0 => chunks'[d].gen > 0
    BY <1>2, <2>1
       DEF ChunkInsert, InsertChunks, AllInv, TypeInv, TypeOK, StoreTypeOK
  <2>3. QED
    BY <1>2, <2>2
       DEF ChunkInsert, StoreGrows, AllInv, TypeInv, TypeOK, StoreTypeOK,
           SafetyInv, MessageInv, WorkerInv, ChunkIsHandedOver, OcrIsDone,
           RowFollowsUpload, EmbeddedIsStamped, apiVars
<1>3. ASSUME NEW o, ChunkRecord(o) PROVE StoreGrows
  <2>1. pc["chunk"] = "record" /\ pc'["chunk"] # "record"
    BY <1>3 DEF ChunkRecord, Write, Goto, AllInv, TypeInv, TypeOK, ConsumerTypeOK
  <2>2. QED
    BY <1>3, <2>1, ProcessedWrite DEF ChunkRecord, apiVars
<1>4. ASSUME NEW o, ChunkCheck(o) \/ ChunkFetch(o) PROVE StoreGrows
  BY <1>4, StoreQuiet
     DEF ChunkCheck, ChunkFetch, CheckProcessed, FetchDocument, Read, storeVars,
         apiVars
<1>5. ASSUME NEW o, ChunkStartEvent(o) \/ ChunkCompleteEvent(o)
      PROVE  StoreGrows
  BY <1>5, StoreQuiet DEF ChunkStartEvent, ChunkCompleteEvent, apiVars
<1>6. ASSUME ChunkHandoff \/ ChunkRetry \/ ChunkAck PROVE StoreGrows
  BY <1>6, StoreQuiet
     DEF ChunkHandoff, ChunkRetry, ChunkAck, Handoff, RetryOrDeadLetter, Ack,
         storeVars, apiVars
<1>7. QED
  BY <1>1, <1>2, <1>3, <1>4, <1>5, <1>6 DEF ChunkHandle

\* The calls of the embedder.
LEMMA StoreEmbed ==
    ASSUME AllInv, UNCHANGED apiVars, EmbedHandle
    PROVE  StoreGrows
<1> USE DEF Stages
<1>1. ASSUME NEW o, EmbedStart(o) \/ EmbedComplete(o) PROVE StoreGrows
  <2>1. pc["embed"] # "idle"
    BY <1>1 DEF EmbedStart, EmbedComplete, Write
  <2>2. /\ status[Doc("embed")] \notin Early
        /\ {"ocr", "chunk"} \subseteq stamped[Doc("embed")]
    BY <2>1, BusyFacts
  <2>3. QED
    BY <1>1, <2>1, <2>2, StatusWrite
       DEF EmbedStart, EmbedComplete, apiVars, Statuses, Early
<1>2. ASSUME NEW o, EmbedWrite(o) PROVE StoreGrows
  <2>1. pc["embed"] # "idle" /\ Doc("embed") \in Docs
    BY <1>2, BusyFacts DEF EmbedWrite, Write
  <2>2. ASSUME NEW d \in Docs PROVE chunks[d].gen > 0 => chunks'[d].gen > 0
    BY <1>2, <2>1
       DEF EmbedWrite, WriteEmbeddings, AllInv, TypeInv, TypeOK, StoreTypeOK
  <2>3. QED
    BY <1>2, <2>2
       DEF EmbedWrite, StoreGrows, AllInv, TypeInv, TypeOK, StoreTypeOK,
           SafetyInv, MessageInv, WorkerInv, ChunkIsHandedOver, OcrIsDone,
           RowFollowsUpload, EmbeddedIsStamped, apiVars
<1>3. ASSUME NEW o, EmbedRecord(o) PROVE StoreGrows
  <2>1. pc["embed"] = "record" /\ pc'["embed"] # "record"
    BY <1>3 DEF EmbedRecord, Write, Goto, AllInv, TypeInv, TypeOK, ConsumerTypeOK
  <2>2. QED
    BY <1>3, <2>1, ProcessedWrite DEF EmbedRecord, apiVars
<1>4. ASSUME NEW o, EmbedCheck(o) \/ EmbedFetch(o) \/ EmbedReadChunks(o)
      PROVE  StoreGrows
  BY <1>4, StoreQuiet
     DEF EmbedCheck, EmbedFetch, EmbedReadChunks, CheckProcessed, FetchDocument,
         Read, storeVars, apiVars
<1>5. ASSUME NEW o, \/ EmbedStartEvent(o) \/ EmbedCompleteEvent(o)
                    \/ EmbedTransientEvent(o)
      PROVE  StoreGrows
  BY <1>5, StoreQuiet
     DEF EmbedStartEvent, EmbedCompleteEvent, EmbedTransientEvent, apiVars
<1>6. ASSUME EmbedBatchFails \/ EmbedRetry \/ EmbedNack \/ EmbedAck
      PROVE  StoreGrows
  BY <1>6, StoreQuiet
     DEF EmbedBatchFails, EmbedRetry, EmbedNack, EmbedAck, RetryOrDeadLetter,
         Nack, Ack, storeVars, apiVars
<1>7. QED
  BY <1>1, <1>2, <1>3, <1>4, <1>5, <1>6 DEF EmbedHandle

\* The steps of CreateDocument and RetryDocument.
LEMMA StoreApi ==
    ASSUME AllInv, ApiStep
    PROVE  StoreGrows
<1>1. PICK d \in Docs : ApiHandle(d)
  BY DEF ApiStep
<1>2. /\ upload \in [Docs -> {"none", "stored", "committed", "published",
                              "rejected", "aborted"}]
      /\ \A e \in Docs : upload[e] \in {"none", "stored"} => status[e] = "absent"
  BY DEF AllInv, TypeInv, TypeOK, ApiTypeOK, SafetyInv, MessageInv,
         RowFollowsUpload
<1>3. CASE CommitDocument(d)
  <2>1. /\ upload[d] = "stored" /\ upload' = [upload EXCEPT ![d] = "committed"]
        /\ status' = [status EXCEPT ![d] = "uploaded"]
        /\ UNCHANGED <<stamped, chunks, processed>>
    BY <1>3 DEF CommitDocument, Progress
  <2>2. status \in [Docs -> Statuses] /\ status[d] = "absent"
    BY <1>2, <2>1 DEF AllInv, TypeInv, TypeOK, StoreTypeOK
  <2>3. ChunkId(d) \notin sent
    BY <2>2 DEF AllInv, SafetyInv, MessageInv, ChunkIsHandedOver, Early
  <2>4. ~(/\ pc["ocr"] \in {"completeEvent", "record", "handoff"}
          /\ Doc("ocr") = d)
    BY <2>2 DEF AllInv, SafetyInv, WorkerInv, OcrIsDone, Early
  <2>5. QED
    BY <1>2, <2>1, <2>2, <2>3, <2>4
       DEF StoreGrows, AllInv, TypeInv, TypeOK, StoreTypeOK, SafetyInv,
           MessageInv, WorkerInv, ChunkIsHandedOver, OcrIsDone,
           EmbeddedIsStamped
<1>4. CASE RetryDocument(d)
  BY <1>4, StoreQuiet DEF RetryDocument, storeVars
<1>5. CASE \/ PutUpload(d) \/ RejectDocument(d) \/ EnqueueFirstStage(d)
           \/ AbortUpload(d)
  <2>1. /\ UNCHANGED storeVars
        /\ upload[d] # "published"
        /\ \/ upload' = [upload EXCEPT ![d] = "stored"] /\ upload[d] = "none"
           \/ upload' = [upload EXCEPT ![d] = "rejected"]
           \/ upload' = [upload EXCEPT ![d] = "published"]
           \/ upload' = [upload EXCEPT ![d] = "aborted"]
    BY <1>5
       DEF PutUpload, RejectDocument, EnqueueFirstStage, AbortUpload, Progress
  <2>2. QED
    BY <1>2, <2>1
       DEF storeVars, StoreGrows, AllInv, TypeInv, TypeOK, StoreTypeOK,
           SafetyInv, MessageInv, WorkerInv, ChunkIsHandedOver, OcrIsDone,
           EmbeddedIsStamped
<1>6. QED
  BY <1>1, <1>3, <1>4, <1>5 DEF ApiHandle

\* Every step of the pipeline lets the store only grow in this sense.
LEMMA StoreNext ==
    ASSUME AllInv, [Next]_vars
    PROVE  StoreGrows
<1>1. CASE TtlStep
  BY <1>1, StoreQuiet DEF TtlStep, storeVars, apiVars
<1>2. ASSUME NEW s \in Stages, HandleStep(s)
      PROVE  StoreGrows
  BY <1>2, StoreOcr, StoreChunk, StoreEmbed DEF HandleStep
<1>3. ASSUME NEW s \in Stages,
             DeliverStep(s) \/ DisruptStep(s) \/ ReconnectStep(s)
      PROVE  StoreGrows
  BY <1>3, StoreQuiet
     DEF DeliverStep, Deliver, DisruptStep, Crash, Disconnect, ReconnectStep,
         Reconnect, storeVars, apiVars
<1>4. CASE UNCHANGED vars
  BY <1>4, StoreQuiet DEF vars, storeVars, apiVars
<1>5. QED
  BY <1>1, <1>2, <1>3, <1>4, StoreApi DEF Next

-----------------------------------------------------------------------------

\* Which messages a step may publish that never were before.
SentGrows ==
    /\ sent \subseteq sent'
    /\ \A id \in sent' \ sent :
          \/ \E d \in Docs : id = OcrId(d) /\ upload'[d] = "published"
          \/ pc["ocr"] = "handoff" /\ id = ChunkId(Doc("ocr"))
          \/ /\ pc["chunk"] = "handoff"
             /\ id.stage = "embed"
             /\ id.doc = Doc("chunk")

\* Where copies come from: another place, a first publication, or a failed
\* execution that paid for the next attempt or for the dead-letter queue.
CopiesArePaid ==
    /\ \A m \in Messages : Live(m)' =>
          \/ Live(m)
          \/ m.attempt = 1 /\ m.id \in sent'
          \/ \E h \in Messages : /\ Live(h)
                                 /\ m.id = h.id
                                 /\ m.attempt = h.attempt + 1
                                 /\ failures'[h.id] = failures[h.id] + 1
    /\ \A m \in Messages : dlq'[m] > 0 =>
          \/ dlq[m] > 0
          \/ /\ Live(m)
             /\ m.attempt >= MaxRetries
             /\ failures'[m.id] = failures[m.id] + 1
    /\ \A id \in MessageIds : failures'[id] >= failures[id]

\* Where they go: only an acknowledgement takes one away.
CopiesStay ==
    /\ \A id \in MessageIds : Unsettled(id) \/ id \in sent' \ sent =>
          \/ Unsettled(id)'
          \/ \E s \in Stages : /\ pc[s] = "ack" /\ linked[s]
                               /\ held[s].id = id
                               /\ UNCHANGED <<mainq, retryq, dlq>>
    /\ \A m \in Messages : InQueue(m) /\ pc[m.id.stage] # "idle" => InQueue(m)'

Flow == SentGrows /\ CopiesArePaid /\ CopiesStay /\ OwnStage'

\* Calls that only move on in the handler, and steps of the API.
LEMMA FlowQuiet ==
    ASSUME AllInv, UNCHANGED <<mainq, retryq, dlq, sent, held, linked, failures>>,
           \A s \in Stages : pc[s] = "idle" <=> pc'[s] = "idle"
    PROVE  Flow
<1>1. SentGrows
  BY DEF SentGrows
<1>2. \A m \in Messages : Live(m)' => Live(m)
  BY DEF Live
<1>3. CopiesArePaid
  BY <1>2 DEF CopiesArePaid, AllInv, TypeInv, TypeOK, ConsumerTypeOK
<1>4. CopiesStay
  BY DEF CopiesStay, Unsettled, InQueue
<1>5. OwnStage'
  BY DEF OwnStage, AllInv, SafetyInv, WorkerInv
<1>6. QED
  BY <1>1, <1>3, <1>4, <1>5 DEF Flow

\* A busy worker that only goes on to its next call moves no message.
LEMMA FlowMove ==
    ASSUME AllInv, NEW s \in Stages, pc[s] # "idle", NEW label, label # "idle",
           Goto(s, label),
           UNCHANGED <<brokerVars, held, linked, failures>>
    PROVE  Flow
<1>1. \A t \in Stages : pc[t] = "idle" <=> pc'[t] = "idle"
  BY DEF Goto, AllInv, TypeInv, TypeOK, ConsumerTypeOK
<1>2. QED
  BY <1>1, FlowQuiet DEF brokerVars

\* A database write moves no message.
LEMMA FlowWrite ==
    ASSUME AllInv, NEW s \in Stages, NEW here, here # "idle", NEW o,
           NEW next, next # "idle", NEW onError, onError # "idle",
           Write(s, here, o, next, onError)
    PROVE  Flow
BY FlowMove DEF Write, jobVars

\* A database read moves no message.
LEMMA FlowRead ==
    ASSUME AllInv, NEW s \in Stages, NEW here, here # "idle", NEW o,
           NEW next, next # "idle", NEW onError, onError # "idle",
           Read(s, here, o, next, onError)
    PROVE  Flow
BY FlowMove DEF Read

\* A failed delivery is replaced by its next attempt or dead-lettered.
LEMMA FlowRetry ==
    ASSUME AllInv, NEW s \in Stages, RetryOrDeadLetter(s)
    PROVE  Flow
<1> DEFINE h == held[s]
           c == [h EXCEPT !.attempt = @ + 1]
<1>1. /\ pc[s] = "retry" /\ h \in Messages /\ h.id \in MessageIds /\ Live(h)
  BY BusyFacts DEF RetryOrDeadLetter, Live
<1>2. /\ pc' = [pc EXCEPT ![s] = "ack"]
      /\ failures' = [failures EXCEPT ![h.id] = @ + 1]
      /\ UNCHANGED <<mainq, sent, held, linked>>
      /\ \/ h.attempt >= MaxRetries /\ dlq' = Add(dlq, h) /\ retryq' = retryq
         \/ ~(h.attempt >= MaxRetries) /\ retryq' = Add(retryq, c) /\ dlq' = dlq
         \/ dlq' = dlq /\ retryq' = retryq
  BY DEF RetryOrDeadLetter, Failed, Goto, jobVars
<1>3. /\ pc \in [Stages -> Labels] /\ failures \in [MessageIds -> Nat]
      /\ retryq \in [Messages -> Nat] /\ dlq \in [Messages -> Nat]
  BY DEF AllInv, TypeInv, TypeOK, BrokerTypeOK, ConsumerTypeOK, Queue
<1>4. c.id = h.id /\ c.attempt = h.attempt + 1
  BY <1>1 DEF Messages
<1> HIDE DEF h, c
<1>5. SentGrows
  BY <1>2 DEF SentGrows
<1>6. ASSUME NEW m \in Messages, Live(m)'
      PROVE  Live(m) \/ m = c
  BY <1>1, <1>2, <1>3, <1>6 DEF Live, Add
<1>7. ASSUME NEW m \in Messages, dlq'[m] > 0
      PROVE  dlq[m] > 0 \/ (m = h /\ h.attempt >= MaxRetries)
  BY <1>2, <1>3, <1>7 DEF Add
<1>8. CopiesArePaid
  BY <1>1, <1>2, <1>3, <1>4, <1>6, <1>7 DEF CopiesArePaid
<1>9. \A m \in Messages : InQueue(m) => InQueue(m)'
  BY <1>2, <1>3 DEF InQueue, Add
<1>10. CopiesStay
  BY <1>1, <1>2, <1>3, <1>9 DEF CopiesStay, Unsettled
<1>11. OwnStage'
  BY <1>1, <1>2, <1>3 DEF OwnStage, AllInv, SafetyInv, WorkerInv
<1>12. QED
  BY <1>5, <1>8, <1>10, <1>11 DEF Flow

\* A rejected delivery moves to the delay queue as it is.
LEMMA FlowNack ==
    ASSUME AllInv, NEW s \in Stages, Nack(s)
    PROVE  Flow
<1> DEFINE h == held[s]
<1>1. /\ pc[s] = "nack" /\ h \in Messages /\ h.id \in MessageIds /\ Live(h)
  BY BusyFacts DEF Nack, Live
<1>2. /\ pc' = [pc EXCEPT ![s] = "idle"]
      /\ held' = [held EXCEPT ![s] = NoMessage]
      /\ failures' = [failures EXCEPT ![h.id] = @ + 1]
      /\ UNCHANGED <<mainq, dlq, sent, linked>>
      /\ retryq' = IF linked[s] THEN Add(retryq, h) ELSE retryq
  BY DEF Nack, Failed, Finish, Goto
<1>3. /\ pc \in [Stages -> Labels] /\ failures \in [MessageIds -> Nat]
      /\ held \in [Stages -> Messages \cup {NoMessage}]
      /\ retryq \in [Messages -> Nat] /\ linked \in [Stages -> BOOLEAN]
  BY DEF AllInv, TypeInv, TypeOK, BrokerTypeOK, ConsumerTypeOK, Queue
<1>4. SentGrows
  BY <1>2 DEF SentGrows
<1> HIDE DEF h
<1>5. ASSUME NEW m \in Messages, Live(m)'
      PROVE  Live(m)
  BY <1>1, <1>2, <1>3, <1>5 DEF Live, Add
<1>6. CopiesArePaid
  BY <1>1, <1>2, <1>3, <1>5 DEF CopiesArePaid
<1>7. \A m \in Messages : InQueue(m) => InQueue(m)'
  BY <1>2, <1>3 DEF InQueue, Add
<1>8. linked[s] => retryq'[h] > 0
  BY <1>1, <1>2, <1>3 DEF Add
<1>9. CopiesStay
  <2>1. ASSUME NEW id \in MessageIds, Unsettled(id) PROVE Unsettled(id)'
    <3>1. CASE \E m \in Messages : m.id = id /\ InQueue(m)
      BY <1>7, <3>1 DEF Unsettled
    <3>2. CASE linked[s] /\ h.id = id
      BY <1>1, <1>8, <3>2 DEF Unsettled, InQueue
    <3>3. CASE \E t \in Stages \ {s} : /\ pc[t] # "idle" /\ linked[t]
                                       /\ held[t].id = id
      BY <1>2, <1>3, <3>3 DEF Unsettled
    <3>4. QED
      BY <2>1, <3>1, <3>2, <3>3 DEF Unsettled, h
  <2>2. QED
    BY <1>2, <1>7, <2>1 DEF CopiesStay
<1>10. OwnStage'
  BY <1>2, <1>3 DEF OwnStage, AllInv, SafetyInv, WorkerInv
<1>11. QED
  BY <1>4, <1>6, <1>9, <1>10 DEF Flow

\* An acknowledged delivery is gone, which AckIsSafe allows.
LEMMA FlowAck ==
    ASSUME AllInv, NEW s \in Stages, Ack(s)
    PROVE  Flow
<1>1. /\ pc[s] = "ack"
      /\ pc' = [pc EXCEPT ![s] = "idle"]
      /\ held' = [held EXCEPT ![s] = NoMessage]
      /\ UNCHANGED <<mainq, retryq, dlq, sent, linked, failures>>
  BY DEF Ack, Finish, Goto, brokerVars
<1>2. /\ pc \in [Stages -> Labels] /\ failures \in [MessageIds -> Nat]
      /\ held \in [Stages -> Messages \cup {NoMessage}]
  BY DEF AllInv, TypeInv, TypeOK, ConsumerTypeOK
<1>3. SentGrows
  BY <1>1 DEF SentGrows
<1>4. CopiesArePaid
  BY <1>1, <1>2 DEF CopiesArePaid, Live
<1>5. CopiesStay
  BY <1>1, <1>2 DEF CopiesStay, Unsettled, InQueue
<1>6. OwnStage'
  BY <1>1, <1>2 DEF OwnStage, AllInv, SafetyInv, WorkerInv
<1>7. QED
  BY <1>3, <1>4, <1>5, <1>6 DEF Flow

\* The first publication of a message whose stage its publisher is entitled to.
LEMMA FlowHandoff ==
    ASSUME AllInv, NEW s \in Stages, NEW m \in Messages, m.attempt = 1,
           Handoff(s, m),
           \/ s = "ocr" /\ m.id = ChunkId(Doc("ocr"))
           \/ s = "chunk" /\ m.id.stage = "embed" /\ m.id.doc = Doc("chunk")
    PROVE  Flow
<1>1. /\ pc[s] = "handoff"
      /\ pc' = [pc EXCEPT ![s] = "ack"]
      /\ UNCHANGED <<retryq, dlq, held, linked, failures>>
      /\ \/ mainq' = Add(mainq, m) /\ sent' = sent \cup {m.id}
         \/ mainq' = mainq /\ sent' = sent
  BY DEF Handoff, Publish, Goto, jobVars
<1>2. /\ pc \in [Stages -> Labels] /\ failures \in [MessageIds -> Nat]
      /\ mainq \in [Messages -> Nat]
  BY DEF AllInv, TypeInv, TypeOK, BrokerTypeOK, ConsumerTypeOK, Queue
<1>3. SentGrows
  BY <1>1 DEF SentGrows
<1>4. ASSUME NEW k \in Messages, Live(k)'
      PROVE  Live(k) \/ (k = m /\ m.id \in sent')
  <2>1. CASE mainq' = mainq
    <3>1. \A t \in Stages : pc'[t] # "idle" => pc[t] # "idle"
      BY <1>1, <1>2
    <3>2. UNCHANGED <<mainq, retryq, held>>
      BY <1>1, <2>1
    <3>3. QED
      BY <1>4, <3>1, <3>2 DEF Live
  <2>2. CASE mainq' = Add(mainq, m) /\ m.id \in sent'
    BY <1>1, <1>2, <1>4, <2>2 DEF Live, Add
  <2>3. QED
    BY <1>1, <2>1, <2>2
<1>5. CopiesArePaid
  BY <1>1, <1>2, <1>4 DEF CopiesArePaid
<1>6. \A k \in Messages : InQueue(k) => InQueue(k)'
  BY <1>1, <1>2 DEF InQueue, Add
<1>7. m.id \in sent' \ sent => mainq'[m] > 0
  BY <1>1, <1>2 DEF Add
<1>8. CopiesStay
  <2>1. ASSUME NEW id \in MessageIds, Unsettled(id) PROVE Unsettled(id)'
    BY <1>1, <1>2, <1>6, <2>1 DEF Unsettled
  <2>2. ASSUME NEW id \in sent' \ sent PROVE Unsettled(id)'
    BY <1>1, <1>7, <2>2 DEF Unsettled, InQueue
  <2>3. QED
    BY <1>6, <2>1, <2>2 DEF CopiesStay
<1>9. OwnStage'
  BY <1>1, <1>2 DEF OwnStage, AllInv, SafetyInv, WorkerInv
<1>10. QED
  BY <1>3, <1>5, <1>8, <1>9 DEF Flow

\* A delivery moves a copy from its queue to a worker.
LEMMA FlowDeliver ==
    ASSUME AllInv, NEW s \in Stages, NEW m \in Messages, Deliver(s, m)
    PROVE  Flow
<1>1. /\ pc[s] = "idle" /\ linked[s] /\ mainq[m] > 0 /\ m.id.stage = s
      /\ pc' = [pc EXCEPT ![s] = "check"]
      /\ held' = [held EXCEPT ![s] = m]
      /\ mainq' = Remove(mainq, m)
      /\ UNCHANGED <<retryq, dlq, sent, linked, failures>>
  BY DEF Deliver, Goto
<1>2. /\ pc \in [Stages -> Labels] /\ failures \in [MessageIds -> Nat]
      /\ held \in [Stages -> Messages \cup {NoMessage}]
      /\ mainq \in [Messages -> Nat]
  BY DEF AllInv, TypeInv, TypeOK, BrokerTypeOK, ConsumerTypeOK, Queue
<1>3. SentGrows
  BY <1>1 DEF SentGrows
<1>4. ASSUME NEW k \in Messages, Live(k)'
      PROVE  Live(k)
  BY <1>1, <1>2, <1>4 DEF Live, Remove
<1>5. CopiesArePaid
  BY <1>1, <1>2, <1>4 DEF CopiesArePaid
<1>6. \A k \in Messages \ {m} : InQueue(k) => InQueue(k)'
  BY <1>1, <1>2 DEF InQueue, Remove
<1>7. CopiesStay
  <2>1. ASSUME NEW id \in MessageIds, Unsettled(id) PROVE Unsettled(id)'
    <3>1. CASE id = m.id
      BY <1>1, <1>2, <3>1 DEF Unsettled
    <3>2. CASE \E k \in Messages \ {m} : k.id = id /\ InQueue(k)
      BY <1>6, <3>2 DEF Unsettled
    <3>3. CASE \E t \in Stages : /\ pc[t] # "idle" /\ linked[t]
                                 /\ held[t].id = id
      BY <1>1, <1>2, <3>3 DEF Unsettled
    <3>4. QED
      BY <2>1, <3>1, <3>2, <3>3 DEF Unsettled
  <2>2. QED
    BY <1>1, <1>6, <2>1 DEF CopiesStay
<1>8. OwnStage'
  BY <1>1, <1>2 DEF OwnStage, AllInv, SafetyInv, WorkerInv
<1>9. QED
  BY <1>3, <1>5, <1>7, <1>8 DEF Flow

\* The end of a TTL moves a copy from the delay queue to the main queue.
LEMMA FlowExpire ==
    ASSUME AllInv, NEW m \in Messages, Expire(m), UNCHANGED consumerVars
    PROVE  Flow
<1>1. /\ retryq[m] > 0
      /\ retryq' = Remove(retryq, m)
      /\ mainq' = Add(mainq, m)
      /\ UNCHANGED <<dlq, sent, pc, held, linked, failures>>
  BY DEF Expire, consumerVars, jobVars
<1>2. /\ failures \in [MessageIds -> Nat]
      /\ mainq \in [Messages -> Nat] /\ retryq \in [Messages -> Nat]
  BY DEF AllInv, TypeInv, TypeOK, BrokerTypeOK, ConsumerTypeOK, Queue
<1>3. SentGrows
  BY <1>1 DEF SentGrows
<1>4. ASSUME NEW k \in Messages, Live(k)'
      PROVE  Live(k)
  BY <1>1, <1>2, <1>4 DEF Live, Add, Remove
<1>5. CopiesArePaid
  BY <1>1, <1>2, <1>4 DEF CopiesArePaid
<1>6. \A k \in Messages : InQueue(k) => InQueue(k)'
  BY <1>1, <1>2 DEF InQueue, Add, Remove
<1>7. CopiesStay
  BY <1>1, <1>6 DEF CopiesStay, Unsettled
<1>8. OwnStage'
  BY <1>1 DEF OwnStage, AllInv, SafetyInv, WorkerInv
<1>9. QED
  BY <1>3, <1>5, <1>7, <1>8 DEF Flow

\* A crash or a lost channel puts the unacknowledged delivery back.
LEMMA FlowDisrupt ==
    ASSUME AllInv, NEW s \in Stages, DisruptStep(s)
    PROVE  Flow
<1> DEFINE h == held[s]
<1>1. /\ pc[s] # "idle" /\ h \in Messages /\ Live(h)
  BY BusyFacts DEF DisruptStep, Crash, Disconnect, Live
<1>2. /\ mainq' = IF linked[s] THEN Add(mainq, h) ELSE mainq
      /\ UNCHANGED <<retryq, dlq, sent, failures>>
      /\ \A t \in Stages \ {s} : /\ pc'[t] = pc[t]
                                 /\ held'[t] = held[t]
                                 /\ linked'[t] = linked[t]
      /\ pc'[s] = "idle" \/ held'[s] = h
  BY DEF DisruptStep, Crash, Disconnect, Requeue, Finish, Goto, jobVars, AllInv,
         TypeInv, TypeOK, ConsumerTypeOK
<1>3. /\ failures \in [MessageIds -> Nat] /\ mainq \in [Messages -> Nat]
  BY DEF AllInv, TypeInv, TypeOK, BrokerTypeOK, ConsumerTypeOK, Queue
<1> HIDE DEF h
<1>4. SentGrows
  BY <1>2 DEF SentGrows
<1>5. ASSUME NEW k \in Messages, Live(k)'
      PROVE  Live(k)
  BY <1>1, <1>2, <1>3, <1>5 DEF Live, Add, h
<1>6. CopiesArePaid
  BY <1>2, <1>3, <1>5 DEF CopiesArePaid
<1>7. \A k \in Messages : InQueue(k) => InQueue(k)'
  BY <1>2, <1>3 DEF InQueue, Add
<1>8. linked[s] => mainq'[h] > 0
  BY <1>1, <1>2, <1>3 DEF Add
<1>9. CopiesStay
  <2>1. ASSUME NEW id \in MessageIds, Unsettled(id) PROVE Unsettled(id)'
    <3>1. CASE \E m \in Messages : m.id = id /\ InQueue(m)
      BY <1>7, <3>1 DEF Unsettled
    <3>2. CASE linked[s] /\ h.id = id
      BY <1>1, <1>8, <3>2 DEF Unsettled, InQueue
    <3>3. CASE \E t \in Stages \ {s} : /\ pc[t] # "idle" /\ linked[t]
                                       /\ held[t].id = id
      BY <1>2, <3>3 DEF Unsettled
    <3>4. QED
      BY <2>1, <3>1, <3>2, <3>3 DEF Unsettled, h
  <2>2. QED
    BY <1>2, <1>7, <2>1 DEF CopiesStay
<1>10. OwnStage'
  BY <1>1, <1>2 DEF OwnStage, AllInv, SafetyInv, WorkerInv, h
<1>11. QED
  BY <1>4, <1>6, <1>9, <1>10 DEF Flow

\* A new channel moves no message.
LEMMA FlowReconnect ==
    ASSUME AllInv, NEW s \in Stages, ReconnectStep(s)
    PROVE  Flow
<1>1. /\ linked' = [linked EXCEPT ![s] = TRUE]
      /\ UNCHANGED <<mainq, retryq, dlq, sent, pc, held, failures>>
  BY DEF ReconnectStep, Reconnect, brokerVars, jobVars
<1>2. /\ failures \in [MessageIds -> Nat] /\ linked \in [Stages -> BOOLEAN]
  BY DEF AllInv, TypeInv, TypeOK, ConsumerTypeOK
<1>3. CopiesArePaid
  BY <1>1, <1>2 DEF CopiesArePaid, Live
<1>4. CopiesStay
  BY <1>1, <1>2 DEF CopiesStay, Unsettled, InQueue
<1>5. SentGrows /\ OwnStage'
  BY <1>1 DEF SentGrows, OwnStage, AllInv, SafetyInv, WorkerInv
<1>6. QED
  BY <1>3, <1>4, <1>5 DEF Flow

\* CreateDocument publishes the ocr message of an upload and nothing else.
LEMMA FlowApi ==
    ASSUME AllInv, ApiStep
    PROVE  Flow
<1>1. PICK d \in Docs : ApiHandle(d)
  BY DEF ApiStep
<1>2. UNCHANGED <<pc, held, linked, failures>>
  BY DEF ApiStep, consumerVars, jobVars
<1>3. CASE EnqueueFirstStage(d)
  <2> DEFINE m == FirstAttempt(OcrId(d))
  <2>1. /\ m \in Messages /\ m.attempt = 1 /\ m.id = OcrId(d)
    <3>1. 1 \in 1..MaxSerial
      BY IngestAssumption
    <3>2. QED
      BY <3>1, FirstMessages DEF FirstAttempt
  <2>2. /\ mainq' = Add(mainq, m) /\ sent' = sent \cup {m.id}
        /\ UNCHANGED <<retryq, dlq>>
        /\ upload'[d] = "published"
    BY <1>3 DEF EnqueueFirstStage, Publish, Progress, AllInv, TypeInv, TypeOK,
                ApiTypeOK
  <2>3. /\ failures \in [MessageIds -> Nat] /\ mainq \in [Messages -> Nat]
    BY DEF AllInv, TypeInv, TypeOK, BrokerTypeOK, ConsumerTypeOK, Queue
  <2> HIDE DEF m
  <2>4. SentGrows
    BY <2>1, <2>2 DEF SentGrows
  <2>5. ASSUME NEW k \in Messages, Live(k)'
        PROVE  Live(k) \/ k = m
    BY <1>2, <2>2, <2>3, <2>5 DEF Live, Add
  <2>6. CopiesArePaid
    BY <1>2, <2>1, <2>2, <2>3, <2>5 DEF CopiesArePaid
  <2>7. (\A k \in Messages : InQueue(k) => InQueue(k)') /\ mainq'[m] > 0
    BY <2>1, <2>2, <2>3 DEF InQueue, Add
  <2>8. CopiesStay
    BY <1>2, <2>1, <2>2, <2>7 DEF CopiesStay, Unsettled, InQueue
  <2>9. OwnStage'
    BY <1>2 DEF OwnStage, AllInv, SafetyInv, WorkerInv
  <2>10. QED
    BY <2>4, <2>6, <2>8, <2>9 DEF Flow
<1>4. CASE ~EnqueueFirstStage(d)
  BY <1>1, <1>2, <1>4, FlowQuiet
     DEF ApiHandle, PutUpload, CommitDocument, RejectDocument, AbortUpload,
         RetryDocument, brokerVars
<1>5. QED
  BY <1>3, <1>4

\* The calls of the OCR worker.
LEMMA FlowOcr ==
    ASSUME AllInv, OcrHandle
    PROVE  Flow
<1> USE DEF Stages
<1>1. ASSUME NEW o, OcrCheck(o) \/ OcrFetch(o) PROVE Flow
  BY <1>1, FlowRead DEF OcrCheck, OcrFetch, CheckProcessed, FetchDocument
<1>2. ASSUME NEW o, \/ OcrStart(o) \/ OcrStartEvent(o) \/ OcrComplete(o)
                    \/ OcrCompleteEvent(o) \/ OcrRecord(o) \/ OcrFail(o)
                    \/ OcrFailEvent(o) \/ OcrTransientEvent(o)
      PROVE  Flow
  BY <1>2, FlowWrite
     DEF OcrStart, OcrStartEvent, OcrComplete, OcrCompleteEvent, OcrRecord,
         OcrFail, OcrFailEvent, OcrTransientEvent
<1>3. ASSUME OcrExtract PROVE Flow
  BY <1>3, FlowMove DEF OcrExtract, jobVars
<1>4. ASSUME OcrHandoff PROVE Flow
  <2> DEFINE m == FirstAttempt(ChunkId(Doc("ocr")))
  <2>1. Doc("ocr") \in Docs /\ 1 \in 1..MaxSerial
    BY <1>4, BusyFacts, IngestAssumption DEF OcrHandoff, Handoff
  <2>2. m \in Messages /\ m.attempt = 1 /\ m.id = ChunkId(Doc("ocr"))
    BY <2>1, FirstMessages DEF FirstAttempt
  <2> HIDE DEF m
  <2>3. QED
    BY <1>4, <2>2, FlowHandoff DEF OcrHandoff, m
<1>5. ASSUME OcrRetry \/ OcrNack \/ OcrAck PROVE Flow
  BY <1>5, FlowRetry, FlowNack, FlowAck DEF OcrRetry, OcrNack, OcrAck
<1>6. QED
  BY <1>1, <1>2, <1>3, <1>4, <1>5 DEF OcrHandle

\* The calls of the chunker.
LEMMA FlowChunk ==
    ASSUME AllInv, ChunkHandle
    PROVE  Flow
<1> USE DEF Stages
<1>1. ASSUME NEW o, ChunkCheck(o) \/ ChunkFetch(o) PROVE Flow
  BY <1>1, FlowRead DEF ChunkCheck, ChunkFetch, CheckProcessed, FetchDocument
<1>2. ASSUME NEW o, \/ ChunkStart(o) \/ ChunkStartEvent(o) \/ ChunkInsert(o)
                    \/ ChunkComplete(o) \/ ChunkCompleteEvent(o)
                    \/ ChunkRecord(o)
      PROVE  Flow
  BY <1>2, FlowWrite
     DEF ChunkStart, ChunkStartEvent, ChunkInsert, ChunkComplete,
         ChunkCompleteEvent, ChunkRecord
<1>3. ASSUME ChunkHandoff PROVE Flow
  <2> DEFINE d == Doc("chunk")
             n == minted[d] + 1
             m == FirstAttempt(EmbedId(d, n))
  <2>1. d \in Docs /\ minted[d] < MaxSerial
    BY <1>3, BusyFacts DEF ChunkHandoff
  <2>2. n \in 1..MaxSerial
    BY <2>1, IngestAssumption DEF AllInv, TypeInv, TypeOK, BrokerTypeOK
  <2>3. m \in Messages /\ m.attempt = 1 /\ m.id = EmbedId(d, n)
    BY <2>1, <2>2, FirstMessages DEF FirstAttempt
  <2>4. m.id.stage = "embed" /\ m.id.doc = d
    BY <2>3 DEF EmbedId
  <2>5. Handoff("chunk", m)
    BY <1>3 DEF ChunkHandoff
  <2> HIDE DEF m
  <2>6. QED
    BY <2>3, <2>4, <2>5, FlowHandoff
<1>4. ASSUME ChunkRetry \/ ChunkAck PROVE Flow
  BY <1>4, FlowRetry, FlowAck DEF ChunkRetry, ChunkAck
<1>5. QED
  BY <1>1, <1>2, <1>3, <1>4 DEF ChunkHandle

\* The calls of the embedder.
LEMMA FlowEmbed ==
    ASSUME AllInv, EmbedHandle
    PROVE  Flow
<1> USE DEF Stages
<1>1. ASSUME NEW o, EmbedCheck(o) \/ EmbedFetch(o) \/ EmbedReadChunks(o)
      PROVE  Flow
  BY <1>1, FlowRead
     DEF EmbedCheck, EmbedFetch, EmbedReadChunks, CheckProcessed, FetchDocument
<1>2. ASSUME NEW o, \/ EmbedStart(o) \/ EmbedStartEvent(o) \/ EmbedWrite(o)
                    \/ EmbedComplete(o) \/ EmbedCompleteEvent(o)
                    \/ EmbedRecord(o) \/ EmbedTransientEvent(o)
      PROVE  Flow
  BY <1>2, FlowWrite
     DEF EmbedStart, EmbedStartEvent, EmbedWrite, EmbedComplete,
         EmbedCompleteEvent, EmbedRecord, EmbedTransientEvent
<1>3. ASSUME EmbedBatchFails PROVE Flow
  BY <1>3, FlowMove DEF EmbedBatchFails, jobVars
<1>4. ASSUME EmbedRetry \/ EmbedNack \/ EmbedAck PROVE Flow
  BY <1>4, FlowRetry, FlowNack, FlowAck DEF EmbedRetry, EmbedNack, EmbedAck
<1>5. QED
  BY <1>1, <1>2, <1>3, <1>4 DEF EmbedHandle

\* Every step of the pipeline moves messages in this way.
LEMMA FlowNext ==
    ASSUME AllInv, [Next]_vars
    PROVE  Flow
<1>1. CASE TtlStep
  BY <1>1, FlowExpire DEF TtlStep
<1>2. ASSUME NEW s \in Stages, HandleStep(s)
      PROVE  Flow
  BY <1>2, FlowOcr, FlowChunk, FlowEmbed DEF HandleStep
<1>3. ASSUME NEW s \in Stages, DeliverStep(s)
      PROVE  Flow
  BY <1>3, FlowDeliver DEF DeliverStep
<1>4. CASE UNCHANGED vars
  BY <1>4, FlowQuiet DEF vars, brokerVars, consumerVars, jobVars
<1>5. QED
  BY <1>1, <1>2, <1>3, <1>4, FlowApi, FlowDisrupt, FlowReconnect DEF Next

-----------------------------------------------------------------------------

\* The steps that are not a worker's own leave it where it is, make it idle, or
\* deliver a message to it.
Undisturbed(s) ==
    \/ pc'[s] \in {"idle", "check"}
    \/ pc'[s] = pc[s] /\ held'[s] = held[s] /\ (linked'[s] => linked[s])

\* A call of one worker does not disturb another one.
LEMMA OtherHandler ==
    ASSUME AllInv, NEW s \in Stages, NEW t \in Stages \ {s}, HandleStep(s)
    PROVE  Undisturbed(t)
<1>1. CASE s = "ocr"
  BY <1>1
     DEF Undisturbed, HandleStep, OcrHandle, OcrCheck, OcrFetch, OcrStart,
         OcrStartEvent, OcrExtract, OcrComplete, OcrCompleteEvent, OcrRecord,
         OcrHandoff, OcrFail, OcrFailEvent, OcrTransientEvent, OcrRetry,
         OcrNack, OcrAck, CheckProcessed, FetchDocument, Read, Write, Handoff,
         RetryOrDeadLetter, Nack, Ack, Finish, Goto, jobVars, AllInv, TypeInv,
         TypeOK, ConsumerTypeOK
<1>2. CASE s = "chunk"
  BY <1>2
     DEF Undisturbed, HandleStep, ChunkHandle, ChunkCheck, ChunkFetch,
         ChunkStart, ChunkStartEvent, ChunkInsert, ChunkComplete,
         ChunkCompleteEvent, ChunkRecord, ChunkHandoff, ChunkRetry, ChunkAck,
         CheckProcessed, FetchDocument, Read, Write, Handoff,
         RetryOrDeadLetter, Ack, Finish, Goto, jobVars, AllInv, TypeInv,
         TypeOK, ConsumerTypeOK
<1>3. CASE s = "embed"
  BY <1>3
     DEF Undisturbed, HandleStep, EmbedHandle, EmbedCheck, EmbedFetch,
         EmbedStart, EmbedStartEvent, EmbedReadChunks, EmbedBatchFails,
         EmbedWrite, EmbedComplete, EmbedCompleteEvent, EmbedRecord,
         EmbedTransientEvent, EmbedRetry, EmbedNack, EmbedAck,
         CheckProcessed, FetchDocument, Read, Write,
         RetryOrDeadLetter, Nack, Ack, Finish, Goto, jobVars, AllInv, TypeInv,
         TypeOK, ConsumerTypeOK
<1>4. QED
  BY <1>1, <1>2, <1>3 DEF Stages

\* Only a call of its own advances a worker that has a delivery in hand.
LEMMA OtherStep ==
    ASSUME AllInv, [Next]_vars, NEW t \in Stages
    PROVE  Undisturbed(t) \/ HandleStep(t)
<1>1. ASSUME NEW s \in Stages, HandleStep(s)
      PROVE  Undisturbed(t) \/ HandleStep(t)
  BY <1>1, OtherHandler
<1>2. ASSUME NEW s \in Stages,
             DeliverStep(s) \/ DisruptStep(s) \/ ReconnectStep(s)
      PROVE  Undisturbed(t)
  BY <1>2
     DEF Undisturbed, DeliverStep, Deliver, DisruptStep, Crash, Disconnect,
         ReconnectStep, Reconnect, Finish, Goto, jobVars, AllInv, TypeInv,
         TypeOK, ConsumerTypeOK
<1>3. ASSUME ApiStep \/ TtlStep \/ UNCHANGED vars
      PROVE  Undisturbed(t)
  BY <1>3 DEF Undisturbed, ApiStep, TtlStep, vars, consumerVars, jobVars
<1>4. QED
  BY <1>1, <1>2, <1>3 DEF Next

-----------------------------------------------------------------------------

OcrInv == OcrIsFresh /\ OcrIsAlive /\ OcrIsDone /\ OcrIsRecorded /\ OcrHasFailed

\* The ocr worker while somebody else moves.
LEMMA OcrOther ==
    ASSUME AllInv, StoreGrows, Undisturbed("ocr")
    PROVE  OcrInv'
<1>1. CASE pc'["ocr"] \in {"idle", "check"}
  BY <1>1
     DEF OcrInv, OcrIsFresh, OcrIsAlive, OcrIsDone, OcrIsRecorded, OcrHasFailed
<1>2. CASE pc'["ocr"] = pc["ocr"] /\ held'["ocr"] = held["ocr"]
           /\ pc["ocr"] \notin {"idle", "check"}
  <2>1. /\ "ocr" \in Stages /\ Doc("ocr") \in Docs /\ Doc("ocr")' = Doc("ocr")
        /\ held["ocr"].id.stage = "ocr"
    BY <1>2, BusyFacts DEF Stages, Doc
  <2>2. OcrIsFresh'
    <3>1. ASSUME held["ocr"].id \in processed' \ processed PROVE FALSE
      <4>1. PICK s \in Stages : /\ pc[s] = "record" /\ pc'[s] # "record"
                                /\ held[s].id = held["ocr"].id
        BY <3>1 DEF StoreGrows
      <4>2. s = "ocr"
        BY <2>1, <4>1, BusyFacts
      <4>3. QED
        BY <1>2, <4>1, <4>2
    <3>2. QED
      BY <1>2, <3>1 DEF OcrIsFresh, AllInv, SafetyInv, WorkerInv
  <2>3. OcrIsAlive'
    BY <1>2, <2>1 DEF OcrIsAlive, StoreGrows, AllInv, SafetyInv, WorkerInv
  <2>4. OcrIsDone'
    BY <1>2, <2>1 DEF OcrIsDone, StoreGrows, AllInv, SafetyInv, WorkerInv
  <2>5. OcrIsRecorded' /\ OcrHasFailed'
    BY <1>2, <2>1
       DEF OcrIsRecorded, OcrHasFailed, StoreGrows, AllInv, SafetyInv, WorkerInv
  <2>6. QED
    BY <2>2, <2>3, <2>4, <2>5 DEF OcrInv
<1>3. QED
  BY <1>1, <1>2 DEF Undisturbed

\* The ocr worker moves itself.
LEMMA OcrSelf ==
    ASSUME AllInv, OcrHandle
    PROVE  OcrInv'
<1> USE DEF Stages
<1> DEFINE T == /\ pc \in [Stages -> Labels]
                /\ status \in [Docs -> Statuses]
                /\ stamped \in [Docs -> SUBSET Stages]
<1>1. T
  BY DEF AllInv, TypeInv, TypeOK, ConsumerTypeOK, StoreTypeOK
<1>2. pc["ocr"] # "idle" => Doc("ocr") \in Docs
  BY BusyFacts
<1>3. ASSUME NEW o, OcrCheck(o) PROVE OcrInv'
  BY <1>1, <1>3
     DEF OcrCheck, CheckProcessed, Read, Goto, storeVars, Doc, OcrInv,
         OcrIsFresh, OcrIsAlive, OcrIsDone, OcrIsRecorded, OcrHasFailed
<1>4. ASSUME NEW o, OcrFetch(o) PROVE OcrInv'
  BY <1>1, <1>4
     DEF OcrFetch, FetchDocument, Read, Goto, storeVars, Doc, OcrInv, Terminal,
         OcrIsFresh, OcrIsAlive, OcrIsDone, OcrIsRecorded, OcrHasFailed,
         AllInv, SafetyInv, WorkerInv
<1>5. ASSUME NEW o, OcrStart(o) PROVE OcrInv'
  BY <1>1, <1>2, <1>5
     DEF OcrStart, Write, Goto, jobVars, UpdateStatus, Doc, OcrInv, OcrIsFresh,
         OcrIsAlive, OcrIsDone, OcrIsRecorded, OcrHasFailed, AllInv, SafetyInv,
         WorkerInv
<1>6. ASSUME NEW o, OcrStartEvent(o) \/ OcrTransientEvent(o) PROVE OcrInv'
  BY <1>1, <1>6
     DEF OcrStartEvent, OcrTransientEvent, Write, Goto, jobVars, Doc, OcrInv,
         OcrIsFresh, OcrIsAlive, OcrIsDone, OcrIsRecorded, OcrHasFailed, AllInv,
         SafetyInv, WorkerInv
<1>7. ASSUME OcrExtract PROVE OcrInv'
  BY <1>1, <1>7
     DEF OcrExtract, Goto, storeVars, jobVars, Doc, OcrInv, OcrIsFresh,
         OcrIsAlive, OcrIsDone, OcrIsRecorded, OcrHasFailed, AllInv, SafetyInv,
         WorkerInv
<1>8. ASSUME NEW o, OcrComplete(o) PROVE OcrInv'
  BY <1>1, <1>2, <1>8
     DEF OcrComplete, Write, Goto, jobVars, UpdateStatus, Applied, Doc, OcrInv,
         OcrIsFresh, OcrIsAlive, OcrIsDone, OcrIsRecorded, OcrHasFailed, Early,
         AllInv, SafetyInv, WorkerInv
<1>9. ASSUME NEW o, OcrCompleteEvent(o) PROVE OcrInv'
  BY <1>1, <1>9
     DEF OcrCompleteEvent, Write, Goto, jobVars, Doc, OcrInv, OcrIsFresh,
         OcrIsAlive, OcrIsDone, OcrIsRecorded, OcrHasFailed, AllInv, SafetyInv,
         WorkerInv
<1>10. ASSUME NEW o, OcrRecord(o) PROVE OcrInv'
  BY <1>1, <1>10
     DEF OcrRecord, Write, Goto, jobVars, RecordProcessed, Applied, Doc, OcrInv,
         OcrIsFresh, OcrIsAlive, OcrIsDone, OcrIsRecorded, OcrHasFailed, AllInv,
         SafetyInv, WorkerInv
<1>11. ASSUME NEW o, OcrFail(o) PROVE OcrInv'
  BY <1>1, <1>2, <1>11
     DEF OcrFail, Write, Goto, jobVars, UpdateStatus, Applied, Doc, OcrInv,
         OcrIsFresh, OcrIsAlive, OcrIsDone, OcrIsRecorded, OcrHasFailed, AllInv,
         SafetyInv, WorkerInv
<1>12. ASSUME NEW o, OcrFailEvent(o) PROVE OcrInv'
  BY <1>1, <1>12
     DEF OcrFailEvent, Write, Goto, OcrInv, OcrIsFresh, OcrIsAlive, OcrIsDone,
         OcrIsRecorded, OcrHasFailed
<1>13. ASSUME OcrHandoff \/ OcrRetry \/ OcrNack \/ OcrAck PROVE OcrInv'
  BY <1>1, <1>13
     DEF OcrHandoff, Handoff, OcrRetry, RetryOrDeadLetter, OcrNack, Nack, OcrAck,
         Ack, Finish, Goto, OcrInv, OcrIsFresh, OcrIsAlive, OcrIsDone,
         OcrIsRecorded, OcrHasFailed
<1>14. QED
  BY <1>3, <1>4, <1>5, <1>6, <1>7, <1>8, <1>9, <1>10, <1>11, <1>12, <1>13
     DEF OcrHandle

\* The OCR part of the invariant is preserved by every step.
LEMMA OcrNext ==
    ASSUME AllInv, [Next]_vars
    PROVE  OcrInv'
<1>1. Undisturbed("ocr") \/ OcrHandle
  BY OtherStep DEF HandleStep, Stages
<1>2. QED
  BY <1>1, StoreNext, OcrOther, OcrSelf

-----------------------------------------------------------------------------

ChunkInv == ChunkHasRows /\ ChunkIsDone

\* It survives every step that does not disturb the chunker,
LEMMA ChunkOther ==
    ASSUME AllInv, StoreGrows, Undisturbed("chunk")
    PROVE  ChunkInv'
<1>1. CASE pc'["chunk"] \in {"idle", "check"}
  BY <1>1 DEF ChunkInv, ChunkHasRows, ChunkIsDone
<1>2. CASE pc'["chunk"] = pc["chunk"] /\ held'["chunk"] = held["chunk"]
           /\ pc["chunk"] # "idle"
  <2>1. Doc("chunk") \in Docs /\ Doc("chunk")' = Doc("chunk")
    BY <1>2, BusyFacts DEF Stages, Doc
  <2>2. QED
    BY <1>2, <2>1
       DEF StoreGrows, ChunkInv, ChunkHasRows, ChunkIsDone, AllInv, SafetyInv,
           WorkerInv
<1>3. QED
  BY <1>1, <1>2 DEF Undisturbed

\* and every call of the chunker.
LEMMA ChunkSelf ==
    ASSUME AllInv, ChunkHandle
    PROVE  ChunkInv'
<1> USE DEF Stages
<1>1. /\ pc \in [Stages -> Labels]
      /\ stamped \in [Docs -> SUBSET Stages]
      /\ chunks \in [Docs -> [gen : Nat, embedded : BOOLEAN]]
  BY DEF AllInv, TypeInv, TypeOK, ConsumerTypeOK, StoreTypeOK
<1>2. pc["chunk"] # "idle" => Doc("chunk") \in Docs
  BY BusyFacts
<1>3. ASSUME NEW o, \/ ChunkCheck(o) \/ ChunkFetch(o) \/ ChunkStart(o)
                    \/ ChunkStartEvent(o)
      PROVE  ChunkInv'
  BY <1>1, <1>3
     DEF ChunkCheck, ChunkFetch, ChunkStart, ChunkStartEvent, CheckProcessed,
         FetchDocument, Read, Write, Goto, ChunkInv, ChunkHasRows, ChunkIsDone
<1>4. ASSUME NEW o, ChunkInsert(o) PROVE ChunkInv'
  <2>1. o = "ok" => chunks'[Doc("chunk")].gen > 0
    BY <1>1, <1>2, <1>4 DEF ChunkInsert, Write, InsertChunks, Applied
  <2>2. QED
    BY <1>1, <1>4, <2>1
       DEF ChunkInsert, Write, Goto, jobVars, Doc, ChunkInv, ChunkHasRows,
           ChunkIsDone
<1>5. ASSUME NEW o, ChunkComplete(o) PROVE ChunkInv'
  BY <1>1, <1>2, <1>5
     DEF ChunkComplete, Write, Goto, jobVars, UpdateStatus, Applied, Doc,
         ChunkInv, ChunkHasRows, ChunkIsDone, AllInv, SafetyInv, WorkerInv
<1>6. ASSUME NEW o, ChunkCompleteEvent(o) \/ ChunkRecord(o) PROVE ChunkInv'
  BY <1>1, <1>6
     DEF ChunkCompleteEvent, ChunkRecord, Write, Goto, jobVars, Doc, ChunkInv,
         ChunkHasRows, ChunkIsDone, AllInv, SafetyInv, WorkerInv
<1>7. ASSUME ChunkHandoff \/ ChunkRetry \/ ChunkAck PROVE ChunkInv'
  BY <1>1, <1>7
     DEF ChunkHandoff, Handoff, ChunkRetry, RetryOrDeadLetter, ChunkAck, Ack,
         Finish, Goto, ChunkInv, ChunkHasRows, ChunkIsDone
<1>8. QED
  BY <1>3, <1>4, <1>5, <1>6, <1>7 DEF ChunkHandle

\* The chunker part of the invariant is preserved by every step.
LEMMA ChunkNext ==
    ASSUME AllInv, [Next]_vars
    PROVE  ChunkInv'
<1>1. Undisturbed("chunk") \/ ChunkHandle
  BY OtherStep DEF HandleStep, Stages
<1>2. QED
  BY <1>1, StoreNext, ChunkOther, ChunkSelf

-----------------------------------------------------------------------------

\* EmbedIsDone survives every step that does not disturb the embedder,
LEMMA EmbedOther ==
    ASSUME AllInv, StoreGrows, Undisturbed("embed")
    PROVE  EmbedIsDone'
<1>1. CASE pc'["embed"] \in {"idle", "check"}
  BY <1>1 DEF EmbedIsDone
<1>2. CASE pc'["embed"] = pc["embed"] /\ held'["embed"] = held["embed"]
           /\ pc["embed"] # "idle"
  <2>1. Doc("embed") \in Docs /\ Doc("embed")' = Doc("embed")
    BY <1>2, BusyFacts DEF Stages, Doc
  <2>2. QED
    BY <1>2, <2>1 DEF StoreGrows, EmbedIsDone, AllInv, SafetyInv, WorkerInv
<1>3. QED
  BY <1>1, <1>2 DEF Undisturbed

\* and every call of the embedder.
LEMMA EmbedSelf ==
    ASSUME AllInv, EmbedHandle
    PROVE  EmbedIsDone'
<1> USE DEF Stages
<1>1. /\ pc \in [Stages -> Labels]
      /\ stamped \in [Docs -> SUBSET Stages]
  BY DEF AllInv, TypeInv, TypeOK, ConsumerTypeOK, StoreTypeOK
<1>2. pc["embed"] # "idle" => Doc("embed") \in Docs
  BY BusyFacts
<1>3. ASSUME NEW o, \/ EmbedCheck(o) \/ EmbedFetch(o) \/ EmbedStart(o)
                    \/ EmbedStartEvent(o) \/ EmbedReadChunks(o)
                    \/ EmbedBatchFails \/ EmbedWrite(o) \/ EmbedRecord(o)
                    \/ EmbedTransientEvent(o)
      PROVE  EmbedIsDone'
  BY <1>1, <1>3
     DEF EmbedCheck, EmbedFetch, EmbedStart, EmbedStartEvent, EmbedReadChunks,
         EmbedBatchFails, EmbedWrite, EmbedRecord, EmbedTransientEvent,
         CheckProcessed, FetchDocument, Read, Write, Goto, EmbedIsDone
<1>4. ASSUME NEW o, EmbedComplete(o) PROVE EmbedIsDone'
  BY <1>1, <1>2, <1>4
     DEF EmbedComplete, Write, Goto, jobVars, UpdateStatus, Applied, Doc,
         EmbedIsDone
<1>5. ASSUME NEW o, EmbedCompleteEvent(o) PROVE EmbedIsDone'
  BY <1>1, <1>5
     DEF EmbedCompleteEvent, Write, Goto, jobVars, Doc, EmbedIsDone, AllInv,
         SafetyInv, WorkerInv
<1>6. ASSUME EmbedRetry \/ EmbedNack \/ EmbedAck PROVE EmbedIsDone'
  BY <1>1, <1>6
     DEF EmbedRetry, RetryOrDeadLetter, EmbedNack, Nack, EmbedAck, Ack, Finish,
         Goto, EmbedIsDone
<1>7. QED
  BY <1>3, <1>4, <1>5, <1>6 DEF EmbedHandle

\* EmbedIsDone is preserved by every step.
LEMMA EmbedNext ==
    ASSUME AllInv, [Next]_vars
    PROVE  EmbedIsDone'
<1>1. Undisturbed("embed") \/ EmbedHandle
  BY OtherStep DEF HandleStep, Stages
<1>2. QED
  BY <1>1, StoreNext, EmbedOther, EmbedSelf

-----------------------------------------------------------------------------

\* Why a worker that comes to its acknowledgement may acknowledge.
AckReason(s) ==
    \/ \E m \in Messages : m.id = held'[s].id /\ InQueue(m)'
    \/ ~linked'[s]
    \/ s \in stamped'[Doc(s)']
    \/ status'[Doc(s)'] = "failed"

\* A message found in processed_messages, or a document found terminal.
LEMMA SkipReason ==
    ASSUME AllInv, NEW s \in Stages, pc[s] # "idle",
           UNCHANGED <<held, stamped, status>>,
           held[s].id \in processed \/ status[Doc(s)] \in Terminal
    PROVE  AckReason(s)
<1>1. Doc(s) \in Docs /\ held[s].id.stage = s /\ held[s].id.doc = Doc(s)
  BY BusyFacts DEF Doc
<1>2. s \in stamped[Doc(s)] \/ status[Doc(s)] = "failed"
  BY <1>1 DEF Terminal, AllInv, SafetyInv, ProcessedIsDone, MessageInv,
              EmbeddedIsStamped
<1>3. Doc(s)' = Doc(s)
  BY DEF Doc
<1>4. QED
  BY <1>2, <1>3 DEF AckReason

\* A copy of a retried delivery is queued, unless the channel is closed.
LEMMA RetryIsQueued ==
    ASSUME AllInv, NEW s \in Stages, RetryOrDeadLetter(s)
    PROVE  \/ ~linked'[s]
           \/ \E m \in Messages : m.id = held'[s].id /\ InQueue(m)'
<1> DEFINE h == held[s]
           c == [h EXCEPT !.attempt = @ + 1]
<1>1. pc[s] = "retry" /\ h \in Messages
  BY BusyFacts DEF RetryOrDeadLetter
<1>2. c.id = h.id
  BY <1>1 DEF Messages
<1>3. retryq \in [Messages -> Nat] /\ dlq \in [Messages -> Nat]
  BY DEF AllInv, TypeInv, TypeOK, BrokerTypeOK, Queue
<1>4. CASE ~linked[s]
  BY <1>4 DEF RetryOrDeadLetter
<1>5. CASE linked[s] /\ h.attempt >= MaxRetries
  <2>1. dlq'[h] > 0 /\ held' = held
    BY <1>1, <1>3, <1>5 DEF RetryOrDeadLetter, Add, jobVars
  <2>2. QED
    BY <1>1, <2>1 DEF InQueue
<1>6. CASE linked[s] /\ ~(h.attempt >= MaxRetries)
  <2>1. c \in Messages
    BY <1>1, <1>6, NextAttempt
  <2>2. retryq'[c] > 0 /\ held' = held
    BY <1>3, <1>6, <2>1 DEF RetryOrDeadLetter, Add, jobVars
  <2>3. QED
    BY <1>2, <2>1, <2>2 DEF InQueue
<1>7. QED
  BY <1>4, <1>5, <1>6

\* So it may be acknowledged.
LEMMA RetryReason ==
    ASSUME AllInv, NEW s \in Stages, RetryOrDeadLetter(s)
    PROVE  AckReason(s)
BY RetryIsQueued DEF AckReason

\* The OCR worker acknowledges only what is settled or queued again.
LEMMA AckOcr ==
    ASSUME AllInv, OcrHandle, pc'["ocr"] = "ack"
    PROVE  AckReason("ocr")
<1> USE DEF Stages
<1>1. pc \in [Stages -> Labels]
  BY DEF AllInv, TypeInv, TypeOK, ConsumerTypeOK
<1>2. ASSUME NEW o, OcrCheck(o) \/ OcrFetch(o) PROVE AckReason("ocr")
  <2>1. /\ pc["ocr"] # "idle" /\ UNCHANGED <<held, stamped, status>>
        /\ held["ocr"].id \in processed \/ status[Doc("ocr")] \in Terminal
    BY <1>1, <1>2
       DEF OcrCheck, OcrFetch, CheckProcessed, FetchDocument, Read, Goto,
           storeVars
  <2>2. QED
    BY <2>1, SkipReason
<1>3. ASSUME NEW o, OcrFailEvent(o) PROVE AckReason("ocr")
  BY <1>3
     DEF OcrFailEvent, Write, jobVars, Doc, AckReason, AllInv, SafetyInv,
         WorkerInv, OcrHasFailed
<1>4. ASSUME OcrHandoff PROVE AckReason("ocr")
  BY <1>4
     DEF OcrHandoff, Handoff, storeVars, jobVars, Doc, AckReason, AllInv,
         SafetyInv, WorkerInv, OcrIsDone
<1>5. ASSUME OcrRetry PROVE AckReason("ocr")
  BY <1>5, RetryReason DEF OcrRetry
<1>6. ASSUME NEW o, \/ OcrStart(o) \/ OcrStartEvent(o) \/ OcrComplete(o)
                    \/ OcrCompleteEvent(o) \/ OcrRecord(o) \/ OcrFail(o)
                    \/ OcrTransientEvent(o) \/ OcrExtract \/ OcrNack \/ OcrAck
      PROVE  FALSE
  BY <1>1, <1>6
     DEF OcrStart, OcrStartEvent, OcrComplete, OcrCompleteEvent, OcrRecord,
         OcrFail, OcrTransientEvent, OcrExtract, OcrNack, Nack, OcrAck, Ack,
         Finish, Write, Goto
<1>7. QED
  BY <1>2, <1>3, <1>4, <1>5, <1>6 DEF OcrHandle

\* The chunker acknowledges only what is settled or queued again.
LEMMA AckChunk ==
    ASSUME AllInv, ChunkHandle, pc'["chunk"] = "ack"
    PROVE  AckReason("chunk")
<1> USE DEF Stages
<1>1. pc \in [Stages -> Labels]
  BY DEF AllInv, TypeInv, TypeOK, ConsumerTypeOK
<1>2. ASSUME NEW o, ChunkCheck(o) \/ ChunkFetch(o) PROVE AckReason("chunk")
  <2>1. /\ pc["chunk"] # "idle" /\ UNCHANGED <<held, stamped, status>>
        /\ \/ held["chunk"].id \in processed
           \/ status[Doc("chunk")] \in Terminal
           \/ "ocr" \notin stamped[Doc("chunk")]
    BY <1>1, <1>2
       DEF ChunkCheck, ChunkFetch, CheckProcessed, FetchDocument, Read, Goto,
           storeVars
  <2>2. "ocr" \in stamped[Doc("chunk")]
    BY <2>1, BusyFacts
  <2>3. QED
    BY <2>1, <2>2, SkipReason
<1>3. ASSUME ChunkHandoff PROVE AckReason("chunk")
  BY <1>3
     DEF ChunkHandoff, Handoff, storeVars, jobVars, Doc, AckReason, AllInv,
         SafetyInv, WorkerInv, ChunkIsDone
<1>4. ASSUME ChunkRetry PROVE AckReason("chunk")
  BY <1>4, RetryReason DEF ChunkRetry
<1>5. ASSUME NEW o, \/ ChunkStart(o) \/ ChunkStartEvent(o) \/ ChunkInsert(o)
                    \/ ChunkComplete(o) \/ ChunkCompleteEvent(o)
                    \/ ChunkRecord(o) \/ ChunkAck
      PROVE  FALSE
  BY <1>1, <1>5
     DEF ChunkStart, ChunkStartEvent, ChunkInsert, ChunkComplete,
         ChunkCompleteEvent, ChunkRecord, ChunkAck, Ack, Finish, Write, Goto
<1>6. QED
  BY <1>2, <1>3, <1>4, <1>5 DEF ChunkHandle

\* The embedder acknowledges only what is settled or queued again.
LEMMA AckEmbed ==
    ASSUME AllInv, EmbedHandle, pc'["embed"] = "ack"
    PROVE  AckReason("embed")
<1> USE DEF Stages
<1>1. pc \in [Stages -> Labels]
  BY DEF AllInv, TypeInv, TypeOK, ConsumerTypeOK
<1>2. ASSUME NEW o, EmbedCheck(o) \/ EmbedFetch(o) PROVE AckReason("embed")
  <2>1. /\ pc["embed"] # "idle" /\ UNCHANGED <<held, stamped, status>>
        /\ \/ held["embed"].id \in processed
           \/ status[Doc("embed")] \in Terminal
    BY <1>1, <1>2
       DEF EmbedCheck, EmbedFetch, CheckProcessed, FetchDocument, Read, Goto,
           storeVars
  <2>2. QED
    BY <2>1, SkipReason
<1>3. ASSUME NEW o, EmbedRecord(o) PROVE AckReason("embed")
  <2>1. pc["embed"] = "record"
    BY <1>3 DEF EmbedRecord, Write
  <2>2. QED
    BY <1>3, <2>1
       DEF EmbedRecord, Write, jobVars, Doc, AckReason, AllInv, SafetyInv,
           WorkerInv, EmbedIsDone
<1>4. ASSUME EmbedRetry PROVE AckReason("embed")
  BY <1>4, RetryReason DEF EmbedRetry
<1>5. ASSUME NEW o, \/ EmbedStart(o) \/ EmbedStartEvent(o) \/ EmbedReadChunks(o)
                    \/ EmbedBatchFails \/ EmbedWrite(o) \/ EmbedComplete(o)
                    \/ EmbedCompleteEvent(o) \/ EmbedTransientEvent(o)
                    \/ EmbedNack \/ EmbedAck
      PROVE  FALSE
  BY <1>1, <1>5
     DEF EmbedStart, EmbedStartEvent, EmbedReadChunks, EmbedBatchFails,
         EmbedWrite, EmbedComplete, EmbedCompleteEvent, EmbedTransientEvent,
         EmbedNack, Nack, EmbedAck, Ack, Finish, Read, Write, Goto
<1>6. QED
  BY <1>2, <1>3, <1>4, <1>5 DEF EmbedHandle

\* AckIsSafe is preserved by every step.
LEMMA AckNext ==
    ASSUME AllInv, [Next]_vars
    PROVE  AckIsSafe'
<1> SUFFICES ASSUME NEW s \in Stages, pc'[s] = "ack", linked'[s]
             PROVE  \/ \E m \in Messages : m.id = held'[s].id /\ InQueue(m)'
                    \/ s \in stamped'[Doc(s)']
                    \/ status'[Doc(s)'] = "failed"
  BY DEF AckIsSafe
<1>1. CASE HandleStep(s)
  <2>1. AckReason(s)
    BY <1>1, AckOcr, AckChunk, AckEmbed DEF HandleStep
  <2>2. QED
    BY <2>1 DEF AckReason
<1>2. CASE pc'[s] = pc[s] /\ held'[s] = held[s] /\ linked[s]
  <2>1. /\ Doc(s) \in Docs /\ Doc(s)' = Doc(s)
        /\ held[s].id.stage = s
    BY <1>2, BusyFacts DEF Doc
  <2>2. \/ \E m \in Messages : m.id = held[s].id /\ InQueue(m)
        \/ s \in stamped[Doc(s)]
        \/ status[Doc(s)] = "failed"
    BY <1>2 DEF AllInv, SafetyInv, WorkerInv, AckIsSafe
  <2>3. ASSUME NEW m \in Messages, m.id = held[s].id, InQueue(m)
        PROVE  InQueue(m)'
    BY <1>2, <2>1, <2>3, FlowNext DEF Flow, CopiesStay
  <2>4. QED
    BY <1>2, <2>1, <2>2, <2>3, StoreNext DEF StoreGrows
<1>3. QED
  BY <1>1, <1>2, OtherStep DEF Undisturbed

-----------------------------------------------------------------------------

\* The other parts of the invariant, from what a step may do.

\* Copies come only from published messages.
LEMMA LiveIsSentNext ==
    ASSUME AllInv, Flow
    PROVE  LiveIsSent'
<1> SUFFICES ASSUME NEW m \in Messages, Live(m)'
             PROVE  m.id \in sent'
  BY DEF LiveIsSent
<1>1. \/ Live(m) \/ m.id \in sent'
      \/ \E h \in Messages : Live(h) /\ m.id = h.id
  BY DEF Flow, CopiesArePaid
<1>2. QED
  BY <1>1
     DEF Flow, SentGrows, AllInv, SafetyInv, MessageInv, LiveIsSent

\* Messages are published only for accepted uploads.
LEMMA SentIsUploadedNext ==
    ASSUME AllInv, Flow, StoreGrows, TypeInv'
    PROVE  SentIsUploaded'
<1> SUFFICES ASSUME NEW id \in sent'
             PROVE  upload'[id.doc] = "published"
  BY DEF SentIsUploaded
<1>1. CASE id \in sent
  <2>1. id.doc \in Docs
    BY <1>1 DEF AllInv, TypeInv, TypeOK, BrokerTypeOK, MessageIds
  <2>2. QED
    BY <1>1, <2>1
       DEF StoreGrows, AllInv, SafetyInv, MessageInv, SentIsUploaded
<1>2. CASE \E d \in Docs : id = OcrId(d) /\ upload'[d] = "published"
  BY <1>2 DEF OcrId
<1>3. CASE pc["ocr"] = "handoff" /\ id = ChunkId(Doc("ocr"))
  BY <1>3, BusyFacts DEF ChunkId, StoreGrows, Stages
<1>4. CASE pc["chunk"] = "handoff" /\ id.doc = Doc("chunk")
  BY <1>4, BusyFacts DEF StoreGrows, Stages
<1>5. QED
  BY <1>1, <1>2, <1>3, <1>4 DEF Flow, SentGrows

\* A higher attempt always comes with one more failed execution.
LEMMA AttemptsPaidNext ==
    ASSUME AllInv, Flow, TypeInv'
    PROVE  AttemptsPaid'
<1> SUFFICES ASSUME NEW m \in Messages, Live(m)'
             PROVE  failures'[m.id] >= m.attempt - 1
  BY DEF AttemptsPaid
<1>1. /\ m.id \in MessageIds /\ m.attempt \in Nat
      /\ failures[m.id] \in Nat /\ failures'[m.id] \in Nat
      /\ failures'[m.id] >= failures[m.id]
  BY MessageFields, IngestAssumption
     DEF Flow, CopiesArePaid, AllInv, TypeInv, TypeOK, ConsumerTypeOK
<1>2. CASE Live(m)
  BY <1>1, <1>2 DEF AllInv, SafetyInv, MessageInv, AttemptsPaid
<1>3. CASE m.attempt = 1
  BY <1>1, <1>3
<1>4. CASE \E h \in Messages : /\ Live(h)
                               /\ m.id = h.id
                               /\ m.attempt = h.attempt + 1
                               /\ failures'[h.id] = failures[h.id] + 1
  <2>1. PICK h \in Messages : /\ Live(h)
                              /\ m.id = h.id
                              /\ m.attempt = h.attempt + 1
                              /\ failures'[h.id] = failures[h.id] + 1
    BY <1>4
  <2>2. failures[h.id] >= h.attempt - 1 /\ h.attempt \in Nat
    BY <2>1, MessageFields, IngestAssumption
       DEF AllInv, SafetyInv, MessageInv, AttemptsPaid
  <2>3. QED
    BY <1>1, <2>1, <2>2
<1>5. QED
  BY <1>2, <1>3, <1>4 DEF Flow, CopiesArePaid

\* Only a message in its last attempt, just failed, is dead-lettered.
LEMMA DeadLetteredNext ==
    ASSUME AllInv, Flow, TypeInv'
    PROVE  DeadLetteredAfterRetries'
<1> SUFFICES ASSUME NEW m \in Messages, dlq'[m] > 0
             PROVE  failures'[m.id] >= MaxRetries
  BY DEF DeadLetteredAfterRetries
<1>1. /\ m.id \in MessageIds /\ m.attempt \in Nat /\ MaxRetries \in Nat
      /\ failures[m.id] \in Nat /\ failures'[m.id] \in Nat
      /\ failures'[m.id] >= failures[m.id]
  BY MessageFields, IngestAssumption
     DEF Flow, CopiesArePaid, AllInv, TypeInv, TypeOK, ConsumerTypeOK
<1>2. CASE dlq[m] > 0
  BY <1>1, <1>2 DEF AllInv, SafetyInv, DeadLetteredAfterRetries
<1>3. CASE /\ Live(m)
           /\ m.attempt >= MaxRetries
           /\ failures'[m.id] = failures[m.id] + 1
  <2>1. failures[m.id] >= m.attempt - 1
    BY <1>3 DEF AllInv, SafetyInv, MessageInv, AttemptsPaid
  <2>2. QED
    BY <1>1, <1>3, <2>1
<1>4. QED
  BY <1>2, <1>3 DEF Flow, CopiesArePaid

\* A processed_messages row is written only by a worker that is done.
LEMMA ProcessedIsDoneNext ==
    ASSUME AllInv, StoreGrows
    PROVE  ProcessedIsDone'
<1> SUFFICES ASSUME NEW id \in processed'
             PROVE  /\ id.stage \in stamped'[id.doc]
                    /\ id.stage \in {"chunk", "embed"} =>
                           "ocr" \in stamped'[id.doc] /\ chunks'[id.doc].gen > 0
  BY DEF ProcessedIsDone
<1>1. /\ id.doc \in Docs
      /\ id.stage \in stamped[id.doc]
      /\ id.stage \in {"chunk", "embed"} =>
             "ocr" \in stamped[id.doc] /\ chunks[id.doc].gen > 0
  <2>1. CASE id \in processed
    BY <2>1 DEF AllInv, SafetyInv, ProcessedIsDone, TypeInv, TypeOK,
                StoreTypeOK, MessageIds
  <2>2. CASE id \notin processed
    <3>1. PICK s \in Stages : pc[s] = "record" /\ held[s].id = id
      BY <2>2 DEF StoreGrows
    <3>2. /\ id.doc = Doc(s) /\ id.stage = s /\ Doc(s) \in Docs
          /\ s # "ocr" => "ocr" \in stamped[Doc(s)]
          /\ s = "embed" => chunks[Doc(s)].gen > 0
      BY <3>1, BusyFacts DEF Doc
    <3>3. s \in stamped[Doc(s)] /\ (s = "chunk" => chunks[Doc(s)].gen > 0)
      BY <3>1
         DEF AllInv, SafetyInv, WorkerInv, OcrIsDone, ChunkIsDone, ChunkHasRows,
             EmbedIsDone, Stages
    <3>4. QED
      BY <3>2, <3>3 DEF Stages
  <2>3. QED
    BY <2>1, <2>2
<1>2. QED
  BY <1>1 DEF StoreGrows

\* The first chunk message follows the ocr message's recording.
LEMMA ChunkIsHandedOverNext ==
    ASSUME AllInv, Flow, StoreGrows
    PROVE  ChunkIsHandedOver'
<1> SUFFICES ASSUME NEW d \in Docs, ChunkId(d) \in sent'
             PROVE  OcrId(d) \in processed' /\ status'[d] \notin Early
  BY DEF ChunkIsHandedOver
<1>1. CASE ChunkId(d) \in sent
  BY <1>1 DEF StoreGrows, AllInv, SafetyInv, MessageInv, ChunkIsHandedOver
<1>2. CASE ChunkId(d) \notin sent
  <2>1. pc["ocr"] = "handoff" /\ Doc("ocr") = d
    BY <1>2 DEF Flow, SentGrows, ChunkId, OcrId
  <2>2. OcrId(d) \in processed
    BY <2>1, BusyFacts DEF Stages, AllInv, SafetyInv, WorkerInv, OcrIsRecorded
  <2>3. QED
    BY <2>1, <2>2 DEF StoreGrows
<1>3. QED
  BY <1>1, <1>2

\* The first embed message finds the chunks it is about.
LEMMA EmbedIsReadyNext ==
    ASSUME AllInv, Flow, StoreGrows
    PROVE  EmbedIsReady'
<1> SUFFICES ASSUME NEW id \in sent', id.stage = "embed"
             PROVE  /\ ChunkId(id.doc) \in sent'
                    /\ {"ocr", "chunk"} \subseteq stamped'[id.doc]
                    /\ chunks'[id.doc].gen > 0
  BY DEF EmbedIsReady
<1>1. /\ id.doc \in Docs
      /\ ChunkId(id.doc) \in sent
      /\ {"ocr", "chunk"} \subseteq stamped[id.doc]
      /\ chunks[id.doc].gen > 0
  <2>1. CASE id \in sent
    BY <2>1 DEF AllInv, SafetyInv, MessageInv, EmbedIsReady, TypeInv, TypeOK,
                BrokerTypeOK, MessageIds
  <2>2. CASE id \notin sent
    <3>1. pc["chunk"] = "handoff" /\ id.doc = Doc("chunk")
      BY <2>2 DEF Flow, SentGrows, ChunkId, OcrId
    <3>2. QED
      BY <3>1, BusyFacts
         DEF Stages, AllInv, SafetyInv, WorkerInv, ChunkHasRows, ChunkIsDone
  <2>3. QED
    BY <2>1, <2>2
<1>2. QED
  BY <1>1 DEF Flow, SentGrows, StoreGrows

\* The last copy of a message goes only when AckIsSafe lets it.
LEMMA NoMessageLostNext ==
    ASSUME AllInv, Flow, StoreGrows, TypeInv'
    PROVE  NoMessageLost'
<1> SUFFICES ASSUME NEW id \in sent'
             PROVE  \/ Unsettled(id)'
                    \/ id.stage \in stamped'[id.doc]
                    \/ status'[id.doc] = "failed"
  BY DEF NoMessageLost, Done
<1>1. id \in MessageIds /\ id.doc \in Docs
  BY DEF TypeInv, TypeOK, BrokerTypeOK, MessageIds
<1>2. CASE Unsettled(id) \/ id \in sent' \ sent
  <2>1. CASE Unsettled(id)'
    BY <2>1
  <2>2. CASE \E s \in Stages : /\ pc[s] = "ack" /\ linked[s]
                               /\ held[s].id = id
                               /\ UNCHANGED <<mainq, retryq, dlq>>
    <3>1. PICK s \in Stages : /\ pc[s] = "ack" /\ linked[s]
                              /\ held[s].id = id
                              /\ UNCHANGED <<mainq, retryq, dlq>>
      BY <2>2
    <3>2. id.stage = s /\ Doc(s) = id.doc
      BY <3>1, BusyFacts DEF Doc
    <3>3. \/ \E m \in Messages : m.id = id /\ InQueue(m)
          \/ id.stage \in stamped[id.doc]
          \/ status[id.doc] = "failed"
      BY <3>1, <3>2 DEF AllInv, SafetyInv, WorkerInv, AckIsSafe
    <3>4. ASSUME NEW m \in Messages, m.id = id, InQueue(m)
          PROVE  Unsettled(id)'
      BY <3>1, <3>4 DEF Unsettled, InQueue
    <3>5. QED
      BY <1>1, <3>3, <3>4 DEF StoreGrows
  <2>3. QED
    BY <1>1, <1>2, <2>1, <2>2 DEF Flow, CopiesStay
<1>3. CASE ~Unsettled(id) /\ id \in sent
  BY <1>1, <1>3 DEF StoreGrows, AllInv, SafetyInv, NoMessageLost, Done
<1>4. QED
  BY <1>2, <1>3

-----------------------------------------------------------------------------

\* The initial states satisfy the inductive invariant.
LEMMA SafetyInit ==
    ASSUME Init
    PROVE  AllInv
<1>1. TypeInv
  BY InitType
<1>2. \A m \in Messages : ~Live(m)
  BY DEF Init, BrokerInit, ConsumerInit, Live
<1>3. MessageInv
  BY <1>2 DEF Init, BrokerInit, StoreInit, ApiInit, MessageInv, LiveIsSent,
              SentIsUploaded, AttemptsPaid, ChunkIsHandedOver, EmbedIsReady,
              RowFollowsUpload, EmbeddedIsStamped
<1>4. WorkerInv
  BY DEF Init, ConsumerInit, WorkerInv, OwnStage, OcrIsFresh, OcrIsAlive,
         OcrIsDone, OcrIsRecorded, OcrHasFailed, ChunkHasRows, ChunkIsDone,
         EmbedIsDone, AckIsSafe, Stages
<1>5. ProcessedIsDone /\ DeadLetteredAfterRetries /\ NoMessageLost
  BY DEF Init, BrokerInit, StoreInit, ProcessedIsDone,
         DeadLetteredAfterRetries, NoMessageLost
<1>6. QED
  BY <1>1, <1>3, <1>4, <1>5 DEF AllInv, SafetyInv

\* The invariant is inductive: every step preserves it.
LEMMA SafetyNext ==
    ASSUME AllInv, [Next]_vars
    PROVE  AllInv'
<1>1. TypeInv'
  BY NextType DEF AllInv
<1>2. StoreGrows /\ Flow
  BY StoreNext, FlowNext
<1>3. MessageInv'
  <2>1. RowFollowsUpload' /\ EmbeddedIsStamped'
    BY <1>2 DEF StoreGrows, RowFollowsUpload, EmbeddedIsStamped
  <2>2. QED
    BY <1>1, <1>2, <2>1, LiveIsSentNext, SentIsUploadedNext, AttemptsPaidNext,
       ChunkIsHandedOverNext, EmbedIsReadyNext
       DEF MessageInv
<1>4. WorkerInv'
  BY <1>2, OcrNext, ChunkNext, EmbedNext, AckNext
     DEF WorkerInv, Flow, OcrInv, ChunkInv
<1>5. QED
  BY <1>1, <1>2, <1>3, <1>4, ProcessedIsDoneNext, DeadLetteredNext,
     NoMessageLostNext
     DEF AllInv, SafetyInv

\* The inductive invariant holds in every reachable state.
THEOREM SafetyInvariant == Spec => []AllInv
BY SafetyInit, SafetyNext, PTL DEF Spec

\* All parts of SafetyInv, about messages and about each call of each worker,
\* hold in every reachable state.
THEOREM SafetyHolds == Spec => []SafetyInv
<1>1. AllInv => SafetyInv
  BY DEF AllInv
<1>2. QED
  BY <1>1, SafetyInvariant, PTL

\* At-least-once delivery up to the stage's own completion: no crash, lost
\* channel, failed or half-reported statement makes the broker forget a message
\* whose stage has not completed, unless the document has failed.
THEOREM MessagesSurvive == Spec => []NoMessageLost
<1>1. AllInv => NoMessageLost
  BY DEF AllInv, SafetyInv
<1>2. QED
  BY <1>1, SafetyInvariant, PTL

\* processed_messages never gets ahead of the work it stands for.
THEOREM ProcessedIsProof == Spec => []ProcessedIsDone
<1>1. AllInv => ProcessedIsDone
  BY DEF AllInv, SafetyInv
<1>2. QED
  BY <1>1, SafetyInvariant, PTL

\* No message is given up early: the dead-letter queue costs MAX_RETRIES failed
\* executions, however often crashes multiply the copies.
THEOREM DeadLettersAreEarned == Spec => []DeadLetteredAfterRetries
<1>1. AllInv => DeadLetteredAfterRetries
  BY DEF AllInv, SafetyInv
<1>2. QED
  BY <1>1, SafetyInvariant, PTL

\* Once the chunk message is out, OCR is recorded and never runs again.
THEOREM OcrHandsOver == Spec => []HandedOverToChunker
<1>1. AllInv => HandedOverToChunker
  BY DEF AllInv, SafetyInv, MessageInv, ChunkIsHandedOver, HandedOverToChunker,
         Early
<1>2. QED
  BY <1>1, SafetyInvariant, PTL

\* Nothing under way revives a failed document.
THEOREM FailedStaysFailed == Spec => FailedIsFinal
<1>1. AllInv /\ [Next]_vars =>
          [\A d \in Docs : status[d] = "failed" => status'[d] = "failed"]_vars
  BY StoreNext DEF StoreGrows
<1>2. QED
  BY <1>1, SafetyInvariant, PTL DEF Spec, FailedIsFinal

=============================================================================
