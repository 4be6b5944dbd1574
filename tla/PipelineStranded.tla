-------------------------- MODULE PipelineStranded --------------------------
(***************************************************************************)
(* Who carries a document, proved for every instance: until a process      *)
(* dies, a channel closes or a commit looks like a failure, what is        *)
(* recorded in processed_messages is never delivered again, so that        *)
(* already_processed never suppresses a hand-off, and every published      *)
(* upload is worked on, queued or finished.  CarryInv of PipelineOrder is  *)
(* inductive together with HandoverInv.                                    *)
(***************************************************************************)
EXTENDS PipelineHandover

\* The data-access functions of the workers are expanded in every proof.
USE DEF OcrUpdateStatus, OcrRecordEvent, OcrRecordProcessed,
        ChunkUpdateStatus, ChunkRecordEvent, ChunkRecordProcessed,
        EmbedUpdateDocument, EmbedRecordEvent, EmbedRecordProcessed

\* A gentle step is a steady one, and so were all before it.
LEMMA GentleBefore ==
    ASSUME HandoverInv, [Next]_vars, Gentle'
    PROVE  /\ Gentle /\ Steady' /\ NoRework' /\ NoRework
           /\ Connected /\ SteadyParts /\ Owner
           /\ CopiesMove
<1>1. Gentle /\ Steady /\ Steady' /\ NoRework' /\ NoRework
  BY WithoutBefore DEF Gentle, Steady, NoRework, Without
<1>2. Connected /\ SteadyParts /\ Owner
  BY <1>1
     DEF HandoverInv, OrderInv, SteadyInv, SteadyParts, OwnerInv, Owner
<1>3. QED
  BY <1>1, <1>2, CopiesNext DEF HandoverInv

-----------------------------------------------------------------------------
(* What is recorded is spent.                                              *)

\* A message stays recorded as spent while copies move.
LEMMA SpentStays ==
    ASSUME AllInv, AllInv', RecordedIsSent, RecordedIsSpent, CopiesMove,
           NEW id \in processed
    PROVE  /\ \A m \in Messages : InQueue(m)' => m.id # id
           /\ \A s \in Stages : pc'[s] # "idle" /\ held'[s].id = id =>
                  pc'[s] \in {"handoff", "ack"}
<1>1. /\ id \in sent
      /\ \A m \in Messages : InQueue(m) => m.id # id
      /\ \A s \in Stages : pc[s] # "idle" /\ held[s].id = id =>
             pc[s] \in {"handoff", "ack"}
  BY DEF RecordedIsSent, RecordedIsSpent
<1>2. CASE Rests
  BY <1>1, <1>2, QueuedNext DEF Rests, Onward
<1>3. CASE Publishes
  <2>1. PICK c \in Messages : c.id # id /\ Gains(c, 1)
    BY <1>1, <1>3 DEF Publishes
  <2>2. QED
    BY <1>1, <1>3, <2>1, QueuedNext DEF Publishes, Gains, Onward
<1>4. ASSUME NEW s \in Stages, Returns(s)
      PROVE  /\ \A m \in Messages : InQueue(m)' => m.id # id
             /\ \A t \in Stages : pc'[t] # "idle" /\ held'[t].id = id =>
                    pc'[t] \in {"handoff", "ack"}
  <2>1. PICK c \in Messages : c.id = held[s].id /\ Gains(c, 1)
    BY <1>4 DEF Returns
  <2>2. c.id # id
    BY <1>1, <1>4, <2>1 DEF Returns
  <2>3. QED
    BY <1>1, <1>4, <2>1, <2>2, QueuedNext DEF Returns, Gains, Onward
<1>5. ASSUME NEW s \in Stages, Receives(s)
      PROVE  /\ \A m \in Messages : InQueue(m)' => m.id # id
             /\ \A t \in Stages : pc'[t] # "idle" /\ held'[t].id = id =>
                    pc'[t] \in {"handoff", "ack"}
  <2>1. PICK c \in Messages : /\ held'[s] = c
                              /\ Copies(c) = Copies(c)' + 1
                              /\ \A m \in Messages \ {c} : Copies(m)' = Copies(m)
    BY <1>5 DEF Receives
  <2>2. InQueue(c)
    <3>1. mainq' \in [Messages -> Nat] /\ retryq' \in [Messages -> Nat]
          /\ dlq' \in [Messages -> Nat]
      BY DEF AllInv, TypeInv, TypeOK, BrokerTypeOK, Queue
    <3>2. Copies(c)' \in Nat
      BY <3>1 DEF Copies
    <3>3. QED
      BY <2>1, <3>2, InQueueCopies
  <2>3. c.id # id
    BY <1>1, <2>2
  <2>4. QED
    BY <1>1, <1>5, <2>1, <2>3, QueuedNext DEF Receives, Onward
<1>6. QED
  BY <1>2, <1>3, <1>4, <1>5 DEF CopiesMove

\* A worker that records its message goes on to its hand-off or its end.
LEMMA RecordGoesOn ==
    ASSUME AllInv, NEW s \in Stages, HandleStep(s), pc[s] = "record",
           processed' # processed, "lost" \notin trouble'.met
    PROVE  /\ pc'[s] \in {"handoff", "ack"}
           /\ UNCHANGED <<mainq, retryq, dlq, held>>
<1> USE DEF Stages
<1>1. pc \in [Stages -> Labels]
  BY OrderTypes
<1>2. PICK o \in Outcomes : \/ s = "ocr" /\ OcrRecord(o)
                            \/ s = "chunk" /\ ChunkRecord(o)
                            \/ s = "embed" /\ EmbedRecord(o)
  BY DEF HandleStep, OcrHandle, OcrCheck, OcrFetch, OcrStart, OcrStartEvent,
         OcrExtract, OcrComplete, OcrCompleteEvent, OcrHandoff, OcrFail,
         OcrFailEvent, OcrTransientEvent, OcrRetry, OcrNack, OcrAck,
         ChunkHandle, ChunkCheck, ChunkFetch, ChunkStart, ChunkStartEvent,
         ChunkInsert, ChunkComplete, ChunkCompleteEvent, ChunkHandoff,
         ChunkRetry, ChunkAck, EmbedHandle, EmbedCheck, EmbedFetch, EmbedStart,
         EmbedStartEvent, EmbedReadChunks, EmbedBatchFails, EmbedWrite,
         EmbedComplete, EmbedCompleteEvent, EmbedTransientEvent, EmbedRetry,
         EmbedNack, EmbedAck, CheckProcessed, FetchDocument, Read, Write,
         Handoff, RetryOrDeadLetter, Nack, Ack
<1>3. o = "ok"
  <2>1. o # "lost"
    BY <1>2, AttemptedRemembers DEF OcrRecord, ChunkRecord, EmbedRecord, Write
  <2>2. o # "error"
    BY <1>2
       DEF OcrRecord, ChunkRecord, EmbedRecord, RecordProcessed, Applied
  <2>3. QED
    BY <2>1, <2>2 DEF Outcomes
<1>4. QED
  BY <1>1, <1>2, <1>3
     DEF OcrRecord, ChunkRecord, EmbedRecord, Write, Goto, brokerVars, jobVars

\* What is recorded as processed is never delivered again.
LEMMA RecordedIsSpentNext ==
    ASSUME HandoverInv, HandoverInv', RecordedIsSpent, [Next]_vars, Gentle'
    PROVE  RecordedIsSpent'
<1>1. /\ AllInv /\ AllInv' /\ RecordedIsSent
      /\ CopiesMove /\ SteadyParts
  BY GentleBefore DEF HandoverInv, FullInv, OrderInv, StageInv
<1>2. ASSUME NEW id \in processed', id \notin processed
      PROVE  /\ \A m \in Messages : InQueue(m)' => m.id # id
             /\ \A s \in Stages : pc'[s] # "idle" /\ held'[s].id = id =>
                    pc'[s] \in {"handoff", "ack"}
  <2>1. PICK s \in Stages : pc[s] = "record" /\ pc'[s] # "record"
                            /\ held[s].id = id
    BY <1>1, <1>2, StoreNext DEF StoreGrows
  <2>2. "crash" \notin trouble'.met /\ "lost" \notin trouble'.met
    BY DEF Gentle, Without
  <2>3. HandleStep(s)
    BY <1>1, <2>1, <2>2, OthersStay DEF Still, Takes, Dies
  <2>4. /\ pc'[s] \in {"handoff", "ack"}
        /\ UNCHANGED <<mainq, retryq, dlq, held>>
    BY <1>1, <1>2, <2>1, <2>2, <2>3, RecordGoesOn
  <2>5. \A m \in Messages : InQueue(m)' => m.id # id
    BY <1>1, <2>1, <2>4 DEF SteadyParts, TakenIsGone, InQueue
  <2>6. ASSUME NEW t \in Stages, pc'[t] # "idle", held'[t].id = id, t # s
        PROVE  FALSE
    <3>1. pc[t] # "idle"
      BY <1>1, <2>3, <2>6, OthersStill DEF Still
    <3>2. QED
      BY <1>1, <2>1, <2>4, <2>6, <3>1, BusyFacts
  <2>7. QED
    BY <2>4, <2>5, <2>6
<1>3. QED
  BY <1>1, <1>2, SpentStays DEF RecordedIsSpent

-----------------------------------------------------------------------------
(* Somebody carries each document.                                         *)

\* A message that gains a copy is in a queue afterwards.
LEMMA GainsQueue ==
    ASSUME AllInv, AllInv', NEW c \in Messages, Gains(c, 1)
    PROVE  InQueue(c)'
<1>1. /\ mainq'[c] \in Nat /\ retryq'[c] \in Nat /\ dlq'[c] \in Nat
  BY DEF AllInv, TypeInv, TypeOK, BrokerTypeOK, Queue
<1>2. mainq'[c] + retryq'[c] + dlq'[c] > 0
  BY InQueueCopies DEF Gains, Copies
<1>3. mainq'[c] > 0 \/ retryq'[c] > 0 \/ dlq'[c] > 0
  BY <1>1, <1>2
<1>4. QED
  BY <1>3 DEF InQueue

\* A queued message stays in a queue until a worker takes it.
LEMMA QueuedStays ==
    ASSUME AllInv, AllInv', CopiesMove, NEW d \in Docs, Queued(d)
    PROVE  Queued(d)' \/ Working(d)'
<1>1. PICK m \in Messages : m.id.doc = d /\ InQueue(m)
  BY DEF Queued
<1>2. CASE InQueue(m)'
  BY <1>1, <1>2 DEF Queued
<1>3. CASE ~InQueue(m)'
  <2>1. ASSUME NEW c \in Messages, Gains(c, 1) PROVE FALSE
    BY <1>1, <1>3, <2>1, GainsQueue, QueuedNext DEF Gains
  <2>2. ~Rests
    BY <1>1, <1>3, QueuedNext DEF Rests
  <2>3. PICK s \in Stages : Receives(s)
    BY <2>1, <2>2 DEF CopiesMove, Publishes, Returns
  <2>4. PICK c \in Messages : /\ held'[s] = c
                              /\ \A k \in Messages \ {c} : Copies(k)' = Copies(k)
    BY <2>3 DEF Receives
  <2>5. c = m
    BY <1>1, <1>3, <2>4, QueuedNext
  <2>6. pc'[s] = "check" /\ Doc(s)' = d
    BY <1>1, <2>3, <2>4, <2>5 DEF Receives, Doc
  <2>7. QED
    BY <2>6 DEF Working
<1>4. QED
  BY <1>2, <1>3

\* How a worker that still has work to do leaves its document.
Leaves(s) ==
    \/ pc'[s] \notin {"idle", "ack"} /\ held'[s] = held[s]
    \/ status[Doc(s)] \in Terminal
    \/ \E c \in Messages : c.id.doc = Doc(s) /\ InQueue(c)'

\* A failed delivery is queued once more, or is a dead letter.
LEMMA ReturnsLeave ==
    ASSUME AllInv, AllInv', NEW s \in Stages, Returns(s)
    PROVE  Leaves(s)
<1>1. PICK c \in Messages : c.id = held[s].id /\ Gains(c, 1)
  BY DEF Returns
<1>2. QED
  BY <1>1, GainsQueue DEF Leaves, Doc

\* The message of the next stage is queued.
LEMMA HandoffLeaves ==
    ASSUME AllInv, AllInv', Connected, NEW s \in Stages, NEW m \in Messages,
           Handoff(s, m), m.id.doc = Doc(s)
    PROVE  Leaves(s)
<1>1. mainq' = Add(mainq, m)
  BY DEF Handoff, Connected, Publish
<1>2. mainq[m] \in Nat /\ mainq'[m] = mainq[m] + 1
  BY <1>1, OrderTypes DEF Add
<1>3. InQueue(m)'
  BY <1>2 DEF InQueue
<1>4. QED
  BY <1>3 DEF Leaves

\* A call that is not the last of its handler keeps the document.
LEMMA GoesOnLeaves ==
    ASSUME AllInv, NEW s \in Stages, NEW label, label \notin {"idle", "ack"},
           Goto(s, label), held' = held
    PROVE  Leaves(s)
BY OrderTypes DEF Goto, Leaves

\* The OCR worker skips a message it recorded, or a finished document, and
\* otherwise acknowledges only what it handed on, gave back or failed.
LEMMA OcrLeaves ==
    ASSUME FullInv, AllInv', Connected, RecordedIsSpent, OcrHandle,
           pc["ocr"] # "ack"
    PROVE  Leaves("ocr")
<1> USE DEF Stages, FullInv
<1>1. ASSUME NEW o, OcrCheck(o)
      PROVE  Leaves("ocr")
  <2>1. pc["ocr"] = "check" /\ held' = held
    BY <1>1 DEF OcrCheck, CheckProcessed, Read
  <2>2. held["ocr"].id \notin processed
    BY <2>1 DEF RecordedIsSpent
  <2>3. QED
    BY <1>1, <2>1, <2>2, GoesOnLeaves DEF OcrCheck, CheckProcessed, Read
<1>2. ASSUME NEW o, OcrFetch(o)
      PROVE  Leaves("ocr")
  <2>1. CASE status[Doc("ocr")] \in Terminal
    BY <2>1 DEF Leaves
  <2>2. CASE status[Doc("ocr")] \notin Terminal
    BY <1>2, <2>2, GoesOnLeaves DEF OcrFetch, FetchDocument, Read
  <2>3. QED
    BY <2>1, <2>2
<1>3. ASSUME NEW o, \/ OcrStart(o) \/ OcrStartEvent(o) \/ OcrComplete(o)
                    \/ OcrCompleteEvent(o) \/ OcrRecord(o) \/ OcrFail(o)
                    \/ OcrTransientEvent(o)
      PROVE  Leaves("ocr")
  BY <1>3, GoesOnLeaves
     DEF OcrStart, OcrStartEvent, OcrComplete, OcrCompleteEvent, OcrRecord,
         OcrFail, OcrTransientEvent, Write, jobVars
<1>4. ASSUME OcrExtract
      PROVE  Leaves("ocr")
  BY <1>4, GoesOnLeaves DEF OcrExtract, jobVars
<1>5. ASSUME NEW o, OcrFailEvent(o)
      PROVE  Leaves("ocr")
  BY <1>5
     DEF OcrFailEvent, Write, AllInv, SafetyInv, WorkerInv, OcrHasFailed,
         Terminal, Leaves
<1>6. ASSUME OcrHandoff
      PROVE  Leaves("ocr")
  <2> DEFINE m == FirstAttempt(ChunkId(Doc("ocr")))
  <2>1. Doc("ocr") \in Docs /\ 1 \in 1..MaxSerial
    BY <1>6, BusyFacts, IngestAssumption DEF OcrHandoff, Handoff
  <2>2. m \in Messages /\ m.id.doc = Doc("ocr")
    BY <2>1, FirstMessages DEF FirstAttempt, ChunkId
  <2>3. Handoff("ocr", m)
    BY <1>6 DEF OcrHandoff
  <2> HIDE DEF m
  <2>4. QED
    BY <2>2, <2>3, HandoffLeaves
<1>7. ASSUME OcrRetry \/ OcrNack
      PROVE  Leaves("ocr")
  BY <1>7, CopiesRetry, CopiesNack, ReturnsLeave DEF OcrRetry, OcrNack
<1>8. QED
  BY <1>1, <1>2, <1>3, <1>4, <1>5, <1>6, <1>7
     DEF OcrHandle, OcrAck, Ack

\* So does the chunker; a document without raw_text never reaches it.
LEMMA ChunkLeaves ==
    ASSUME FullInv, AllInv', Connected, RecordedIsSpent, ChunkHandle,
           pc["chunk"] # "ack"
    PROVE  Leaves("chunk")
<1> USE DEF Stages, FullInv
<1>1. ASSUME NEW o, ChunkCheck(o)
      PROVE  Leaves("chunk")
  <2>1. pc["chunk"] = "check" /\ held' = held
    BY <1>1 DEF ChunkCheck, CheckProcessed, Read
  <2>2. held["chunk"].id \notin processed
    BY <2>1 DEF RecordedIsSpent
  <2>3. QED
    BY <1>1, <2>1, <2>2, GoesOnLeaves DEF ChunkCheck, CheckProcessed, Read
<1>2. ASSUME NEW o, ChunkFetch(o)
      PROVE  Leaves("chunk")
  <2>1. CASE status[Doc("chunk")] \in Terminal
    BY <2>1 DEF Leaves
  <2>2. CASE status[Doc("chunk")] \notin Terminal
    <3>1. "ocr" \in stamped[Doc("chunk")]
      BY <1>2, BusyFacts DEF ChunkFetch, FetchDocument, Read
    <3>2. QED
      BY <1>2, <2>2, <3>1, GoesOnLeaves DEF ChunkFetch, FetchDocument, Read
  <2>3. QED
    BY <2>1, <2>2
<1>3. ASSUME NEW o, \/ ChunkStart(o) \/ ChunkStartEvent(o) \/ ChunkInsert(o)
                    \/ ChunkComplete(o) \/ ChunkCompleteEvent(o)
                    \/ ChunkRecord(o)
      PROVE  Leaves("chunk")
  BY <1>3, GoesOnLeaves
     DEF ChunkStart, ChunkStartEvent, ChunkInsert, ChunkComplete,
         ChunkCompleteEvent, ChunkRecord, Write, jobVars
<1>4. ASSUME ChunkHandoff
      PROVE  Leaves("chunk")
  <2> DEFINE d == Doc("chunk")
             n == minted[d] + 1
             m == FirstAttempt(EmbedId(d, n))
  <2>1. d \in Docs /\ minted[d] < MaxSerial
    BY <1>4, BusyFacts DEF ChunkHandoff
  <2>2. n \in 1..MaxSerial
    BY <2>1, DeliveryTypes, IngestAssumption
  <2>3. m \in Messages /\ m.id.doc = Doc("chunk")
    BY <2>1, <2>2, FirstMessages DEF FirstAttempt, EmbedId
  <2>4. Handoff("chunk", m)
    BY <1>4 DEF ChunkHandoff
  <2> HIDE DEF m
  <2>5. QED
    BY <2>3, <2>4, HandoffLeaves
<1>5. ASSUME ChunkRetry
      PROVE  Leaves("chunk")
  BY <1>5, CopiesRetry, ReturnsLeave DEF ChunkRetry
<1>6. QED
  BY <1>1, <1>2, <1>3, <1>4, <1>5 DEF ChunkHandle, ChunkAck, Ack

\* The embedder leaves an embedded document.
LEMMA EmbedLeaves ==
    ASSUME AllInv, AllInv', Connected, RecordedIsSpent, EmbedPlace, EmbedHandle,
           pc["embed"] # "ack"
    PROVE  Leaves("embed")
<1> USE DEF Stages
<1>1. ASSUME NEW o, EmbedCheck(o)
      PROVE  Leaves("embed")
  <2>1. pc["embed"] = "check" /\ held' = held
    BY <1>1 DEF EmbedCheck, CheckProcessed, Read
  <2>2. held["embed"].id \notin processed
    BY <2>1 DEF RecordedIsSpent
  <2>3. QED
    BY <1>1, <2>1, <2>2, GoesOnLeaves DEF EmbedCheck, CheckProcessed, Read
<1>2. ASSUME NEW o, EmbedFetch(o)
      PROVE  Leaves("embed")
  <2>1. CASE status[Doc("embed")] \in Terminal
    BY <2>1 DEF Leaves
  <2>2. CASE status[Doc("embed")] \notin Terminal
    BY <1>2, <2>2, GoesOnLeaves DEF EmbedFetch, FetchDocument, Read
  <2>3. QED
    BY <2>1, <2>2
<1>3. ASSUME NEW o, \/ EmbedStart(o) \/ EmbedStartEvent(o) \/ EmbedWrite(o)
                    \/ EmbedComplete(o) \/ EmbedCompleteEvent(o)
                    \/ EmbedTransientEvent(o)
      PROVE  Leaves("embed")
  BY <1>3, GoesOnLeaves
     DEF EmbedStart, EmbedStartEvent, EmbedWrite, EmbedComplete,
         EmbedCompleteEvent, EmbedTransientEvent, Write, jobVars
<1>4. ASSUME NEW o, EmbedReadChunks(o)
      PROVE  Leaves("embed")
  <2>1. CASE PendingChunks(Doc("embed")) = 0
    BY <1>4, <2>1, GoesOnLeaves DEF EmbedReadChunks, Read
  <2>2. CASE PendingChunks(Doc("embed")) # 0
    BY <1>4, <2>2, GoesOnLeaves DEF EmbedReadChunks, Read
  <2>3. QED
    BY <2>1, <2>2
<1>5. ASSUME EmbedBatchFails
      PROVE  Leaves("embed")
  BY <1>5, GoesOnLeaves DEF EmbedBatchFails, jobVars
<1>6. ASSUME NEW o, EmbedRecord(o)
      PROVE  Leaves("embed")
  BY <1>6 DEF EmbedRecord, Write, EmbedPlace, Terminal, Leaves
<1>7. ASSUME EmbedRetry \/ EmbedNack
      PROVE  Leaves("embed")
  BY <1>7, CopiesRetry, CopiesNack, ReturnsLeave DEF EmbedRetry, EmbedNack
<1>8. QED
  BY <1>1, <1>2, <1>3, <1>4, <1>5, <1>6, <1>7 DEF EmbedHandle, EmbedAck, Ack

\* A finished document stays finished.
LEMMA TerminalStays ==
    ASSUME HandoverInv, [Next]_vars, NoRework', NEW d \in Docs,
           status[d] \in Terminal
    PROVE  status'[d] \in Terminal
BY EmbeddedStays, StoreNext DEF StoreGrows, HandoverInv, FullInv, Terminal

\* The upload is carried from the publication of its first message,
LEMMA UploadIsQueued ==
    ASSUME AllInv, [Next]_vars, NEW d \in Docs,
           upload[d] # "published", upload'[d] = "published"
    PROVE  Queued(d)'
<1>1. EnqueueFirstStage(d)
  <2>1. upload \in [Docs -> {"none", "stored", "committed", "published",
                             "rejected", "aborted"}]
    BY DeliveryTypes
  <2>2. PICK e \in Docs : ApiHandle(e)
    BY DEF Next, ApiStep, TtlStep, DeliverStep, HandleStep, DisruptStep,
           ReconnectStep, vars, apiVars
  <2>3. EnqueueFirstStage(e) /\ upload' = [upload EXCEPT ![e] = "published"]
    BY <2>1, <2>2
       DEF ApiHandle, PutUpload, CommitDocument, RejectDocument,
           EnqueueFirstStage, AbortUpload, RetryDocument, Progress
  <2>4. e = d
    BY <2>1, <2>3
  <2>5. QED
    BY <2>3, <2>4
<1> DEFINE m == FirstAttempt(OcrId(d))
<1>2. m \in Messages /\ m.id.doc = d
  <2>1. 1 \in 1..MaxSerial
    BY IngestAssumption
  <2>2. QED
    BY <2>1, FirstMessages DEF FirstAttempt, OcrId
<1>3. mainq' = Add(mainq, m)
  BY <1>1 DEF EnqueueFirstStage, Publish
<1> HIDE DEF m
<1>4. mainq[m] \in Nat /\ mainq'[m] = mainq[m] + 1
  BY <1>2, <1>3, OrderTypes DEF Add
<1>5. InQueue(m)'
  BY <1>4 DEF InQueue
<1>6. QED
  BY <1>2, <1>5 DEF Queued

\* by one worker or queue after the other.
LEMMA CarriedNext ==
    ASSUME HandoverInv, HandoverInv', RecordedIsSpent, Carried, [Next]_vars,
           Gentle'
    PROVE  Carried'
<1> SUFFICES ASSUME NEW d \in Docs, upload'[d] = "published"
             PROVE  Working(d)' \/ Queued(d)' \/ status'[d] \in Terminal
  BY DEF Carried
<1>1. /\ FullInv /\ AllInv /\ AllInv' /\ Connected /\ Owner
      /\ CopiesMove /\ NoRework'
  BY GentleBefore DEF HandoverInv, FullInv
<1>2. CASE upload[d] # "published"
  BY <1>1, <1>2, UploadIsQueued
<1>3. CASE status[d] \in Terminal
  BY <1>1, <1>3, TerminalStays
<1>4. CASE Queued(d)
  BY <1>1, <1>4, QueuedStays
<1>5. CASE Working(d)
  <2>1. PICK s \in Stages : pc[s] \notin {"idle", "ack"} /\ Doc(s) = d
    BY <1>5 DEF Working
  <2>2. CASE Still(s)
    BY <2>1, <2>2 DEF Still, Doc, Working
  <2>3. CASE HandleStep(s)
    <3>1. Leaves(s)
      BY <1>1, <2>1, <2>3, OcrLeaves, ChunkLeaves, EmbedLeaves
         DEF HandleStep, Owner
    <3>2. CASE pc'[s] \notin {"idle", "ack"} /\ held'[s] = held[s]
      BY <2>1, <3>2 DEF Working, Doc
    <3>3. CASE status[Doc(s)] \in Terminal
      BY <1>1, <2>1, <3>3, TerminalStays
    <3>4. CASE \E c \in Messages : c.id.doc = Doc(s) /\ InQueue(c)'
      BY <2>1, <3>4 DEF Queued
    <3>5. QED
      BY <3>1, <3>2, <3>3, <3>4 DEF Leaves
  <2>4. ~Takes(s) /\ ~Dies(s)
    BY <2>1 DEF Takes, Dies, Gentle, Without
  <2>5. QED
    BY <1>1, <2>2, <2>3, <2>4, OthersStay
<1>6. QED
  BY <1>2, <1>3, <1>4, <1>5 DEF Carried

-----------------------------------------------------------------------------
(* The invariant, and what follows from it.                                *)

CarriedInv == HandoverInv /\ CarryInv

\* Nothing is recorded or published at the beginning.
LEMMA CarriedInit ==
    ASSUME Init
    PROVE  CarriedInv
<1>1. CarryInv
  BY DEF Init, StoreInit, ApiInit, CarryInv, RecordedIsSpent, Carried
<1>2. QED
  BY <1>1, HandoverInit DEF CarriedInv

\* Every step preserves the invariant.
LEMMA CarriedInvNext ==
    ASSUME CarriedInv, [Next]_vars
    PROVE  CarriedInv'
<1>1. HandoverInv /\ HandoverInv'
  BY HandoverNext DEF CarriedInv
<1>2. ASSUME Gentle' PROVE RecordedIsSpent' /\ Carried'
  <2>1. RecordedIsSpent /\ Carried
    BY <1>1, <1>2, GentleBefore DEF CarriedInv, CarryInv
  <2>2. QED
    BY <1>1, <1>2, <2>1, RecordedIsSpentNext, CarriedNext
<1>3. QED
  BY <1>1, <1>2 DEF CarriedInv, CarryInv

\* A recorded message is spent and a published upload is carried, until a
\* process dies, a channel closes or a commit looks like a failure.
THEOREM UploadsAreCarried == Spec => []CarryInv
<1>1. CarriedInv => CarryInv
  BY DEF CarriedInv
<1>2. QED
  BY <1>1, CarriedInit, CarriedInvNext, PTL DEF Spec

\* Statements and handlers that fail, retries and late messages leave no
\* document behind: each published upload is finished, queued or worked on.
THEOREM NobodyIsStranded == Spec => []StrandedByLostHandoffOnly
<1>1. CarriedInv => StrandedByLostHandoffOnly
  BY DEF CarriedInv, CarryInv, Gentle, Carried, Working, Busy,
         StrandedByLostHandoffOnly, NoDocumentStranded
<1>2. QED
  BY <1>1, CarriedInit, CarriedInvNext, PTL DEF Spec

=============================================================================
