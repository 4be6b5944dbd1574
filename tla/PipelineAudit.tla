--------------------------- MODULE PipelineAudit ---------------------------
(***************************************************************************)
(* The audit trail, proved for every instance: until a process dies or a   *)
(* statement fails, processing_events explains documents.status.  AuditInv *)
(* of PipelineOrder is inductive together with HandoverInv: each stage     *)
(* reads a status no other stage is about to record, and records the one   *)
(* it wrote before anybody else writes.  Whatever fails, a gap in the      *)
(* trail of an unfinished document lasts until a message that is still     *)
(* with the broker is handled: GapInv is inductive together with AllInv.   *)
(***************************************************************************)
EXTENDS PipelineHandover

\* The data-access functions of the workers are expanded in every proof.
USE DEF OcrUpdateStatus, OcrRecordEvent, OcrRecordProcessed,
        ChunkUpdateStatus, ChunkRecordEvent, ChunkRecordProcessed,
        EmbedUpdateDocument, EmbedRecordEvent, EmbedRecordProcessed

-----------------------------------------------------------------------------
(* What the calls of a worker do to statuses and events.                   *)

\* It writes a status, and records the event next.
Marks(s, new) ==
    /\ Writes(s, pc[s], new)
    /\ pc'[s] = CASE pc[s] = "start" -> "startEvent"
                  [] pc[s] = "complete" -> "completeEvent"
                  [] pc[s] = "fail" -> "failEvent"
    /\ status' = [status EXCEPT ![Doc(s)] = new]
    /\ UNCHANGED <<events, held, seen>>

\* It records the event of the status it wrote, or of a failed attempt.
Records(s, from, to) ==
    /\ \/ pc[s] = "startEvent" /\ from = seen[s] /\ to = WorkStatus[s]
       \/ pc[s] = "completeEvent" /\ from = WorkStatus[s] /\ to = DoneStatus[s]
       \/ s = "ocr" /\ pc[s] = "failEvent" /\ from = WorkStatus[s]
             /\ to = "failed"
       \/ pc[s] = "transientEvent" /\ from = WorkStatus[s] /\ to = WorkStatus[s]
    /\ pc'[s] \in {"work", "write", "record", "ack", "retry"}
    /\ events' = [events EXCEPT ![Doc(s)] =
                     @ \cup {[from |-> from, to |-> to]}]
    /\ UNCHANGED <<status, held>>

\* It does neither, and may have fetched the status.
Passes(s) ==
    /\ UNCHANGED <<status, events>>
    /\ pc[s] \notin {"startEvent", "completeEvent", "failEvent"}
    /\ pc'[s] # "startEvent"
    /\ pc'[s] = "start" => /\ pc[s] = "fetch" /\ held'[s] = held[s]
                           /\ seen'[s] = status[Doc(s)]
    /\ pc'[s] \in AfterStart => pc[s] \in AfterStart /\ held'[s] = held[s]

Audited(s) ==
    \/ \E new \in Statuses : Marks(s, new)
    \/ \E from, to \in Statuses : Records(s, from, to)
    \/ Passes(s)

\* While nothing fails a call returns what it did.
LEMMA TidyCalls ==
    ASSUME Tidy', NEW o \in Outcomes, Attempted(o)
    PROVE  o = "ok"
BY AttemptedRemembers DEF Tidy, Without, Outcomes

\* The calls of the OCR worker.
LEMMA AuditedOcr ==
    ASSUME AllInv, OcrHandle, Tidy'
    PROVE  Audited("ocr")
<1> USE DEF Stages
<1>1. pc \in [Stages -> Labels] /\ seen \in [Stages -> Statuses]
  BY OrderTypes
<1>2. ASSUME NEW o, OcrStart(o) \/ OcrComplete(o) \/ OcrFail(o)
      PROVE  \E new \in Statuses : Marks("ocr", new)
  <2>1. o = "ok"
    BY <1>2, TidyCalls DEF OcrStart, OcrComplete, OcrFail, Write
  <2>2. QED
    BY <1>1, <1>2, <2>1
       DEF OcrStart, OcrComplete, OcrFail, Write, Goto, jobVars, UpdateStatus,
           Applied, Marks, Writes, Statuses
<1>3. ASSUME NEW o, \/ OcrStartEvent(o) \/ OcrCompleteEvent(o)
                    \/ OcrFailEvent(o) \/ OcrTransientEvent(o)
      PROVE  \E from, to \in Statuses : Records("ocr", from, to)
  <2>1. o = "ok"
    BY <1>3, TidyCalls
       DEF OcrStartEvent, OcrCompleteEvent, OcrFailEvent, OcrTransientEvent,
           Write
  <2>2. CASE OcrStartEvent(o)
    <3>1. Records("ocr", seen["ocr"], "ocr_processing")
      BY <1>1, <2>1, <2>2
         DEF OcrStartEvent, Write, Goto, jobVars, RecordEvent, Applied, Records,
             WorkStatus
    <3>2. QED
      BY <1>1, <3>1 DEF Statuses
  <2>3. CASE OcrCompleteEvent(o)
    <3>1. Records("ocr", "ocr_processing", "ocr_completed")
      BY <1>1, <2>1, <2>3
         DEF OcrCompleteEvent, Write, Goto, jobVars, RecordEvent, Applied,
             Records, WorkStatus, DoneStatus
    <3>2. QED
      BY <3>1 DEF Statuses
  <2>4. CASE OcrFailEvent(o)
    <3>1. Records("ocr", "ocr_processing", "failed")
      BY <1>1, <2>1, <2>4
         DEF OcrFailEvent, Write, Goto, jobVars, RecordEvent, Applied, Records,
             WorkStatus
    <3>2. QED
      BY <3>1 DEF Statuses
  <2>5. CASE OcrTransientEvent(o)
    <3>1. Records("ocr", "ocr_processing", "ocr_processing")
      BY <1>1, <2>1, <2>5
         DEF OcrTransientEvent, Write, Goto, jobVars, RecordEvent, Applied,
             Records, WorkStatus
    <3>2. QED
      BY <3>1 DEF Statuses
  <2>6. QED
    BY <1>3, <2>2, <2>3, <2>4, <2>5
<1>4. ASSUME NEW o, OcrCheck(o) \/ OcrFetch(o)
      PROVE  Passes("ocr")
  BY <1>1, <1>4
     DEF OcrCheck, OcrFetch, CheckProcessed, FetchDocument, Read, Goto,
         ReadOutcomes, storeVars, Passes, AfterStart
<1>5. ASSUME NEW o, OcrRecord(o)
      PROVE  Passes("ocr")
  <2>1. o = "ok"
    BY <1>5, TidyCalls DEF OcrRecord, Write
  <2>2. QED
    BY <1>1, <1>5, <2>1 DEF OcrRecord, Write, Goto, Passes, AfterStart
<1>6. ASSUME OcrExtract \/ OcrHandoff \/ OcrRetry \/ OcrNack \/ OcrAck
      PROVE  Passes("ocr")
  BY <1>1, <1>6
     DEF OcrExtract, OcrHandoff, OcrRetry, OcrNack, OcrAck, Handoff,
         RetryOrDeadLetter, Nack, Ack, Finish, Goto, storeVars, jobVars, Passes,
         AfterStart
<1>7. QED
  BY <1>2, <1>3, <1>4, <1>5, <1>6 DEF OcrHandle, Audited

\* The calls of the chunker.
LEMMA AuditedChunk ==
    ASSUME AllInv, ChunkHandle, Tidy'
    PROVE  Audited("chunk")
<1> USE DEF Stages
<1>1. pc \in [Stages -> Labels] /\ seen \in [Stages -> Statuses]
  BY OrderTypes
<1>2. ASSUME NEW o, ChunkStart(o) \/ ChunkComplete(o)
      PROVE  \E new \in Statuses : Marks("chunk", new)
  <2>1. o = "ok"
    BY <1>2, TidyCalls DEF ChunkStart, ChunkComplete, Write
  <2>2. QED
    BY <1>1, <1>2, <2>1
       DEF ChunkStart, ChunkComplete, Write, Goto, jobVars, UpdateStatus,
           Applied, Marks, Writes, Statuses
<1>3. ASSUME NEW o, ChunkStartEvent(o)
      PROVE  \E from, to \in Statuses : Records("chunk", from, to)
  <2>1. o = "ok"
    BY <1>3, TidyCalls DEF ChunkStartEvent, Write
  <2>2. Records("chunk", seen["chunk"], "chunking")
    BY <1>1, <1>3, <2>1
       DEF ChunkStartEvent, Write, Goto, jobVars, RecordEvent, Applied, Records,
           WorkStatus
  <2>3. QED
    BY <1>1, <2>2 DEF Statuses
<1>4. ASSUME NEW o, ChunkCompleteEvent(o)
      PROVE  \E from, to \in Statuses : Records("chunk", from, to)
  <2>1. o = "ok"
    BY <1>4, TidyCalls DEF ChunkCompleteEvent, Write
  <2>2. Records("chunk", "chunking", "chunked")
    BY <1>1, <1>4, <2>1
       DEF ChunkCompleteEvent, Write, Goto, jobVars, RecordEvent, Applied,
           Records, WorkStatus, DoneStatus
  <2>3. QED
    BY <2>2 DEF Statuses
<1>5. ASSUME NEW o, ChunkCheck(o) \/ ChunkFetch(o)
      PROVE  Passes("chunk")
  BY <1>1, <1>5
     DEF ChunkCheck, ChunkFetch, CheckProcessed, FetchDocument, Read, Goto,
         storeVars, Passes, AfterStart
<1>6. ASSUME NEW o, ChunkInsert(o) \/ ChunkRecord(o)
      PROVE  Passes("chunk")
  BY <1>1, <1>6
     DEF ChunkInsert, ChunkRecord, Write, Goto, jobVars, Passes, AfterStart
<1>7. ASSUME ChunkHandoff \/ ChunkRetry \/ ChunkAck
      PROVE  Passes("chunk")
  BY <1>1, <1>7
     DEF ChunkHandoff, ChunkRetry, ChunkAck, Handoff, RetryOrDeadLetter, Ack,
         Finish, Goto, storeVars, jobVars, Passes, AfterStart
<1>8. QED
  BY <1>2, <1>3, <1>4, <1>5, <1>6, <1>7 DEF ChunkHandle, Audited

\* The calls of the embedder.
LEMMA AuditedEmbed ==
    ASSUME AllInv, EmbedHandle, Tidy'
    PROVE  Audited("embed")
<1> USE DEF Stages
<1>1. pc \in [Stages -> Labels] /\ seen \in [Stages -> Statuses]
  BY OrderTypes
<1>2. ASSUME NEW o, EmbedStart(o) \/ EmbedComplete(o)
      PROVE  \E new \in Statuses : Marks("embed", new)
  <2>1. o = "ok"
    BY <1>2, TidyCalls DEF EmbedStart, EmbedComplete, Write
  <2>2. QED
    BY <1>1, <1>2, <2>1
       DEF EmbedStart, EmbedComplete, Write, Goto, jobVars, UpdateStatus,
           Applied, Marks, Writes, Statuses
<1>3. ASSUME NEW o, \/ EmbedStartEvent(o) \/ EmbedCompleteEvent(o)
                    \/ EmbedTransientEvent(o)
      PROVE  \E from, to \in Statuses : Records("embed", from, to)
  <2>1. o = "ok"
    BY <1>3, TidyCalls
       DEF EmbedStartEvent, EmbedCompleteEvent, EmbedTransientEvent, Write
  <2>2. CASE EmbedStartEvent(o)
    <3>1. Records("embed", seen["embed"], "embedding")
      BY <1>1, <2>1, <2>2
         DEF EmbedStartEvent, Write, Goto, jobVars, RecordEvent, Applied,
             Records, WorkStatus
    <3>2. QED
      BY <1>1, <3>1 DEF Statuses
  <2>3. CASE EmbedCompleteEvent(o)
    <3>1. Records("embed", "embedding", "embedded")
      BY <1>1, <2>1, <2>3
         DEF EmbedCompleteEvent, Write, Goto, jobVars, RecordEvent, Applied,
             Records, WorkStatus, DoneStatus
    <3>2. QED
      BY <3>1 DEF Statuses
  <2>4. CASE EmbedTransientEvent(o)
    <3>1. Records("embed", "embedding", "embedding")
      BY <1>1, <2>1, <2>4
         DEF EmbedTransientEvent, Write, Goto, jobVars, RecordEvent, Applied,
             Records, WorkStatus
    <3>2. QED
      BY <3>1 DEF Statuses
  <2>5. QED
    BY <1>3, <2>2, <2>3, <2>4
<1>4. ASSUME NEW o, EmbedCheck(o) \/ EmbedFetch(o) \/ EmbedReadChunks(o)
      PROVE  Passes("embed")
  BY <1>1, <1>4
     DEF EmbedCheck, EmbedFetch, EmbedReadChunks, CheckProcessed, FetchDocument,
         Read, Goto, storeVars, Passes, AfterStart
<1>5. ASSUME NEW o, EmbedWrite(o)
      PROVE  Passes("embed")
  BY <1>1, <1>5 DEF EmbedWrite, Write, Goto, jobVars, Passes, AfterStart
<1>6. ASSUME NEW o, EmbedRecord(o)
      PROVE  Passes("embed")
  <2>1. o = "ok"
    BY <1>6, TidyCalls DEF EmbedRecord, Write
  <2>2. QED
    BY <1>1, <1>6, <2>1 DEF EmbedRecord, Write, Goto, Passes, AfterStart
<1>7. ASSUME EmbedBatchFails \/ EmbedRetry \/ EmbedNack \/ EmbedAck
      PROVE  Passes("embed")
  BY <1>1, <1>7
     DEF EmbedBatchFails, EmbedRetry, EmbedNack, EmbedAck, RetryOrDeadLetter,
         Nack, Ack, Finish, Goto, storeVars, jobVars, Passes, AfterStart
<1>8. QED
  BY <1>2, <1>3, <1>4, <1>5, <1>6, <1>7 DEF EmbedHandle, Audited

-----------------------------------------------------------------------------
(* What a step does to statuses and events.                                *)

\* CreateDocument commits a row with its first event.
Commits(d) ==
    /\ status' = [status EXCEPT ![d] = "uploaded"]
    /\ events' = [events EXCEPT ![d] =
                     @ \cup {[from |-> "absent", to |-> "uploaded"]}]
    /\ UNCHANGED pc

\* Nobody else touches them.
LEMMA AuditedNext ==
    ASSUME AllInv, [Next]_vars, Tidy'
    PROVE  \/ \E s \in Stages : HandleStep(s) /\ Audited(s)
           \/ \E d \in Docs : Commits(d)
           \/ UNCHANGED <<status, events>>
<1>1. ASSUME NEW s \in Stages, HandleStep(s) PROVE Audited(s)
  BY <1>1, AuditedOcr, AuditedChunk, AuditedEmbed DEF HandleStep
<1>2. ASSUME NEW s \in Stages,
             DeliverStep(s) \/ DisruptStep(s) \/ ReconnectStep(s)
      PROVE  UNCHANGED <<status, events>>
  BY <1>2
     DEF DeliverStep, Deliver, DisruptStep, Crash, Disconnect, ReconnectStep,
         Reconnect, storeVars
<1>3. ASSUME NEW d \in Docs, ApiHandle(d), UNCHANGED consumerVars
      PROVE  Commits(d) \/ UNCHANGED <<status, events>>
  BY <1>3
     DEF ApiHandle, PutUpload, CommitDocument, RejectDocument,
         EnqueueFirstStage, AbortUpload, RetryDocument, RecordEvent, Applied,
         storeVars, consumerVars, Commits
<1>4. CASE TtlStep \/ UNCHANGED vars
  BY <1>4 DEF TtlStep, vars, storeVars
<1>5. QED
  BY <1>1, <1>2, <1>3, <1>4 DEF Next, ApiStep

\* The trail of every document only grows.
LEMMA TrailGrows ==
    ASSUME AllInv, [Next]_vars, Tidy', NEW d \in Docs
    PROVE  Trail(d) \subseteq Trail(d)'
<1>1. events \in [Docs -> SUBSET Event]
  BY OrderTypes
<1>2. events[d] \subseteq events'[d]
  BY <1>1, AuditedNext DEF Audited, Marks, Records, Passes, Commits
<1>3. QED
  BY <1>2 DEF Trail

\* A recorded transition is on the trail of its document.
LEMMA RecordsTrail ==
    ASSUME AllInv, NEW s \in Stages, pc[s] # "idle", NEW d, d = Doc(s),
           NEW from \in Statuses, NEW to \in Statuses, Records(s, from, to)
    PROVE  /\ to \in Trail(d)'
           /\ events'[d] = events[d] \cup {[from |-> from, to |-> to]}
           /\ \A c \in Docs \ {d} : events'[c] = events[c]
<1>1. d \in Docs /\ events \in [Docs -> SUBSET Event]
  BY BusyFacts, OrderTypes
<1>2. /\ events'[d] = events[d] \cup {[from |-> from, to |-> to]}
      /\ \A c \in Docs \ {d} : events'[c] = events[c]
  BY <1>1 DEF Records
<1>3. QED
  BY <1>2 DEF Trail

-----------------------------------------------------------------------------
(* Who works on a document at the same time.                               *)

\* A stage that fetches the status finds nobody about to record it.
LEMMA FetchesAlone ==
    ASSUME FullInv, Owner, NEW s \in Stages, pc[s] = "fetch",
           NEW t \in Stages, Doc(t) = Doc(s),
           \/ pc[t] \in {"startEvent", "completeEvent"}
           \/ t = "ocr" /\ pc[t] = "failEvent"
    PROVE  FALSE
<1> USE DEF FullInv
<1>1. s # t
  OBVIOUS
<1>2. ASSUME NEW r \in Stages, r # "ocr", pc[r] # "idle",
             pc["ocr"] \in OcrOwns, Doc("ocr") = Doc(r)
      PROVE  FALSE
  BY <1>2, BusyFacts, OcrAlone
<1>3. s # "ocr" /\ t # "ocr"
  BY <1>1, <1>2 DEF OcrOwns
<1>4. "chunk" \in {s, t} /\ "embed" \in {s, t}
  BY <1>1, <1>3 DEF Stages
<1>5. pc["chunk"] \in ChunkerOwns /\ pc["embed"] # "idle"
      /\ Doc("chunk") = Doc("embed")
  BY <1>3, <1>4 DEF ChunkerOwns
<1>6. QED
  BY <1>5, EmbedKnows DEF Owner, ChunkPrecedesEmbed

\* What a stage records as reached is what the row says.
LEMMA EventIsDue ==
    ASSUME FullInv, Owner, OcrPlace, NEW s \in Stages
    PROVE  /\ pc[s] = "startEvent" => status[Doc(s)] = WorkStatus[s]
           /\ pc[s] = "completeEvent" => status[Doc(s)] = DoneStatus[s]
           /\ s = "ocr" /\ pc[s] = "failEvent" => status[Doc(s)] = "failed"
<1>1. pc["ocr"] = "failEvent" => status[Doc("ocr")] = "failed"
  BY DEF FullInv, AllInv, SafetyInv, WorkerInv, OcrHasFailed
<1>2. QED
  BY <1>1
     DEF Stages, WorkStatus, DoneStatus, OcrPlace, Owner, ChunkPlace, EmbedPlace

-----------------------------------------------------------------------------
(* The trail.                                                              *)

\* An event starts where the trail has been.
LEMMA TrailIsClosedNext ==
    ASSUME AllInv, [Next]_vars, Tidy', TrailIsClosed, TrailIsSeen,
           TrailIsStarted
    PROVE  TrailIsClosed'
<1> SUFFICES ASSUME NEW d \in Docs, NEW e \in events'[d]
             PROVE  e.from \in Trail(d)'
  BY DEF TrailIsClosed
<1>1. Trail(d) \subseteq Trail(d)' /\ events \in [Docs -> SUBSET Event]
  BY TrailGrows, OrderTypes
<1>2. CASE e \in events[d]
  BY <1>1, <1>2 DEF TrailIsClosed
<1>3. CASE e \notin events[d]
  <2>1. CASE \E c \in Docs : Commits(c)
    <3>1. e = [from |-> "absent", to |-> "uploaded"]
      BY <1>1, <1>3, <2>1 DEF Commits
    <3>2. QED
      BY <3>1 DEF Trail
  <2>2. ASSUME NEW s \in Stages, NEW from \in Statuses, NEW to \in Statuses,
               Records(s, from, to)
        PROVE  from \in Trail(Doc(s)) /\ pc[s] # "idle"
    BY <2>2 DEF Records, TrailIsSeen, TrailIsStarted, AfterStart, Stages
  <2>3. ASSUME NEW s \in Stages, Audited(s)
        PROVE  e.from \in Trail(d)
    <3>1. PICK from \in Statuses, to \in Statuses : Records(s, from, to)
      BY <1>3, <2>3 DEF Audited, Marks, Passes
    <3>2. Doc(s) = d /\ e = [from |-> from, to |-> to]
      BY <1>3, <2>2, <3>1, RecordsTrail
    <3>3. QED
      BY <2>2, <3>1, <3>2
  <2>4. QED
    BY <1>1, <1>3, <2>1, <2>3, AuditedNext
<1>4. QED
  BY <1>2, <1>3

\* A status that was written is recorded next.
LEMMA TrailIsCurrentNext ==
    ASSUME FullInv, Owner, OcrPlace, [Next]_vars, Tidy', TrailIsCurrent
    PROVE  TrailIsCurrent'
<1> USE DEF FullInv
<1> DEFINE Due(s) == \/ pc[s] \in {"startEvent", "completeEvent"}
                     \/ s = "ocr" /\ pc[s] = "failEvent"
<1>1. \A d \in Docs : status[d] \in Trail(d)
                      \/ \E s \in Stages : Due(s) /\ Doc(s) = d
  BY DEF TrailIsCurrent, Stages
<1> SUFFICES ASSUME NEW d \in Docs
             PROVE  status'[d] \in Trail(d)'
                    \/ \E s \in Stages : Due(s)' /\ Doc(s)' = d
  BY DEF TrailIsCurrent, Stages
<1>2. /\ Trail(d) \subseteq Trail(d)'
      /\ status \in [Docs -> Statuses] /\ events \in [Docs -> SUBSET Event]
  BY TrailGrows, OrderTypes
<1>3. CASE status'[d] # status[d]
  <2>1. ASSUME NEW c \in Docs, Commits(c)
        PROVE  status'[d] \in Trail(d)'
    <3>1. /\ c = d /\ status'[d] = "uploaded"
          /\ [from |-> "absent", to |-> "uploaded"] \in events'[d]
      BY <1>2, <1>3, <2>1 DEF Commits
    <3>2. QED
      BY <3>1 DEF Trail
  <2>2. ASSUME NEW s \in Stages, Audited(s)
        PROVE  Due(s)' /\ Doc(s)' = d
    <3>1. PICK new \in Statuses : Marks(s, new)
      BY <1>3, <2>2 DEF Audited, Records, Passes
    <3>2. Doc(s) = d
      BY <1>2, <1>3, <3>1 DEF Marks
    <3>3. QED
      BY <3>1, <3>2 DEF Marks, Writes, Doc
  <2>3. QED
    BY <1>3, <2>1, <2>2, AuditedNext
<1>4. CASE status'[d] = status[d]
  <2>1. CASE status[d] \in Trail(d)
    BY <1>2, <1>4, <2>1
  <2>2. ASSUME NEW s \in Stages, Due(s), Doc(s) = d
        PROVE  status'[d] \in Trail(d)' \/ (Due(s)' /\ Doc(s)' = d)
    <3>1. CASE Still(s)
      BY <2>2, <3>1 DEF Still, Doc
    <3>2. CASE HandleStep(s)
      <4>1. Audited(s)
        BY <3>2, AuditedOcr, AuditedChunk, AuditedEmbed DEF HandleStep
      <4>2. PICK from \in Statuses, to \in Statuses : Records(s, from, to)
        BY <2>2, <4>1 DEF Audited, Marks, Writes, Passes
      <4>3. to = status[d]
        BY <2>2, <4>2, EventIsDue DEF Records
      <4>4. QED
        BY <1>4, <2>2, <4>2, <4>3, RecordsTrail
    <3>3. ~Takes(s) /\ ~Dies(s)
      BY <2>2 DEF Takes, Dies, Tidy, Without
    <3>4. QED
      BY <3>1, <3>2, <3>3, OthersStay
  <2>3. QED
    BY <1>1, <2>1, <2>2
<1>5. QED
  BY <1>3, <1>4

\* The status a stage fetched is on the trail.
LEMMA TrailIsSeenNext ==
    ASSUME FullInv, Owner, [Next]_vars, Tidy', TrailIsCurrent, TrailIsSeen
    PROVE  TrailIsSeen'
<1> USE DEF FullInv
<1> SUFFICES ASSUME NEW s \in Stages, pc'[s] \in {"start", "startEvent"},
                    NEW d, d = Doc(s)'
             PROVE  seen'[s] \in Trail(d)'
  BY DEF TrailIsSeen, Trail, Doc
<1>1. \A c \in Docs : Trail(c) \subseteq Trail(c)'
  BY TrailGrows
<1>2. ASSUME pc[s] \in {"start", "startEvent"}, held'[s] = held[s],
             seen'[s] = seen[s]
      PROVE  seen'[s] \in Trail(d)'
  <2>1. d = Doc(s) /\ d \in Docs
    BY <1>2, BusyFacts DEF Doc
  <2>2. seen[s] \in Trail(d)
    BY <1>2, <2>1 DEF TrailIsSeen
  <2>3. QED
    BY <1>1, <1>2, <2>1, <2>2
<1>3. CASE Still(s)
  BY <1>2, <1>3 DEF Still
<1>4. CASE HandleStep(s)
  <2>1. Audited(s)
    BY <1>4, AuditedOcr, AuditedChunk, AuditedEmbed DEF HandleStep
  <2>2. CASE \E new \in Statuses : Marks(s, new)
    BY <1>2, <2>2 DEF Marks, Writes
  <2>3. CASE Passes(s)
    <3>1. /\ pc[s] = "fetch" /\ seen'[s] = status[d]
          /\ d = Doc(s) /\ d \in Docs /\ status' = status
      BY <2>3, BusyFacts DEF Passes, Doc
    <3>2. status[d] \in Trail(d)
      BY <3>1, FetchesAlone DEF TrailIsCurrent, Stages
    <3>3. QED
      BY <1>1, <3>1, <3>2
  <2>4. QED
    BY <2>1, <2>2, <2>3 DEF Audited, Records
<1>5. ~Takes(s) /\ ~Dies(s)
  BY DEF Takes, Dies
<1>6. QED
  BY <1>3, <1>4, <1>5, OthersStay

\* So is the status it works under.
LEMMA TrailIsStartedNext ==
    ASSUME AllInv, [Next]_vars, Tidy', TrailIsStarted
    PROVE  TrailIsStarted'
<1> SUFFICES ASSUME NEW s \in Stages, pc'[s] \in AfterStart,
                    NEW d, d = Doc(s)'
             PROVE  WorkStatus[s] \in Trail(d)'
  BY DEF TrailIsStarted, Trail, Doc, AfterStart, WorkStatus
<1>1. \A c \in Docs : Trail(c) \subseteq Trail(c)'
  BY TrailGrows
<1>2. ASSUME pc[s] \in AfterStart, held'[s] = held[s]
      PROVE  WorkStatus[s] \in Trail(d)'
  <2>1. d = Doc(s) /\ d \in Docs
    BY <1>2, BusyFacts DEF Doc, AfterStart
  <2>2. WorkStatus[s] \in Trail(d)
    BY <1>2, <2>1 DEF TrailIsStarted
  <2>3. QED
    BY <1>1, <2>1, <2>2
<1>3. CASE Still(s)
  BY <1>2, <1>3 DEF Still
<1>4. CASE HandleStep(s)
  <2>1. Audited(s)
    BY <1>4, AuditedOcr, AuditedChunk, AuditedEmbed DEF HandleStep
  <2>2. CASE \E new \in Statuses : Marks(s, new)
    BY <1>2, <2>2 DEF Marks, Writes, AfterStart
  <2>3. ASSUME NEW from \in Statuses, NEW to \in Statuses, Records(s, from, to)
        PROVE  WorkStatus[s] \in Trail(d)'
    <3>1. d = Doc(s) /\ pc[s] # "idle"
      BY <2>3 DEF Records, Doc
    <3>2. CASE pc[s] = "startEvent"
      BY <2>3, <3>1, <3>2, RecordsTrail DEF Records
    <3>3. CASE pc[s] # "startEvent"
      BY <1>2, <2>3, <3>3 DEF Records, AfterStart
    <3>4. QED
      BY <3>2, <3>3
  <2>4. CASE Passes(s)
    BY <1>2, <2>4 DEF Passes
  <2>5. QED
    BY <2>1, <2>2, <2>3, <2>4 DEF Audited
<1>5. ~Takes(s) /\ ~Dies(s)
  BY DEF Takes, Dies, AfterStart
<1>6. QED
  BY <1>3, <1>4, <1>5, OthersStay

-----------------------------------------------------------------------------
(* What the trail may lack under every disturbance: GapInv.                *)

\* The calls between the event of a stage's start and its hand-off.
Started == {"work", "write", "complete", "completeEvent", "record", "handoff"}

\* The step leaves the status new on the trail of d.
Logged(d, new) == \E e \in events'[d] : e.to = new

\* A worker gets past an event only if it is recorded, and acknowledges a
\* message only if it is recorded, its document finished, or a copy queued.
Reports(s) ==
    /\ pc'[s] \in Started =>
           /\ held'[s] = held[s]
           /\ \/ pc[s] \in Started
              \/ Watched(s)' => Logged(Doc(s), WorkStatus[s])
    /\ pc'[s] \in {"record", "handoff"} =>
           \/ pc[s] = "record"
           \/ Watched(s)' => Logged(Doc(s), DoneStatus[s])
    /\ pc'[s] = "ack" =>
           /\ pc[s] # "idle" /\ held'[s] = held[s]
           /\ \/ ~linked'[s]
              \/ \E m \in Messages : m.id = held'[s].id /\ InQueue(m)'
              \/ status'[Doc(s)] \in Terminal
              \/ UNCHANGED status /\ held[s].id \in processed
              \/ UNCHANGED status /\ pc[s] \in {"record", "handoff"}

\* An event that is recorded is logged.
LEMMA EventIsLogged ==
    ASSUME AllInv, NEW s \in Stages, pc[s] # "idle", NEW o, Applied(o),
           NEW from, NEW to, RecordEvent(Doc(s), from, to, o)
    PROVE  Logged(Doc(s), to)
<1> DEFINE e == [from |-> from, to |-> to]
<1>1. Doc(s) \in Docs /\ events \in [Docs -> SUBSET Event]
  BY BusyFacts, OrderTypes
<1>2. events'[Doc(s)] = events[Doc(s)] \cup {e}
  BY <1>1 DEF RecordEvent
<1>3. e \in events'[Doc(s)] /\ e.to = to
  BY <1>2
<1>4. QED
  BY <1>3 DEF Logged

\* The calls of the OCR worker.
LEMMA ReportsOcr ==
    ASSUME AllInv, OcrHandle
    PROVE  Reports("ocr")
<1> USE DEF Stages
<1>1. pc \in [Stages -> Labels]
  BY OrderTypes
<1>2. ASSUME NEW o, OcrStartEvent(o)
      PROVE  Reports("ocr")
  <2>1. /\ pc["ocr"] = "startEvent" /\ held' = held
        /\ pc'["ocr"] = IF o = "ok" THEN "work" ELSE "transientEvent"
        /\ RecordEvent(Doc("ocr"), seen["ocr"], "ocr_processing", o)
    BY <1>1, <1>2 DEF OcrStartEvent, Write, Goto, jobVars
  <2>2. o = "ok" => Logged(Doc("ocr"), "ocr_processing")
    BY <2>1, EventIsLogged DEF Applied
  <2>3. QED
    BY <2>1, <2>2 DEF Reports, Started, WorkStatus
<1>3. ASSUME NEW o, OcrCompleteEvent(o)
      PROVE  Reports("ocr")
  <2>1. /\ pc["ocr"] = "completeEvent" /\ held' = held
        /\ pc'["ocr"] = IF o = "ok" THEN "record" ELSE "transientEvent"
        /\ RecordEvent(Doc("ocr"), "ocr_processing", "ocr_completed", o)
    BY <1>1, <1>3 DEF OcrCompleteEvent, Write, Goto, jobVars
  <2>2. o = "ok" => Logged(Doc("ocr"), "ocr_completed")
    BY <2>1, EventIsLogged DEF Applied
  <2>3. QED
    BY <2>1, <2>2 DEF Reports, Started, DoneStatus
<1>4. ASSUME NEW o, OcrCheck(o) \/ OcrFetch(o)
      PROVE  Reports("ocr")
  BY <1>1, <1>4
     DEF OcrCheck, OcrFetch, CheckProcessed, FetchDocument, Read, Goto,
         storeVars, Reports, Started
<1>5. ASSUME NEW o, OcrFailEvent(o)
      PROVE  Reports("ocr")
  <2>1. /\ pc["ocr"] = "failEvent" /\ held' = held /\ status' = status
        /\ pc'["ocr"] \in {"ack", "nack"}
    BY <1>1, <1>5 DEF OcrFailEvent, Write, Goto, jobVars
  <2>2. status[Doc("ocr")] = "failed"
    BY <2>1 DEF AllInv, SafetyInv, WorkerInv, OcrHasFailed
  <2>3. QED
    BY <2>1, <2>2 DEF Reports, Started, Terminal
<1>6. ASSUME OcrRetry
      PROVE  Reports("ocr")
  <2>1. pc["ocr"] = "retry" /\ held' = held /\ pc'["ocr"] = "ack"
    BY <1>1, <1>6 DEF OcrRetry, RetryOrDeadLetter, Goto, jobVars
  <2>2. QED
    BY <1>6, <2>1, RetryIsQueued DEF OcrRetry, Reports, Started
<1>7. ASSUME NEW o, \/ OcrStart(o) \/ OcrComplete(o) \/ OcrRecord(o)
                    \/ OcrFail(o) \/ OcrTransientEvent(o)
      PROVE  Reports("ocr")
  BY <1>1, <1>7
     DEF OcrStart, OcrComplete, OcrRecord, OcrFail, OcrTransientEvent, Write,
         Goto, jobVars, Reports, Started
<1>8. ASSUME OcrExtract \/ OcrHandoff \/ OcrNack \/ OcrAck
      PROVE  Reports("ocr")
  BY <1>1, <1>8
     DEF OcrExtract, OcrHandoff, OcrNack, OcrAck, Handoff, Nack, Ack, Finish,
         Goto, storeVars, jobVars, Reports, Started
<1>9. QED
  BY <1>2, <1>3, <1>4, <1>5, <1>6, <1>7, <1>8 DEF OcrHandle

\* The calls of the chunker, until one of its events is refused.
LEMMA ReportsChunk ==
    ASSUME AllInv, ChunkHandle
    PROVE  Reports("chunk")
<1> USE DEF Stages
<1>1. pc \in [Stages -> Labels]
  BY OrderTypes
<1>2. ASSUME NEW o \in Outcomes, Attempted(o), Watched("chunk")'
      PROVE  Applied(o)
  BY <1>2, AttemptedRemembers DEF Watched, Without, Outcomes, Applied
<1>3. ASSUME NEW o, ChunkStartEvent(o)
      PROVE  Reports("chunk")
  <2>1. /\ pc["chunk"] = "startEvent" /\ held' = held /\ pc'["chunk"] = "write"
        /\ o \in Outcomes /\ Attempted(o)
        /\ RecordEvent(Doc("chunk"), seen["chunk"], "chunking", o)
    BY <1>1, <1>3 DEF ChunkStartEvent, Write, Goto, jobVars
  <2>2. Watched("chunk")' => Logged(Doc("chunk"), "chunking")
    BY <1>2, <2>1, EventIsLogged
  <2>3. QED
    BY <2>1, <2>2 DEF Reports, Started, WorkStatus
<1>4. ASSUME NEW o, ChunkCompleteEvent(o)
      PROVE  Reports("chunk")
  <2>1. /\ pc["chunk"] = "completeEvent" /\ held' = held
        /\ pc'["chunk"] = "record"
        /\ o \in Outcomes /\ Attempted(o)
        /\ RecordEvent(Doc("chunk"), "chunking", "chunked", o)
    BY <1>1, <1>4 DEF ChunkCompleteEvent, Write, Goto, jobVars
  <2>2. Watched("chunk")' => Logged(Doc("chunk"), "chunked")
    BY <1>2, <2>1, EventIsLogged
  <2>3. QED
    BY <2>1, <2>2 DEF Reports, Started, DoneStatus
<1>5. ASSUME NEW o, ChunkCheck(o) \/ ChunkFetch(o)
      PROVE  Reports("chunk")
  <2>1. pc["chunk"] # "idle"
    BY <1>5 DEF ChunkCheck, ChunkFetch, CheckProcessed, FetchDocument, Read
  <2>2. "ocr" \in stamped[Doc("chunk")]
    BY <2>1, BusyFacts
  <2>3. QED
    BY <1>1, <1>5, <2>2
       DEF ChunkCheck, ChunkFetch, CheckProcessed, FetchDocument, Read, Goto,
           storeVars, Reports, Started
<1>6. ASSUME ChunkRetry
      PROVE  Reports("chunk")
  <2>1. pc["chunk"] = "retry" /\ held' = held /\ pc'["chunk"] = "ack"
    BY <1>1, <1>6 DEF ChunkRetry, RetryOrDeadLetter, Goto, jobVars
  <2>2. QED
    BY <1>6, <2>1, RetryIsQueued DEF ChunkRetry, Reports, Started
<1>7. ASSUME NEW o, ChunkStart(o) \/ ChunkInsert(o) \/ ChunkComplete(o)
                    \/ ChunkRecord(o)
      PROVE  Reports("chunk")
  BY <1>1, <1>7
     DEF ChunkStart, ChunkInsert, ChunkComplete, ChunkRecord, Write, Goto,
         jobVars, Reports, Started
<1>8. ASSUME ChunkHandoff \/ ChunkAck
      PROVE  Reports("chunk")
  BY <1>1, <1>8
     DEF ChunkHandoff, ChunkAck, Handoff, Ack, Finish, Goto, storeVars, jobVars,
         Reports, Started
<1>9. QED
  BY <1>3, <1>4, <1>5, <1>6, <1>7, <1>8 DEF ChunkHandle

\* The calls of the embedder.
LEMMA ReportsEmbed ==
    ASSUME AllInv, EmbedHandle
    PROVE  Reports("embed")
<1> USE DEF Stages
<1>1. pc \in [Stages -> Labels]
  BY OrderTypes
<1>2. ASSUME NEW o, EmbedStartEvent(o)
      PROVE  Reports("embed")
  <2>1. /\ pc["embed"] = "startEvent" /\ held' = held
        /\ pc'["embed"] = IF o = "ok" THEN "work" ELSE "transientEvent"
        /\ RecordEvent(Doc("embed"), seen["embed"], "embedding", o)
    BY <1>1, <1>2 DEF EmbedStartEvent, Write, Goto, jobVars
  <2>2. o = "ok" => Logged(Doc("embed"), "embedding")
    BY <2>1, EventIsLogged DEF Applied
  <2>3. QED
    BY <2>1, <2>2 DEF Reports, Started, WorkStatus
<1>3. ASSUME NEW o, EmbedCompleteEvent(o)
      PROVE  Reports("embed")
  <2>1. /\ pc["embed"] = "completeEvent" /\ held' = held
        /\ pc'["embed"] = IF o = "ok" THEN "record" ELSE "transientEvent"
        /\ RecordEvent(Doc("embed"), "embedding", "embedded", o)
    BY <1>1, <1>3 DEF EmbedCompleteEvent, Write, Goto, jobVars
  <2>2. o = "ok" => Logged(Doc("embed"), "embedded")
    BY <2>1, EventIsLogged DEF Applied
  <2>3. QED
    BY <2>1, <2>2 DEF Reports, Started, DoneStatus
<1>4. ASSUME NEW o, EmbedCheck(o) \/ EmbedFetch(o) \/ EmbedReadChunks(o)
      PROVE  Reports("embed")
  BY <1>1, <1>4
     DEF EmbedCheck, EmbedFetch, EmbedReadChunks, CheckProcessed, FetchDocument,
         Read, Goto, storeVars, Reports, Started
<1>5. ASSUME EmbedRetry
      PROVE  Reports("embed")
  <2>1. pc["embed"] = "retry" /\ held' = held /\ pc'["embed"] = "ack"
    BY <1>1, <1>5 DEF EmbedRetry, RetryOrDeadLetter, Goto, jobVars
  <2>2. QED
    BY <1>5, <2>1, RetryIsQueued DEF EmbedRetry, Reports, Started
<1>6. ASSUME NEW o, \/ EmbedStart(o) \/ EmbedWrite(o) \/ EmbedComplete(o)
                    \/ EmbedRecord(o) \/ EmbedTransientEvent(o)
      PROVE  Reports("embed")
  BY <1>1, <1>6
     DEF EmbedStart, EmbedWrite, EmbedComplete, EmbedRecord,
         EmbedTransientEvent, Write, Goto, jobVars, Reports, Started
<1>7. ASSUME EmbedBatchFails \/ EmbedNack \/ EmbedAck
      PROVE  Reports("embed")
  BY <1>1, <1>7
     DEF EmbedBatchFails, EmbedNack, EmbedAck, Nack, Ack, Finish, Goto, jobVars,
         Reports, Started
<1>8. QED
  BY <1>2, <1>3, <1>4, <1>5, <1>6, <1>7 DEF EmbedHandle

\* Nobody takes an event from the trail.
LEMMA EventsGrow ==
    ASSUME AllInv, [Next]_vars, NEW d \in Docs
    PROVE  /\ events[d] \subseteq events'[d]
           /\ Trail(d) \subseteq Trail(d)'
<1> DEFINE Grow == events[d] \subseteq events'[d]
<1>1. events \in [Docs -> SUBSET Event]
  BY OrderTypes
<1>2. ASSUME NEW c, NEW from, NEW to, NEW o, RecordEvent(c, from, to, o)
      PROVE  Grow
  BY <1>1, <1>2 DEF RecordEvent
<1>3. ASSUME OcrHandle PROVE Grow
  BY <1>2, <1>3
     DEF OcrHandle, OcrCheck, OcrFetch, OcrStart, OcrStartEvent, OcrExtract,
         OcrComplete, OcrCompleteEvent, OcrRecord, OcrHandoff, OcrFail,
         OcrFailEvent, OcrTransientEvent, OcrRetry, OcrNack, OcrAck,
         CheckProcessed, FetchDocument, Read, Handoff, RetryOrDeadLetter, Nack,
         Ack, storeVars
<1>4. ASSUME ChunkHandle PROVE Grow
  BY <1>2, <1>4
     DEF ChunkHandle, ChunkCheck, ChunkFetch, ChunkStart, ChunkStartEvent,
         ChunkInsert, ChunkComplete, ChunkCompleteEvent, ChunkRecord,
         ChunkHandoff, ChunkRetry, ChunkAck, CheckProcessed, FetchDocument,
         Read, Handoff, RetryOrDeadLetter, Ack, storeVars
<1>5. ASSUME EmbedHandle PROVE Grow
  BY <1>2, <1>5
     DEF EmbedHandle, EmbedCheck, EmbedFetch, EmbedStart, EmbedStartEvent,
         EmbedReadChunks, EmbedBatchFails, EmbedWrite, EmbedComplete,
         EmbedCompleteEvent, EmbedRecord, EmbedTransientEvent, EmbedRetry,
         EmbedNack, EmbedAck, CheckProcessed, FetchDocument, Read,
         RetryOrDeadLetter, Nack, Ack, storeVars
<1>6. ASSUME NEW s \in Stages,
             DeliverStep(s) \/ DisruptStep(s) \/ ReconnectStep(s)
      PROVE  Grow
  BY <1>6
     DEF DeliverStep, Deliver, DisruptStep, Crash, Disconnect, ReconnectStep,
         Reconnect, storeVars
<1>7. ASSUME NEW c \in Docs, ApiHandle(c) PROVE Grow
  BY <1>2, <1>7
     DEF ApiHandle, PutUpload, CommitDocument, RejectDocument,
         EnqueueFirstStage, AbortUpload, RetryDocument, storeVars
<1>8. ASSUME TtlStep \/ UNCHANGED vars PROVE Grow
  BY <1>8 DEF TtlStep, vars, storeVars
<1>9. Grow
  BY <1>3, <1>4, <1>5, <1>6, <1>7, <1>8 DEF Next, ApiStep, HandleStep
<1>10. QED
  BY <1>9 DEF Trail

\* A call keeps the channel as it is, and the delivery unless it ends with it.
LEMMA HandlersAreBusy ==
    ASSUME AllInv, NEW s \in Stages, HandleStep(s)
    PROVE  /\ pc[s] # "idle"
           /\ linked' = linked
           /\ pc'[s] # "idle" => held'[s] = held[s]
<1> USE DEF Stages
<1>1. pc \in [Stages -> Labels] /\ held \in [Stages -> Messages \cup {NoMessage}]
  BY OrderTypes
<1>2. CASE s = "ocr"
  BY <1>1, <1>2
     DEF HandleStep, OcrHandle, OcrCheck, OcrFetch, OcrStart,
         OcrStartEvent, OcrExtract, OcrComplete, OcrCompleteEvent, OcrRecord,
         OcrHandoff, OcrFail, OcrFailEvent, OcrTransientEvent, OcrRetry,
         OcrNack, OcrAck, CheckProcessed, FetchDocument, Read, Write, Handoff,
         RetryOrDeadLetter, Nack, Ack, Finish, Goto, jobVars
<1>3. CASE s = "chunk"
  BY <1>1, <1>3
     DEF HandleStep, ChunkHandle, ChunkCheck, ChunkFetch, ChunkStart,
         ChunkStartEvent, ChunkInsert, ChunkComplete, ChunkCompleteEvent,
         ChunkRecord, ChunkHandoff, ChunkRetry, ChunkAck, CheckProcessed,
         FetchDocument, Read, Write, Handoff, RetryOrDeadLetter, Ack, Finish,
         Goto, jobVars
<1>4. CASE s = "embed"
  BY <1>1, <1>4
     DEF HandleStep, EmbedHandle, EmbedCheck, EmbedFetch, EmbedStart,
         EmbedStartEvent, EmbedReadChunks, EmbedBatchFails, EmbedWrite,
         EmbedComplete, EmbedCompleteEvent, EmbedRecord, EmbedTransientEvent,
         EmbedRetry, EmbedNack, EmbedAck, CheckProcessed, FetchDocument, Read,
         Write, RetryOrDeadLetter, Nack, Ack, Finish, Goto, jobVars
<1>5. QED
  BY <1>2, <1>3, <1>4

\* A message in a busy worker's hands is with the broker: the channel is open,
\* or the broker has taken it back.
LEMMA HeldIsUnsettled ==
    ASSUME AllInv, UnlinkedIsQueued, NEW s \in Stages, pc[s] # "idle"
    PROVE  Unsettled(held[s].id)
BY DEF UnlinkedIsQueued, Unsettled

\* A copy of what a worker without a channel holds is queued.
LEMMA UnlinkedIsQueuedNext ==
    ASSUME AllInv, [Next]_vars, UnlinkedIsQueued
    PROVE  UnlinkedIsQueued'
<1> SUFFICES ASSUME NEW s \in Stages, pc'[s] # "idle", ~linked'[s]
             PROVE  \E m \in Messages : m.id = held'[s].id /\ InQueue(m)'
  BY DEF UnlinkedIsQueued
<1>1. CASE pc[s] # "idle" /\ ~linked[s] /\ held'[s] = held[s]
  <2>1. PICK m \in Messages : m.id = held[s].id /\ InQueue(m)
    BY <1>1 DEF UnlinkedIsQueued
  <2>2. m.id.stage = s
    BY <1>1, <2>1, BusyFacts
  <2>3. InQueue(m)'
    BY <1>1, <2>1, <2>2, FlowNext DEF Flow, CopiesStay
  <2>4. QED
    BY <1>1, <2>1, <2>3
<1>2. CASE Disconnect(s)
  <2>1. held[s] \in Messages /\ mainq' = Add(mainq, held[s]) /\ held' = held
    BY <1>2, BusyFacts DEF Disconnect, Requeue, jobVars
  <2>2. mainq'[held[s]] > 0
    BY <2>1, OrderTypes DEF Add
  <2>3. QED
    BY <2>1, <2>2 DEF InQueue
<1>3. ASSUME NEW t \in Stages, HandleStep(t)
      PROVE  pc[s] # "idle" /\ ~linked[s] /\ held'[s] = held[s]
  <2>1. linked' = linked
    BY <1>3, HandlersAreBusy
  <2>2. CASE t # s
    BY <1>3, <2>1, <2>2, OthersStill DEF Still
  <2>3. CASE t = s
    BY <1>3, <2>1, <2>3, HandlersAreBusy
  <2>4. QED
    BY <2>2, <2>3
<1>4. ASSUME NEW t \in Stages, DeliverStep(t)
      PROVE  pc[s] # "idle" /\ ~linked[s] /\ held'[s] = held[s]
  BY <1>4, OrderTypes DEF DeliverStep, Deliver, Goto
<1>5. ASSUME NEW t \in Stages, DisruptStep(t), ~Disconnect(s)
      PROVE  pc[s] # "idle" /\ ~linked[s] /\ held'[s] = held[s]
  BY <1>5, OrderTypes DEF DisruptStep, Crash, Disconnect, Finish, Goto, jobVars
<1>6. ASSUME NEW t \in Stages, ReconnectStep(t)
      PROVE  pc[s] # "idle" /\ ~linked[s] /\ held'[s] = held[s]
  BY <1>6, OrderTypes DEF ReconnectStep, Reconnect, jobVars
<1>7. CASE ApiStep \/ TtlStep \/ UNCHANGED vars
  <2>1. UNCHANGED <<pc, held, linked>>
    BY <1>7 DEF ApiStep, TtlStep, vars, consumerVars, jobVars
  <2>2. QED
    BY <1>1, <2>1
<1>8. QED
  BY <1>1, <1>2, <1>3, <1>4, <1>5, <1>6, <1>7 DEF Next

\* Whoever passed an event has recorded it.
LEMMA WorkIsAuditedNext ==
    ASSUME AllInv, [Next]_vars, WorkIsAudited
    PROVE  WorkIsAudited'
<1> SUFFICES ASSUME NEW s \in Stages, Watched(s)', NEW d, d = Doc(s)'
             PROVE  /\ pc'[s] \in Started => WorkStatus[s] \in Trail(d)'
                    /\ pc'[s] \in {"record", "handoff"} =>
                           DoneStatus[s] \in Trail(d)'
  BY DEF WorkIsAudited, Started, Trail, Doc
<1>1. Watched(s)
  BY WithoutBefore DEF Watched
<1>2. ASSUME pc'[s] \in Started, held'[s] = held[s], pc[s] # "idle"
      PROVE  d = Doc(s) /\ d \in Docs /\ Trail(d) \subseteq Trail(d)'
  BY <1>2, BusyFacts, EventsGrow DEF Doc
<1>3. CASE HandleStep(s) /\ pc'[s] \in Started
  <2>1. Reports(s)
    BY <1>3, ReportsOcr, ReportsChunk, ReportsEmbed DEF HandleStep
  <2>2. held'[s] = held[s] /\ pc[s] # "idle"
    <3>1. pc[s] # "idle"
      BY <1>3, HandlersAreBusy
    <3>2. QED
      BY <1>3, <2>1, <3>1 DEF Reports
  <2>3. d = Doc(s) /\ d \in Docs /\ Trail(d) \subseteq Trail(d)'
    BY <1>2, <1>3, <2>2
  <2>4. \A new : Logged(d, new) => new \in Trail(d)'
    BY DEF Logged, Trail
  <2>5. WorkStatus[s] \in Trail(d)'
    <3>1. CASE pc[s] \in Started
      BY <1>1, <2>3, <3>1 DEF WorkIsAudited, Started
    <3>2. CASE Logged(d, WorkStatus[s])
      BY <2>4, <3>2
    <3>3. QED
      BY <1>3, <2>1, <2>3, <3>1, <3>2 DEF Reports
  <2>6. ASSUME pc'[s] \in {"record", "handoff"}
        PROVE  DoneStatus[s] \in Trail(d)'
    <3>1. CASE pc[s] = "record"
      BY <1>1, <2>3, <3>1 DEF WorkIsAudited
    <3>2. CASE Logged(d, DoneStatus[s])
      BY <2>4, <3>2
    <3>3. QED
      BY <2>1, <2>3, <2>6, <3>1, <3>2 DEF Reports
  <2>7. QED
    BY <2>5, <2>6
<1>4. CASE Still(s) /\ pc'[s] \in Started
  <2>1. pc'[s] = pc[s] /\ pc[s] # "idle"
    BY <1>4 DEF Still, Started
  <2>2. d = Doc(s) /\ d \in Docs /\ Trail(d) \subseteq Trail(d)'
    BY <1>2, <1>4, <2>1 DEF Still
  <2>3. QED
    BY <1>1, <1>4, <2>1, <2>2 DEF WorkIsAudited, Started
<1>5. CASE pc'[s] \notin Started
  BY <1>5 DEF Started
<1>6. QED
  BY <1>3, <1>4, <1>5, OthersStay DEF Takes, Dies, Started

\* A row of processed_messages is written when both events are.
LEMMA ProcessedIsAuditedNext ==
    ASSUME AllInv, [Next]_vars, WorkIsAudited, ProcessedIsAudited
    PROVE  ProcessedIsAudited'
<1> SUFFICES ASSUME NEW id \in processed', Watched(id.stage)', NEW d, d = id.doc
             PROVE  {WorkStatus[id.stage], DoneStatus[id.stage]}
                        \subseteq Trail(d)'
  BY DEF ProcessedIsAudited, Trail
<1>1. Watched(id.stage)
  BY WithoutBefore DEF Watched
<1>2. CASE id \in processed
  <2>1. d \in Docs
    BY <1>2, OrderTypes DEF MessageIds
  <2>2. QED
    BY <1>1, <1>2, <2>1, EventsGrow DEF ProcessedIsAudited
<1>3. CASE id \notin processed
  <2>1. PICK s \in Stages : pc[s] = "record" /\ held[s].id = id
    BY <1>3, StoreNext DEF StoreGrows
  <2>2. id.stage = s /\ d = Doc(s) /\ d \in Docs
    BY <2>1, BusyFacts DEF Doc
  <2>3. {WorkStatus[s], DoneStatus[s]} \subseteq Trail(d)
    BY <1>1, <2>1, <2>2 DEF WorkIsAudited
  <2>4. QED
    BY <2>2, <2>3, EventsGrow
<1>4. QED
  BY <1>2, <1>3

\* Only a stage itself gives a document one of the statuses of that stage.
LEMMA OwnStatusIsWritten ==
    ASSUME AllInv, [Next]_vars, NEW s \in Stages, NEW d \in Docs,
           status'[d] \in OwnStatuses(s), status'[d] # status[d]
    PROVE  /\ pc[s] \in {"start", "complete"} /\ pc'[s] # pc[s]
           /\ Doc(s) = d
<1>1. status \in [Docs -> Statuses]
  BY OrderTypes
<1>2. ASSUME NEW c \in Docs, Creates(c)
      PROVE  FALSE
  <2>1. status'[d] = "uploaded"
    BY <1>1, <1>2 DEF Creates
  <2>2. QED
    BY <2>1 DEF OwnStatuses, WorkStatus, DoneStatus, Stages
<1>3. PICK t \in Stages, new \in Statuses : Updates(t, new)
  BY <1>2, RowsNext DEF RowsMove
<1>4. Doc(t) = d /\ new = status'[d]
  BY <1>1, <1>3 DEF Updates
<1>5. t = s
  BY <1>3, <1>4 DEF Updates, Writes, OwnStatuses, WorkStatus, DoneStatus, Stages,
                    Terminal
<1>6. pc[s] \in {"start", "complete"}
  BY <1>3, <1>4, <1>5
     DEF Updates, Writes, OwnStatuses, WorkStatus, DoneStatus, Stages, Terminal
<1>7. QED
  BY <1>3, <1>4, <1>5, <1>6 DEF Updates

\* The status a stage left behind when it comes to its acknowledgement, or a
\* copy of the message.
LEMMA AckIsAuditedNext ==
    ASSUME AllInv, [Next]_vars, WorkIsAudited, AckIsAudited, ProcessedIsAudited
    PROVE  AckIsAudited'
<1> SUFFICES ASSUME NEW s \in Stages, pc'[s] = "ack", linked'[s], Watched(s)',
                    NEW d, d = Doc(s)'
             PROVE  \/ \E m \in Messages : m.id = held'[s].id /\ InQueue(m)'
                    \/ status'[d] \in OwnStatuses(s) => status'[d] \in Trail(d)'
  BY DEF AckIsAudited, Trail, Doc, OwnStatuses, WorkStatus, DoneStatus, Terminal
<1>1. Watched(s)
  BY WithoutBefore DEF Watched
<1>2. CASE HandleStep(s)
  <2>1. Reports(s)
    BY <1>2, ReportsOcr, ReportsChunk, ReportsEmbed DEF HandleStep
  <2>2. /\ pc[s] # "idle" /\ held'[s] = held[s] /\ d = Doc(s) /\ d \in Docs
        /\ held[s].id.stage = s /\ held[s].id.doc = d
    BY <2>1, BusyFacts DEF Reports, Doc
  <2>3. Trail(d) \subseteq Trail(d)'
    BY <2>2, EventsGrow
  <2>4. CASE status'[d] \in Terminal
    BY <2>4 DEF OwnStatuses
  <2>5. CASE UNCHANGED status /\ held[s].id \in processed
    <3>1. {WorkStatus[s], DoneStatus[s]} \subseteq Trail(d)
      BY <1>1, <2>2, <2>5 DEF ProcessedIsAudited
    <3>2. QED
      BY <2>3, <3>1 DEF OwnStatuses
  <2>6. CASE UNCHANGED status /\ pc[s] \in {"record", "handoff"}
    <3>1. WorkStatus[s] \in Trail(d) /\ DoneStatus[s] \in Trail(d)
      BY <1>1, <2>2, <2>6 DEF WorkIsAudited
    <3>2. QED
      BY <2>3, <3>1 DEF OwnStatuses
  <2>7. QED
    BY <2>1, <2>2, <2>4, <2>5, <2>6 DEF Reports
<1>3. CASE pc'[s] = pc[s] /\ held'[s] = held[s] /\ linked[s]
  <2>1. d = Doc(s) /\ d \in Docs /\ held[s].id.stage = s
    BY <1>3, BusyFacts DEF Doc
  <2>2. \/ \E m \in Messages : m.id = held[s].id /\ InQueue(m)
        \/ status[d] \in OwnStatuses(s) => status[d] \in Trail(d)
    BY <1>1, <1>3, <2>1 DEF AckIsAudited
  <2>3. ASSUME NEW m \in Messages, m.id = held[s].id, InQueue(m)
        PROVE  InQueue(m)'
    BY <1>3, <2>1, <2>3, FlowNext DEF Flow, CopiesStay
  <2>4. ASSUME status'[d] \in OwnStatuses(s)
        PROVE  status'[d] = status[d]
    BY <1>3, <2>1, <2>4, OwnStatusIsWritten
  <2>5. Trail(d) \subseteq Trail(d)'
    BY <2>1, EventsGrow
  <2>6. QED
    BY <1>3, <2>2, <2>3, <2>4, <2>5
<1>4. QED
  BY <1>2, <1>3, OtherStep DEF Undisturbed

\* While the trail lacks a status of a stage, a message of that stage is still
\* with the broker.
LEMMA AuditGapsArePendingNext ==
    ASSUME AllInv, [Next]_vars, UnlinkedIsQueued, AckIsAudited,
           AuditGapsArePending
    PROVE  AuditGapsArePending'
<1> SUFFICES ASSUME NEW s \in Stages, NEW d \in Docs, Watched(s)',
                    status'[d] \in OwnStatuses(s), status'[d] \notin Trail(d)'
             PROVE  \E id \in sent' : id.stage = s /\ id.doc = d /\ Unsettled(id)'
  BY DEF AuditGapsArePending, OwnStatuses, WorkStatus, DoneStatus, Terminal
<1>1. /\ Watched(s)
      /\ Trail(d) \subseteq Trail(d)'
      /\ sent \subseteq sent' /\ sent \subseteq MessageIds
  BY WithoutBefore, EventsGrow, OrderTypes, FlowNext
     DEF Watched, Flow, SentGrows
<1>2. CASE status'[d] = status[d]
  <2>1. PICK id \in sent : id.stage = s /\ id.doc = d /\ Unsettled(id)
    BY <1>1, <1>2 DEF AuditGapsArePending
  <2>2. CASE Unsettled(id)'
    BY <1>1, <2>1, <2>2
  <2>3. ASSUME NEW t \in Stages, pc[t] = "ack", linked[t], held[t].id = id,
               UNCHANGED <<mainq, retryq, dlq>>
        PROVE  Unsettled(id)'
    <3>1. t = s /\ Doc(t) = d
      BY <2>1, <2>3, BusyFacts DEF Doc
    <3>2. PICK m \in Messages : m.id = id /\ InQueue(m)
      BY <1>1, <1>2, <2>3, <3>1 DEF AckIsAudited
    <3>3. QED
      BY <2>3, <3>2 DEF Unsettled, InQueue
  <2>4. QED
    BY <1>1, <2>1, <2>2, <2>3, FlowNext DEF Flow, CopiesStay
<1>3. CASE status'[d] # status[d]
  <2>1. pc[s] \in {"start", "complete"} /\ Doc(s) = d
    BY <1>3, OwnStatusIsWritten
  <2>2. PICK id \in sent : id = held[s].id
    BY <2>1, BusyFacts
  <2>3. /\ id \in MessageIds /\ id.stage = s /\ id.doc = d
        /\ Unsettled(id)
    BY <2>1, <2>2, BusyFacts, HeldIsUnsettled DEF Doc
  <2>4. ASSUME NEW t \in Stages, pc[t] = "ack", held[t].id = id
        PROVE  FALSE
    BY <2>1, <2>3, <2>4, BusyFacts
  <2>5. Unsettled(id)'
    BY <2>3, <2>4, FlowNext DEF Flow, CopiesStay
  <2>6. QED
    BY <1>1, <2>3, <2>5
<1>4. QED
  BY <1>2, <1>3

-----------------------------------------------------------------------------
(* The invariant, and what follows from it.                                *)

AuditedInv == HandoverInv /\ AuditInv

\* There is no row and no event at the beginning.
LEMMA AuditedInit ==
    ASSUME Init
    PROVE  AuditedInv
<1>1. /\ \A d \in Docs : status[d] = "absent" /\ events[d] = {}
      /\ \A s \in Stages : pc[s] = "idle"
  BY DEF Init, StoreInit, ConsumerInit
<1>2. AuditInv
  BY <1>1
     DEF AuditInv, TrailIsClosed, TrailIsCurrent, TrailIsSeen, TrailIsStarted,
         Trail, AfterStart
<1>3. QED
  BY <1>2, HandoverInit DEF AuditedInv

\* Every step preserves the invariant.
LEMMA AuditedInvNext ==
    ASSUME AuditedInv, [Next]_vars
    PROVE  AuditedInv'
<1>1. HandoverInv /\ HandoverInv'
  BY HandoverNext DEF AuditedInv
<1>2. ASSUME Tidy'
      PROVE  (TrailIsClosed /\ TrailIsCurrent /\ TrailIsSeen /\ TrailIsStarted)'
  <2>1. Tidy /\ NoRework
    BY <1>2, WithoutBefore DEF Tidy, NoRework, Without
  <2>2. /\ FullInv /\ AllInv /\ Owner /\ OcrPlace
        /\ TrailIsClosed /\ TrailIsCurrent /\ TrailIsSeen /\ TrailIsStarted
    BY <1>1, <2>1
       DEF AuditedInv, AuditInv, HandoverInv, FullInv, OrderInv, StageInv,
           OwnerInv, Owner
  <2>3. QED
    BY <1>2, <2>2, TrailIsClosedNext, TrailIsCurrentNext, TrailIsSeenNext,
       TrailIsStartedNext
<1>3. QED
  BY <1>1, <1>2 DEF AuditedInv, AuditInv

\* The trail is closed and current, and every stage knows what is on it, until
\* a process dies or a statement fails.
THEOREM TrailIsKept == Spec => []AuditInv
<1>1. AuditedInv => AuditInv
  BY DEF AuditedInv
<1>2. QED
  BY <1>1, AuditedInit, AuditedInvNext, PTL DEF Spec

\* processing_events leads from the creation of a document to its status, one
\* recorded transition after the other, until a process dies or a statement
\* fails.
THEOREM TrailExplainsStatus == Spec => []AuditExplainsStatus
<1>1. AuditedInv => AuditExplainsStatus
  <2> SUFFICES ASSUME AuditInv, Tidy, NEW d \in Docs
               PROVE  /\ \A e \in events[d] : e.from \in Trail(d)
                      /\ ~Busy(d) => status[d] \in Trail(d)
    BY DEF AuditedInv, AuditExplainsStatus, Tidy, Trail
  <2>1. TrailIsClosed /\ TrailIsCurrent
    BY DEF AuditInv
  <2>2. QED
    BY <2>1 DEF TrailIsClosed, TrailIsCurrent, Busy, Stages
<1>2. QED
  BY <1>1, AuditedInit, AuditedInvNext, PTL DEF Spec

\* What the gaps are an invariant of: GapInv, besides the types and SafetyInv.
GapsInv == AllInv /\ GapInv

\* There is no row, no event and no worker with a delivery at the beginning.
LEMMA GapsInit ==
    ASSUME Init
    PROVE  GapsInv
<1>1. /\ \A d \in Docs : status[d] = "absent"
      /\ \A s \in Stages : pc[s] = "idle"
      /\ processed = {}
  BY DEF Init, StoreInit, ConsumerInit
<1>2. \A s \in Stages : "absent" \notin OwnStatuses(s)
  BY DEF OwnStatuses, WorkStatus, DoneStatus, Stages
<1>3. GapInv
  BY <1>1, <1>2
     DEF GapInv, WorkIsAudited, UnlinkedIsQueued, AckIsAudited,
         ProcessedIsAudited, AuditGapsArePending
<1>4. QED
  BY <1>3, SafetyInit DEF GapsInv

\* Every step preserves the invariant.
LEMMA GapsNext ==
    ASSUME GapsInv, [Next]_vars
    PROVE  GapsInv'
<1>1. AllInv'
  BY SafetyNext DEF GapsInv
<1>2. WorkIsAudited' /\ UnlinkedIsQueued' /\ ProcessedIsAudited'
  BY WorkIsAuditedNext, UnlinkedIsQueuedNext, ProcessedIsAuditedNext
     DEF GapsInv, GapInv
<1>3. AckIsAudited' /\ AuditGapsArePending'
  BY AckIsAuditedNext, AuditGapsArePendingNext DEF GapsInv, GapInv
<1>4. QED
  BY <1>1, <1>2, <1>3 DEF GapsInv, GapInv

\* What the trail may lack, and for how long, under every disturbance: each
\* call of each worker knows what is recorded, and no acknowledgement gives up
\* the message that would still record it.
THEOREM GapsAreBounded == Spec => []GapInv
<1>1. GapsInv => GapInv
  BY DEF GapsInv
<1>2. QED
  BY <1>1, GapsInit, GapsNext, PTL DEF Spec

\* A processed_messages row proves that both events of the stage are recorded,
\* whatever crashed or failed before it was written.
THEOREM ProcessedProvesAudit == Spec => []ProcessedIsAudited
<1>1. GapInv => ProcessedIsAudited
  BY DEF GapInv
<1>2. QED
  BY <1>1, GapsAreBounded, PTL

\* As long as the status of an unfinished document is not on its trail, a
\* message of the stage that wrote it is still with the broker.
THEOREM GapsArePending == Spec => []AuditGapsArePending
<1>1. GapInv => AuditGapsArePending
  BY DEF GapInv
<1>2. QED
  BY <1>1, GapsAreBounded, PTL

=============================================================================
