---------------------------- MODULE ChunkerWorker ----------------------------
(***************************************************************************)
(* workers/chunker: process() of worker.go, one action per database call,  *)
(* inside handle().  Errors of RecordEvent and RecordProcessed are         *)
(* ignored, every other error is retried.  chunk.Split is never empty for  *)
(* the text a stored raw_text holds: Go's unicode.IsSpace accepts a subset *)
(* of what str.strip() of the OCR worker removes.                          *)
(***************************************************************************)
EXTENDS Consumer

ChunkUpdateStatus(new, stamps, o) ==
    /\ UpdateStatus(Doc("chunk"), new, stamps, o)
    /\ UNCHANGED <<chunks, events, processed>>

ChunkRecordEvent(from, to, o) ==
    /\ RecordEvent(Doc("chunk"), from, to, o)
    /\ UNCHANGED <<status, stamped, chunks, processed>>

ChunkRecordProcessed(o) ==
    /\ RecordProcessed(held["chunk"].id, o)
    /\ UNCHANGED <<status, stamped, chunks, events>>

-----------------------------------------------------------------------------

ChunkCheck(o) == CheckProcessed("chunk", o, "retry")

\* A document in a terminal status is skipped; one without raw_text is a
\* permanent error, which is acknowledged without touching the document.
ChunkFetch(o) ==
    FetchDocument("chunk", o,
                  \/ status[Doc("chunk")] \in Terminal
                  \/ "ocr" \notin stamped[Doc("chunk")],
                  "retry")

ChunkStart(o) ==
    /\ Write("chunk", "start", o, "startEvent", "retry")
    /\ ChunkUpdateStatus("chunking", {}, o)

ChunkStartEvent(o) ==
    /\ Write("chunk", "startEvent", o, "write", "write")
    /\ ChunkRecordEvent(seen["chunk"], "chunking", o)

\* Mutant of ChunkInsert: its error is ignored like that of RecordEvent.
ChunkInsertUnchecked(o) ==
    /\ Write("chunk", "write", o, "complete", "complete")
    /\ InsertChunks(Doc("chunk"), o)
    /\ UNCHANGED <<status, stamped, events, processed>>

ChunkInsert(o) ==
    /\ Write("chunk", "write", o, "complete", "retry")
    /\ InsertChunks(Doc("chunk"), o)
    /\ UNCHANGED <<status, stamped, events, processed>>

ChunkComplete(o) ==
    /\ Write("chunk", "complete", o, "completeEvent", "retry")
    /\ ChunkUpdateStatus("chunked", {"chunk"}, o)

ChunkCompleteEvent(o) ==
    /\ Write("chunk", "completeEvent", o, "record", "record")
    /\ ChunkRecordEvent("chunking", "chunked", o)

\* Mutant of ChunkRecord: processed_messages is not written.
ChunkRecordDropped(o) ==
    /\ Write("chunk", "record", o, "handoff", "handoff")
    /\ UNCHANGED storeVars

ChunkRecord(o) ==
    /\ Write("chunk", "record", o, "handoff", "handoff")
    /\ ChunkRecordProcessed(o)

\* publishNext: a new uuid for every publication.
ChunkHandoff ==
    LET d == Doc("chunk") IN
    /\ pc["chunk"] = "handoff"
    /\ minted[d] < MaxSerial
    /\ minted' = [minted EXCEPT ![d] = @ + 1]
    /\ Handoff("chunk", FirstAttempt(EmbedId(d, minted[d] + 1)))

ChunkRetry == RetryOrDeadLetter("chunk")
ChunkAck == Ack("chunk")

ChunkHandle ==
    \/ \E o \in Outcomes :
          \/ ChunkCheck(o) \/ ChunkFetch(o)
          \/ ChunkStart(o) \/ ChunkStartEvent(o) \/ ChunkInsert(o)
          \/ ChunkComplete(o) \/ ChunkCompleteEvent(o) \/ ChunkRecord(o)
    \/ ChunkHandoff \/ ChunkRetry \/ ChunkAck

=============================================================================
