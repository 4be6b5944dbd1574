--------------------------- MODULE EmbedderWorker ---------------------------
(***************************************************************************)
(* workers/embedder: handle() of worker.py, one action per database call,  *)
(* inside on_message() of consumer.py.  Nothing in its try block raises a  *)
(* PermanentError, so the embedder never marks a document failed.          *)
(***************************************************************************)
EXTENDS Consumer

EmbedUpdateDocument(new, stamps, o) ==
    /\ UpdateStatus(Doc("embed"), new, stamps, o)
    /\ UNCHANGED <<chunks, events, processed>>

EmbedRecordEvent(from, to, o) ==
    /\ RecordEvent(Doc("embed"), from, to, o)
    /\ UNCHANGED <<status, stamped, chunks, processed>>

EmbedRecordProcessed(o) ==
    /\ RecordProcessed(held["embed"].id, o)
    /\ UNCHANGED <<status, stamped, chunks, events>>

-----------------------------------------------------------------------------

EmbedCheck(o) == CheckProcessed("embed", o, "nack")

\* Mutant of EmbedFetch: an embedded document is not terminal.
EmbedFetchRepeats(o) ==
    FetchDocument("embed", o, status[Doc("embed")] = "failed", "nack")

\* Mutant of EmbedFetch: a document being embedded is skipped as well.
EmbedFetchSkipsEmbedding(o) ==
    FetchDocument("embed", o,
                  status[Doc("embed")] \in Terminal \cup {"embedding"}, "nack")

EmbedFetch(o) ==
    FetchDocument("embed", o, status[Doc("embed")] \in Terminal, "nack")

EmbedStart(o) ==
    /\ Write("embed", "start", o, "startEvent", "transientEvent")
    /\ EmbedUpdateDocument("embedding", {}, o)

EmbedStartEvent(o) ==
    /\ Write("embed", "startEvent", o, "work", "transientEvent")
    /\ EmbedRecordEvent(seen["embed"], "embedding", o)

\* fetch_chunks_without_embedding: nothing left to embed skips the write.
EmbedReadChunks(o) ==
    LET rows == PendingChunks(Doc("embed")) IN
    /\ Read("embed", "work", o, IF rows = 0 THEN "complete" ELSE "write",
            "transientEvent")
    /\ batch' = IF o = "ok" THEN [batch EXCEPT !["embed"] = rows] ELSE batch
    /\ UNCHANGED seen

\* Mutant of EmbedBatchFails: the exception is swallowed.
EmbedBatchFailsSilently ==
    /\ pc["embed"] = "write"
    /\ Disturb("handler")
    /\ Goto("embed", "complete")
    /\ UNCHANGED <<brokerVars, storeVars, jobVars, linked, failures>>

\* embed_batch raises: the model cannot be loaded or run.
EmbedBatchFails ==
    /\ pc["embed"] = "write"
    /\ Disturb("handler")
    /\ Goto("embed", "transientEvent")
    /\ UNCHANGED <<brokerVars, storeVars, jobVars, linked, failures>>

\* Mutant of EmbedWrite: an error of the UPDATE is ignored.
EmbedWriteUnchecked(o) ==
    /\ Write("embed", "write", o, "complete", "complete")
    /\ WriteEmbeddings(Doc("embed"), batch["embed"], o)
    /\ UNCHANGED <<status, stamped, events, processed>>

EmbedWrite(o) ==
    /\ Write("embed", "write", o, "complete", "transientEvent")
    /\ WriteEmbeddings(Doc("embed"), batch["embed"], o)
    /\ UNCHANGED <<status, stamped, events, processed>>

EmbedComplete(o) ==
    /\ Write("embed", "complete", o, "completeEvent", "transientEvent")
    /\ EmbedUpdateDocument("embedded", {"embed"}, o)

EmbedCompleteEvent(o) ==
    /\ Write("embed", "completeEvent", o, "record", "transientEvent")
    /\ EmbedRecordEvent("embedding", "embedded", o)

EmbedRecord(o) ==
    /\ Write("embed", "record", o, "ack", "transientEvent")
    /\ EmbedRecordProcessed(o)

EmbedTransientEvent(o) ==
    /\ Write("embed", "transientEvent", o, "retry", "nack")
    /\ EmbedRecordEvent("embedding", "embedding", o)

EmbedRetry == RetryOrDeadLetter("embed")
EmbedNack == Nack("embed")
EmbedAck == Ack("embed")

EmbedHandle ==
    \/ \E o \in Outcomes :
          \/ EmbedCheck(o) \/ EmbedFetch(o)
          \/ EmbedStart(o) \/ EmbedStartEvent(o)
          \/ EmbedReadChunks(o) \/ EmbedWrite(o)
          \/ EmbedComplete(o) \/ EmbedCompleteEvent(o) \/ EmbedRecord(o)
          \/ EmbedTransientEvent(o)
    \/ EmbedBatchFails
    \/ EmbedRetry \/ EmbedNack \/ EmbedAck

=============================================================================
