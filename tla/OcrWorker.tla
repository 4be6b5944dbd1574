------------------------------ MODULE OcrWorker ------------------------------
(***************************************************************************)
(* workers/ocr: handle() of worker.py, one action per database call, inside *)
(* on_message() of consumer.py.  An exception before the try block is      *)
(* negatively acknowledged; one inside it is a transient failure.          *)
(***************************************************************************)
EXTENDS Consumer

OcrUpdateStatus(new, stamps, o) ==
    /\ UpdateStatus(Doc("ocr"), new, stamps, o)
    /\ UNCHANGED <<chunks, events, processed>>

OcrRecordEvent(from, to, o) ==
    /\ RecordEvent(Doc("ocr"), from, to, o)
    /\ UNCHANGED <<status, stamped, chunks, processed>>

OcrRecordProcessed(o) ==
    /\ RecordProcessed(held["ocr"].id, o)
    /\ UNCHANGED <<status, stamped, chunks, events>>

-----------------------------------------------------------------------------

\* Mutant of OcrCheck: does not ask already_processed.
OcrCheckSkipped(o) ==
    /\ Read("ocr", "check", o, "fetch", "nack")
    /\ UNCHANGED <<seen, batch>>

OcrCheck(o) == CheckProcessed("ocr", o, "nack")

\* Mutant of OcrFetch: a failed document is not terminal.
OcrFetchRevives(o) ==
    FetchDocument("ocr", o, status[Doc("ocr")] = "embedded", "nack")

\* Mutant of OcrFetch: a document whose OCR is complete is skipped as well.
OcrFetchSkipsCompleted(o) ==
    FetchDocument("ocr", o,
                  status[Doc("ocr")] \in Terminal \cup {"ocr_completed"}, "nack")

OcrFetch(o) ==
    FetchDocument("ocr", o, status[Doc("ocr")] \in Terminal, "nack")

OcrStart(o) ==
    /\ Write("ocr", "start", o, "startEvent", "transientEvent")
    /\ OcrUpdateStatus("ocr_processing", {}, o)

OcrStartEvent(o) ==
    /\ Write("ocr", "startEvent", o, "work", "transientEvent")
    /\ OcrRecordEvent(seen["ocr"], "ocr_processing", o)

\* download_object and extract_text: the file decides, unless MinIO or
\* tesseract fails for reasons of its own.
OcrExtract ==
    /\ pc["ocr"] = "work"
    /\ \/ /\ objects[Doc("ocr")] = "text"
          /\ Goto("ocr", "complete")
          /\ UNCHANGED trouble
       \/ /\ objects[Doc("ocr")] = "blank"
          /\ Goto("ocr", "fail")
          /\ UNCHANGED trouble
       \/ /\ objects[Doc("ocr")] = "corrupt"
          /\ Goto("ocr", "transientEvent")
          /\ UNCHANGED trouble
       \/ /\ Disturb("handler")
          /\ Goto("ocr", "transientEvent")
    /\ UNCHANGED <<brokerVars, storeVars, jobVars, linked, failures>>

\* Mutant of OcrComplete: a misspelt status, which no constraint refuses.
OcrCompleteMisspelt(o) ==
    /\ Write("ocr", "complete", o, "completeEvent", "transientEvent")
    /\ OcrUpdateStatus("ocr_complete", {"ocr"}, o)

\* Mutant of OcrComplete: the completion is not recorded as an event.
OcrCompleteSilent(o) ==
    /\ Write("ocr", "complete", o, "record", "transientEvent")
    /\ OcrUpdateStatus("ocr_completed", {"ocr"}, o)

OcrComplete(o) ==
    /\ Write("ocr", "complete", o, "completeEvent", "transientEvent")
    /\ OcrUpdateStatus("ocr_completed", {"ocr"}, o)

\* Mutant of OcrCompleteEvent: hands over without record_processed.
OcrCompleteEventUnrecorded(o) ==
    /\ Write("ocr", "completeEvent", o, "handoff", "transientEvent")
    /\ OcrRecordEvent("ocr_processing", "ocr_completed", o)

\* Mutant of OcrCompleteEvent: its error is ignored, as the chunker does.
OcrCompleteEventUnchecked(o) ==
    /\ Write("ocr", "completeEvent", o, "record", "record")
    /\ OcrRecordEvent("ocr_processing", "ocr_completed", o)

OcrCompleteEvent(o) ==
    /\ Write("ocr", "completeEvent", o, "record", "transientEvent")
    /\ OcrRecordEvent("ocr_processing", "ocr_completed", o)

OcrRecord(o) ==
    /\ Write("ocr", "record", o, "handoff", "transientEvent")
    /\ OcrRecordProcessed(o)

\* _publish_next: the id of the chunk message derives from the ocr message.
OcrHandoff ==
    /\ Handoff("ocr", FirstAttempt(ChunkId(Doc("ocr"))))
    /\ UNCHANGED minted

\* except PermanentError: a second exception in here is a plain one.
OcrFail(o) ==
    /\ Write("ocr", "fail", o, "failEvent", "nack")
    /\ OcrUpdateStatus("failed", {}, o)

OcrFailEvent(o) ==
    /\ Write("ocr", "failEvent", o, "ack", "nack")
    /\ OcrRecordEvent("ocr_processing", "failed", o)

\* except Exception
OcrTransientEvent(o) ==
    /\ Write("ocr", "transientEvent", o, "retry", "nack")
    /\ OcrRecordEvent("ocr_processing", "ocr_processing", o)

OcrRetry == RetryOrDeadLetter("ocr")
OcrNack == Nack("ocr")
OcrAck == Ack("ocr")

OcrHandle ==
    \/ \E o \in Outcomes :
          \/ OcrCheck(o) \/ OcrFetch(o)
          \/ OcrStart(o) \/ OcrStartEvent(o)
          \/ OcrComplete(o) \/ OcrCompleteEvent(o) \/ OcrRecord(o)
          \/ OcrFail(o) \/ OcrFailEvent(o) \/ OcrTransientEvent(o)
    \/ OcrExtract \/ OcrHandoff
    \/ OcrRetry \/ OcrNack \/ OcrAck

=============================================================================
