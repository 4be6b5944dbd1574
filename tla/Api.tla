--------------------------------- MODULE Api ---------------------------------
(***************************************************************************)
(* The Rails API: CreateDocument puts the file into MinIO, commits the     *)
(* documents row with its first event, and only then publishes the ocr     *)
(* message; RetryDocument is what POST /documents/:id/retry runs.          *)
(***************************************************************************)
EXTENDS Broker, Store

VARIABLES
    upload,   \* how far CreateDocument got
    reply     \* the answer to the last retry request for a document

apiVars == <<objects, upload, reply>>

ApiTypeOK ==
    /\ objects \in [Docs -> Contents \cup {"none"}]
    /\ upload \in [Docs -> {"none", "stored", "committed", "published",
                            "rejected", "aborted"}]
    /\ reply \in [Docs -> {"none", "unprocessable", "error"}]

ApiInit ==
    /\ objects = [d \in Docs |-> "none"]
    /\ upload = [d \in Docs |-> "none"]
    /\ reply = [d \in Docs |-> "none"]

Progress(d, from, to) ==
    /\ upload[d] = from
    /\ upload' = [upload EXCEPT ![d] = to]

PutUpload(d) ==
    /\ Progress(d, "none", "stored")
    /\ \E c \in Contents : objects' = [objects EXCEPT ![d] = c]
    /\ UNCHANGED <<brokerVars, storeVars, trouble, reply>>

\* Document.create! and record_event! in one transaction.
CommitDocument(d) ==
    /\ objects[d] # "empty"
    /\ Progress(d, "stored", "committed")
    /\ status' = [status EXCEPT ![d] = "uploaded"]
    /\ RecordEvent(d, "absent", "uploaded", "ok")
    /\ UNCHANGED <<brokerVars, stamped, chunks, processed, trouble,
                   objects, reply>>

\* byte_size fails validation: rolled back and answered 422, but the file
\* stays in the bucket.
RejectDocument(d) ==
    /\ objects[d] = "empty"
    /\ Progress(d, "stored", "rejected")
    /\ UNCHANGED <<brokerVars, storeVars, trouble, objects, reply>>

\* Mutant of EnqueueFirstStage: publishes inside the transaction.
EnqueueBeforeCommit(d) ==
    /\ Progress(d, "stored", "published")
    /\ Publish(FirstAttempt(OcrId(d)))
    /\ UNCHANGED <<retryq, dlq, minted, storeVars, trouble, objects, reply>>

EnqueueFirstStage(d) ==
    /\ Progress(d, "committed", "published")
    /\ Publish(FirstAttempt(OcrId(d)))
    /\ UNCHANGED <<retryq, dlq, minted, storeVars, trouble, objects, reply>>

\* The process dies, the insert fails, or Bunny cannot publish: the client
\* gets an error, nobody resumes the upload.
AbortUpload(d) ==
    /\ Disturb("api")
    /\ \/ Progress(d, "stored", "aborted")
       \/ Progress(d, "committed", "aborted")
    /\ UNCHANGED <<brokerVars, storeVars, objects, reply>>

(***************************************************************************)
(* RetryDocument passes actor: to record_event!, whose keywords are stage, *)
(* to_state, from_state, message and payload: an ArgumentError, which      *)
(* rolls the transaction back and leaves the publication unreached.  An    *)
(* embedded document has no stage to resume and is refused before that.    *)
(***************************************************************************)
ResumeStage(d) == status[d] \in Statuses \ {"absent", "embedded"}

RetryDocument(d) ==
    /\ status[d] # "absent"
    /\ Disturb("operator")
    /\ reply' = [reply EXCEPT ![d] = IF ResumeStage(d) THEN "error"
                                     ELSE "unprocessable"]
    /\ UNCHANGED <<brokerVars, storeVars, objects, upload>>

ApiHandle(d) ==
    \/ PutUpload(d) \/ CommitDocument(d) \/ RejectDocument(d)
    \/ EnqueueFirstStage(d) \/ AbortUpload(d) \/ RetryDocument(d)

=============================================================================
