------------------------------ MODULE Pipeline ------------------------------
(***************************************************************************)
(* The whole ingestion pipeline: the API and the three workers, composed   *)
(* over the broker and the store.                                          *)
(***************************************************************************)
EXTENDS Api, OcrWorker, ChunkerWorker, EmbedderWorker

vars == <<trouble, brokerVars, storeVars, consumerVars, apiVars>>

Init ==
    /\ trouble = [left |-> MaxDisturbances, met |-> {}]
    /\ BrokerInit
    /\ StoreInit
    /\ ConsumerInit
    /\ ApiInit

ApiStep == (\E d \in Docs : ApiHandle(d)) /\ UNCHANGED consumerVars

TtlStep == (\E m \in Messages : Expire(m))
           /\ UNCHANGED <<storeVars, consumerVars, apiVars>>

DeliverStep(s) == (\E m \in Messages : Deliver(s, m)) /\ UNCHANGED apiVars

HandleStep(s) ==
    /\ \/ s = "ocr" /\ OcrHandle
       \/ s = "chunk" /\ ChunkHandle
       \/ s = "embed" /\ EmbedHandle
    /\ UNCHANGED apiVars

DisruptStep(s) == (Crash(s) \/ Disconnect(s)) /\ UNCHANGED apiVars

ReconnectStep(s) == Reconnect(s) /\ UNCHANGED apiVars

Next ==
    \/ ApiStep
    \/ TtlStep
    \/ \E s \in Stages : \/ DeliverStep(s) \/ HandleStep(s)
                         \/ DisruptStep(s) \/ ReconnectStep(s)

Spec == Init /\ [][Next]_vars

(***************************************************************************)
(* Fairness.  Some message whose TTL is running expires, an idle worker    *)
(* takes some ready message of its queue, a busy one makes its next call,  *)
(* and one that lost its channel connects again.  No message has a         *)
(* fairness of its own, nothing is assumed of clients, operators or the    *)
(* API, and disturbances never have to happen.                             *)
(***************************************************************************)
Fairness ==
    /\ WF_vars(TtlStep)
    /\ \A s \in Stages : /\ WF_vars(DeliverStep(s))
                         /\ WF_vars(HandleStep(s))
                         /\ WF_vars(ReconnectStep(s))

FairSpec == Spec /\ Fairness

-----------------------------------------------------------------------------

\* The types of all variables.
TypeOK ==
    /\ trouble \in TroubleType
    /\ BrokerTypeOK
    /\ StoreTypeOK
    /\ ConsumerTypeOK
    /\ ApiTypeOK

Busy(d) == \E s \in Stages : pc[s] # "idle" /\ Doc(s) = d
Queued(d) == \E m \in Messages : m.id.doc = d /\ InQueue(m)
DeadLettered(id) == \E m \in Messages : m.id = id /\ dlq[m] > 0

\* Every copy of a message the broker is responsible for: in a queue, or
\* delivered and not yet acknowledged on an open channel.
Unsettled(id) ==
    \/ \E m \in Messages : m.id = id /\ InQueue(m)
    \/ \E s \in Stages : pc[s] # "idle" /\ linked[s] /\ held[s].id = id

\* The stage of a message has nothing left to do for it.
Done(id) == id.stage \in stamped[id.doc] \/ status[id.doc] = "failed"

\* The statuses the audit trail of a document has reached.
Trail(d) == {"absent"} \cup {e.to : e \in events[d]}

\* The status while a stage works and the one it leaves behind; those of them
\* a later execution of its message would write again.
WorkStatus ==
    [ocr |-> "ocr_processing", chunk |-> "chunking", embed |-> "embedding"]
DoneStatus ==
    [ocr |-> "ocr_completed", chunk |-> "chunked", embed |-> "embedded"]
OwnStatuses(s) == {WorkStatus[s], DoneStatus[s]} \ Terminal

\* None of these disturbances has happened yet.
Without(kinds) == trouble.met \cap kinds = {}

\* The chunker cannot have worked on a document it had handed over: that takes
\* a statement that was not applied (record_processed, whose error it ignores)
\* and a message that was delivered again.
NoRework == Without({"error"}) \/ Without({"crash", "disconnect"})

\* At-least-once: whatever crashes, channels or statements fail, a message
\* that was published stays with the broker (the dead-letter queue included)
\* until its stage has stamped its completion or the document has failed.
\* (on_message of consumer.py and handle of worker.go acknowledge a delivery
\* only after they have published its copy.)
NoMessageLost == \A id \in sent : Unsettled(id) \/ Done(id)

\* Every message finds the row and the file of its document.  The file is put
\* before the transaction commits the row, and the row is committed before the
\* message is published.  (CreateDocument of the API; no handler creates or
\* deletes a document.)
MessageFindsDocument ==
    \A id \in sent : /\ status[id.doc] # "absent"
                     /\ objects[id.doc] \in Contents \ {"empty"}

\* A processed_messages row is proof of work: the stage has stamped its
\* completion, and what it hands on is there (raw_text, chunks).
\* (record_processed comes after every other write of the three handlers.)
ProcessedIsDone ==
    \A id \in processed :
        /\ id.stage \in stamped[id.doc]
        /\ id.stage \in {"chunk", "embed"} =>
               "ocr" \in stamped[id.doc] /\ chunks[id.doc].gen > 0

\* OCR never touches a document it has handed over: the chunk message is
\* published only after the ocr message is recorded as processed, and from
\* then on the status never goes back to the ocr stage.
\* (handle of ocr/app/worker.py before on_message publishes the chunk message.)
HandedOverToChunker ==
    \A d \in Docs : ChunkId(d) \in sent =>
        /\ OcrId(d) \in processed
        /\ status[d] \notin {"uploaded", "ocr_processing", "failed"}

\* A message reaches a dead-letter queue only after MAX_RETRIES executions of
\* its handler have failed, however often it was redelivered.
\* (the attempt counter of on_message and handle.)
DeadLetteredAfterRetries ==
    \A m \in Messages : dlq[m] > 0 => failures[m.id] >= MaxRetries

\* A failed document stays failed: no message still under way revives it.
\* (the terminal check of the three handlers.)
FailedIsFinal ==
    [][\A d \in Docs : status[d] = "failed" => status'[d] = "failed"]_vars

\* An embedded document is never worked on again ("terminal success" in the
\* README's state machine), whatever is redelivered or whatever fails, as long
\* as the two do not come together.
EmbeddedIsFinal ==
    [][\A d \in Docs : NoRework' /\ status[d] = "embedded" =>
          status'[d] = "embedded"]_vars

\* A document that says embedded has chunks, and the current ones are all
\* embedded.  (the chunker replaces rows the embedder may have read already.)
EmbeddedIsComplete ==
    \A d \in Docs : status[d] = "embedded" =>
        chunks[d].gen > 0 /\ chunks[d].embedded

\* Two kinds of failure have to meet before an embedded document can lack
\* embeddings, so that the counterexample of stale_chunks is the only kind.
\* (RecordProcessed in process of worker.go is the only write whose failure
\* goes unnoticed and is needed later.)
CompleteUnlessReworked == NoRework => EmbeddedIsComplete

\* No document is stranded: one whose upload was accepted and published is
\* finished, or some worker or some queue still knows about it.
\* (already_processed suppresses the hand-off of a redelivered message.)
NoDocumentStranded ==
    \A d \in Docs : upload[d] = "published" =>
        Busy(d) \/ Queued(d) \/ status[d] \in Terminal

\* Statements and handlers that fail, retries and late messages strand nobody:
\* only a crash, a lost channel or a commit that looked like a failure can
\* separate processed_messages from the hand-off.
StrandedByLostHandoffOnly ==
    Without({"crash", "disconnect", "lost"}) => NoDocumentStranded

\* The audit trail explains the status: every recorded transition starts in
\* a state some recorded transition reached, and the status of a document
\* nobody works on is one the trail reached.  (update_document_status and
\* record_event commit separately, so this holds until a process dies or a
\* statement fails between them.)
AuditExplainsStatus ==
    Without({"crash", "error", "lost"}) =>
        \A d \in Docs :
            /\ \A e \in events[d] : e.from \in Trail(d)
            /\ ~Busy(d) => status[d] \in Trail(d)

\* A stage that records what it does to a document, whatever fails: OCR and
\* the embedder always, the chunker until one of its events is refused.
\* (the chunker ignores the error of RecordEvent.)
Watched(s) == s = "chunk" => Without({"error"})

\* A processed_messages row proves the audit as well as the work: both events
\* of the stage are on the trail, however many crashes, lost channels and
\* failed statements it took.  (record_processed comes after record_event, and
\* an error of record_event takes the retry path.)
ProcessedIsAudited ==
    \A id \in processed : Watched(id.stage) =>
        {WorkStatus[id.stage], DoneStatus[id.stage]} \subseteq Trail(id.doc)

\* A gap in the trail is temporary: while a document has a status of a stage
\* that its trail never reached, a message of that stage is still with the
\* broker (the dead-letter queue included), and handling it closes the gap.
\* (the worker dies, or a statement fails, between update_document_status and
\* record_event.  A terminal status is not a status of this kind: messages of
\* a document that has one are skipped, so its gap stays for ever.)
AuditGapsArePending ==
    \A s \in Stages, d \in Docs :
        Watched(s) /\ status[d] \in OwnStatuses(s) /\ status[d] \notin Trail(d) =>
            \E id \in sent : id.stage = s /\ id.doc = d /\ Unsettled(id)

\* What should become of a file that was uploaded: its text is embedded,
\* blank text fails the document, and a file OCR cannot read ends up in the
\* dead-letter queue.
Settled(d) ==
    \/ objects[d] = "text" /\ status[d] = "embedded"
    \/ objects[d] = "blank" /\ status[d] = "failed"
    \/ objects[d] = "corrupt" /\ DeadLettered(OcrId(d))

\* Every published upload settles: fewer failures than MAX_RETRIES cannot keep
\* a document from its end, and an unreadable file does not hold up the others.
\* (retries of the three workers and the delay queues.)
EveryUploadSettles ==
    \A d \in Docs : upload[d] = "published" ~> Settled(d)

\* Nothing circulates for ever: whatever fails, the work of a finite number of
\* uploads ends with empty main and delay queues and idle workers.
\* (the attempt counter, the dead-letter queues and the reconnect loop.)
QueuesDrain ==
    <>[](/\ \A m \in Messages : mainq[m] = 0 /\ retryq[m] = 0
         /\ \A s \in Stages : pc[s] = "idle")

L == INSTANCE Lifecycle

\* The pipeline implements the state machine document.rb declares with AASM,
\* although the workers write documents.status with plain UPDATE statements.
ImplementsLifecycle == L!Spec

A == INSTANCE AtLeastOnce WITH
        Ids     <- MessageIds,
        posted  <- sent,
        kept    <- {id \in sent : Unsettled(id)},
        settled <- {id \in MessageIds : Done(id)}

\* Queues, deliveries, retries, crashes and reconnections implement a set of
\* messages each of which is kept until it is settled.  (the order of database
\* commit, publication and acknowledgement in all three workers.)
ImplementsAtLeastOnce == A!Spec

-----------------------------------------------------------------------------
(* What the documents of the repository say and the code does not do.      *)

\* architecture.md: "The chunker refuses to operate on a document not in
\* `ocr_completed` (or `chunking`, for resumption)".
ChunkerGuardsState ==
    [][\A d \in Docs : status[d] # "chunking" /\ status'[d] = "chunking" =>
          status[d] = "ocr_completed"]_vars

\* README.md, state machine: a stage that failed N times leaves the document
\* in failed.
ExhaustedIsFailed ==
    \A m \in Messages : dlq[m] > 0 => status[m.id.doc] = "failed"

\* architecture.md: on a permanent failure the worker marks the document
\* failed and "sends the message to DLQ".
PermanentIsDeadLettered ==
    \A d \in Docs : status[d] = "failed" /\ ~Busy(d) => DeadLettered(OcrId(d))

\* README.md: "After `max_retries` failures it lands in `ingest.<stage>.dlq`".
DeadLetteredInTime ==
    \A id \in MessageIds : failures[id] >= MaxRetries => DeadLettered(id)

\* README.md: POST /retry will "re-enqueue failed document".
RetryReenqueues ==
    [][\A d \in Docs : status[d] = "failed" /\ reply'[d] # reply[d] =>
          \E m \in Messages : m.id.doc = d /\ mainq'[m] > mainq[m]]_vars

=============================================================================
