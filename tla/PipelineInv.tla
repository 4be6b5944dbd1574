----------------------------- MODULE PipelineInv -----------------------------
(***************************************************************************)
(* The inductive invariant behind the safety properties of the pipeline:   *)
(* what is true of the messages and of each worker at each of its calls.   *)
(* Its parts lean on each other, so they are proved together.              *)
(***************************************************************************)
EXTENDS Pipeline

\* The statuses of a document that was not handed to the chunker.
Early == {"absent", "uploaded", "ocr_processing", "failed"}

\* A copy of m is ready, waits for its TTL, or is being handled.
Live(m) ==
    \/ mainq[m] > 0
    \/ retryq[m] > 0
    \/ \E s \in Stages : pc[s] # "idle" /\ held[s] = m

-----------------------------------------------------------------------------
(* Messages.                                                               *)

\* Every live message was published, and for an upload that was accepted.
LiveIsSent == \A m \in Messages : Live(m) => m.id \in sent
SentIsUploaded == \A id \in sent : upload[id.doc] = "published"

\* The attempt a message carries is paid for with failed executions.
AttemptsPaid ==
    \A m \in Messages : Live(m) => failures[m.id] >= m.attempt - 1

\* A chunk message follows a recorded OCR; an embed message follows a chunk
\* message and finds raw_text and chunks.
ChunkIsHandedOver ==
    \A d \in Docs : ChunkId(d) \in sent =>
        OcrId(d) \in processed /\ status[d] \notin Early
EmbedIsReady ==
    \A id \in sent : id.stage = "embed" =>
        /\ ChunkId(id.doc) \in sent
        /\ {"ocr", "chunk"} \subseteq stamped[id.doc]
        /\ chunks[id.doc].gen > 0

\* A document has a row once its upload is committed, and not before.
RowFollowsUpload ==
    \A d \in Docs : upload[d] \in {"none", "stored"} => status[d] = "absent"

EmbeddedIsStamped ==
    \A d \in Docs : status[d] = "embedded" => Stages \subseteq stamped[d]

-----------------------------------------------------------------------------
(* Workers.                                                                *)

OwnStage == \A s \in Stages : pc[s] # "idle" => held[s].id.stage = s

\* Until it writes processed_messages, OCR works on a message nobody recorded,
\* and on a document that has not failed.
OcrIsFresh ==
    pc["ocr"] \in {"fetch", "start", "startEvent", "work", "complete",
                   "completeEvent", "record", "fail", "failEvent"} =>
        held["ocr"].id \notin processed
OcrIsAlive ==
    pc["ocr"] \in {"start", "startEvent", "work", "complete", "fail"} =>
        status[Doc("ocr")] # "failed"
OcrIsDone ==
    pc["ocr"] \in {"completeEvent", "record", "handoff"} =>
        "ocr" \in stamped[Doc("ocr")] /\ status[Doc("ocr")] \notin Early
OcrIsRecorded == pc["ocr"] = "handoff" => held["ocr"].id \in processed
OcrHasFailed == pc["ocr"] = "failEvent" => status[Doc("ocr")] = "failed"

ChunkHasRows ==
    pc["chunk"] \in {"complete", "completeEvent", "record", "handoff"} =>
        chunks[Doc("chunk")].gen > 0
ChunkIsDone ==
    pc["chunk"] \in {"completeEvent", "record", "handoff"} =>
        "chunk" \in stamped[Doc("chunk")]

EmbedIsDone ==
    pc["embed"] \in {"completeEvent", "record"} =>
        "embed" \in stamped[Doc("embed")]

\* A message about to be acknowledged on an open channel does not need this
\* delivery any more: a copy is queued, or its stage is done with.
AckIsSafe ==
    \A s \in Stages : pc[s] = "ack" /\ linked[s] =>
        \/ \E m \in Messages : m.id = held[s].id /\ InQueue(m)
        \/ s \in stamped[Doc(s)]
        \/ status[Doc(s)] = "failed"

-----------------------------------------------------------------------------

MessageInv ==
    /\ LiveIsSent /\ SentIsUploaded /\ AttemptsPaid
    /\ ChunkIsHandedOver /\ EmbedIsReady
    /\ RowFollowsUpload /\ EmbeddedIsStamped

WorkerInv ==
    /\ OwnStage
    /\ OcrIsFresh /\ OcrIsAlive /\ OcrIsDone /\ OcrIsRecorded /\ OcrHasFailed
    /\ ChunkHasRows /\ ChunkIsDone /\ EmbedIsDone
    /\ AckIsSafe

\* The inductive invariant: with the types, all of the above and the
\* invariants it is there for.
SafetyInv ==
    /\ MessageInv
    /\ WorkerInv
    /\ ProcessedIsDone
    /\ DeadLetteredAfterRetries
    /\ NoMessageLost

-----------------------------------------------------------------------------
(* What the implementation of AtLeastOnce needs besides.                   *)

\* The ocr worker never comes to a hand-off it has made before.
HandoffIsFirst ==
    pc["ocr"] = "handoff" => ChunkId(Doc("ocr")) \notin sent

\* The next uuid is a new one.
UuidsAreMinted ==
    \A id \in sent : id.stage = "embed" => id.serial <= minted[id.doc]

\* An accepted upload has its file, a committed one also its row.
RowHasFile ==
    \A d \in Docs :
        /\ upload[d] = "stored" => objects[d] \in Contents
        /\ upload[d] \in {"committed", "published"} =>
               status[d] # "absent" /\ objects[d] \in Contents \ {"empty"}

\* Inductive together with the types and SafetyInv: no message is published
\* a second time as a new one, and uploads have their rows and files.
DeliveryInv ==
    /\ HandoffIsFirst
    /\ UuidsAreMinted
    /\ RowHasFile

=============================================================================
