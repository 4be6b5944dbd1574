------------------------------- MODULE Ingest -------------------------------
(***************************************************************************)
(* The vocabulary of the ingestion pipeline: documents, stages, document   *)
(* statuses, the message envelope, and the disturbances the environment    *)
(* (processes, connections, PostgreSQL, MinIO, operators) may produce.     *)
(***************************************************************************)
EXTENDS Naturals

CONSTANTS
    Docs,             \* the documents clients may upload
    Contents,         \* the kinds of file they upload, a subset of FileKinds
    MaxRetries,       \* MAX_RETRIES of the three workers (default 5)
    MaxSerial,        \* bound: uuids the chunker may mint for one document
    Disturbances,     \* the kinds of disturbance that may happen
    MaxDisturbances,  \* bound: how many of them happen in one behaviour
    NoMessage         \* what an idle worker holds

Stages == {"ocr", "chunk", "embed"}

\* The statuses of document.rb; "absent" is a document without a row.
Statuses == {"absent", "uploaded", "ocr_processing", "ocr_completed",
             "chunking", "chunked", "embedding", "embedded", "failed"}

\* The statuses at which the three workers skip a message.
Terminal == {"embedded", "failed"}

(***************************************************************************)
(* What OCR makes of a file: some text, blank text (a PermanentError), an  *)
(* exception of pdf2image, Pillow or tesseract (not a PermanentError).  An *)
(* empty file has byte_size 0 and its row is refused.                      *)
(***************************************************************************)
FileKinds == {"text", "blank", "corrupt", "empty"}

(***************************************************************************)
(* crash: a worker process dies (SIGKILL, OOM).  disconnect: the broker    *)
(* drops the channel of a busy worker (missed heartbeats, broker restart). *)
(* error: a statement fails and is not applied.  lost: it is applied but   *)
(* the caller sees an exception.  handler: download, OCR or the embedding  *)
(* model raises.  api: the API process dies or its publish or insert       *)
(* fails.  operator: somebody calls POST /retry.                           *)
(***************************************************************************)
DisturbanceKinds ==
    {"crash", "disconnect", "error", "lost", "handler", "api", "operator"}

\* ocr: a ULID per document.  chunk: the ocr id with ':chunk' appended.
\* embed: a fresh uuid per publication, told apart by its serial number.
MessageIds ==
    [stage : {"ocr", "chunk"}, doc : Docs, serial : {0}]
        \cup [stage : {"embed"}, doc : Docs, serial : 1..MaxSerial]

OcrId(d) == [stage |-> "ocr", doc |-> d, serial |-> 0]
ChunkId(d) == [stage |-> "chunk", doc |-> d, serial |-> 0]
EmbedId(d, n) == [stage |-> "embed", doc |-> d, serial |-> n]

Messages == [id : MessageIds, attempt : 1..MaxRetries]

\* Every first publication of a message carries attempt 1.
FirstAttempt(id) == [id |-> id, attempt |-> 1]

ASSUME IngestAssumption ==
    /\ Contents \subseteq FileKinds
    /\ MaxRetries \in Nat \ {0}
    /\ MaxSerial \in Nat \ {0}
    /\ Disturbances \subseteq DisturbanceKinds
    /\ MaxDisturbances \in Nat
    /\ NoMessage \notin Messages

VARIABLE
    trouble  \* .left: disturbances still to come; .met, a history: their kinds

TroubleType == [left : 0..MaxDisturbances, met : SUBSET DisturbanceKinds]

Disturb(kind) ==
    /\ kind \in Disturbances
    /\ trouble.left > 0
    /\ trouble' = [left |-> trouble.left - 1, met |-> trouble.met \cup {kind}]

=============================================================================
