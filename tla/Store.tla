-------------------------------- MODULE Store --------------------------------
(***************************************************************************)
(* The MinIO bucket and the PostgreSQL tables the processes share, with    *)
(* the data-access functions of the workers.  Every function commits in a  *)
(* connection of its own, so each call is one atomic step, and no two      *)
(* calls are atomic together.                                              *)
(***************************************************************************)
EXTENDS Ingest

VARIABLES
    objects,   \* the bucket: the file stored for each document, or "none"
    status,    \* documents.status
    stamped,   \* the stages with a completion timestamp (raw_text comes with
               \* ocr_completed_at in one UPDATE)
    chunks,    \* document_chunks: the generation of the rows (0: none), and
               \* whether their embedding is set
    events,    \* processing_events, as the set of recorded transitions
    processed  \* processed_messages.message_id

storeVars == <<status, stamped, chunks, events, processed>>

Event == [from : Statuses, to : Statuses]

StoreTypeOK ==
    /\ status \in [Docs -> Statuses]
    /\ stamped \in [Docs -> SUBSET Stages]
    /\ chunks \in [Docs -> [gen : Nat, embedded : BOOLEAN]]
    /\ events \in [Docs -> SUBSET Event]
    /\ processed \subseteq MessageIds

StoreInit ==
    /\ status = [d \in Docs |-> "absent"]
    /\ stamped = [d \in Docs |-> {}]
    /\ chunks = [d \in Docs |-> [gen |-> 0, embedded |-> FALSE]]
    /\ events = [d \in Docs |-> {}]
    /\ processed = {}

(***************************************************************************)
(* The outcome of a call: "ok"; "error", rolled back; "lost", committed    *)
(* although the caller sees an exception (the connection broke during the  *)
(* commit).  A read cannot be lost.                                        *)
(***************************************************************************)
Outcomes == {"ok", "error", "lost"}
ReadOutcomes == {"ok", "error"}

Attempted(o) == IF o = "ok" THEN UNCHANGED trouble ELSE Disturb(o)
Applied(o) == o # "error"

\* UPDATE documents SET status = new and, on completion, a timestamp.
UpdateStatus(d, new, stamps, o) ==
    IF Applied(o)
    THEN /\ status' = [status EXCEPT ![d] = new]
         /\ stamped' = [stamped EXCEPT ![d] = @ \cup stamps]
    ELSE UNCHANGED <<status, stamped>>

RecordEvent(d, from, to, o) ==
    events' = IF Applied(o)
              THEN [events EXCEPT ![d] = @ \cup {[from |-> from, to |-> to]}]
              ELSE events

RecordProcessed(id, o) ==
    processed' = IF Applied(o) THEN processed \cup {id} ELSE processed

\* One transaction deletes the rows of the document and inserts new ones,
\* which have new ids and no embedding.
InsertChunks(d, o) ==
    chunks' = IF Applied(o)
              THEN [chunks EXCEPT ![d] = [gen |-> @.gen + 1, embedded |-> FALSE]]
              ELSE chunks

\* fetch_chunks_without_embedding: the generation of the rows, 0 for none.
PendingChunks(d) == IF chunks[d].embedded THEN 0 ELSE chunks[d].gen

\* UPDATE ... WHERE id = chunk id: no row matches once the chunker replaced
\* the rows that were read.
WriteEmbeddings(d, rows, o) ==
    chunks' = IF Applied(o) /\ chunks[d].gen = rows
              THEN [chunks EXCEPT ![d].embedded = TRUE]
              ELSE chunks

=============================================================================
