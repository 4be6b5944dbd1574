---------------------------- MODULE PipelineOrder ----------------------------
(***************************************************************************)
(* The order in which the stages own a document, as inductive invariants:  *)
(* OCR until the chunk message is out, the chunker until the embed message *)
(* is, the embedder from then on.  What holds under every disturbance is   *)
(* StageInv; the rest holds until some kinds of disturbance have happened, *)
(* and its parts say which.                                                *)
(***************************************************************************)
EXTENDS PipelineInv

EmbedSent(d) == \E id \in sent : id.stage = "embed" /\ id.doc = d

\* From its fetch to its hand-off the chunker relies on the document.
ChunkerOwns == {"fetch", "start", "startEvent", "write", "complete",
                "completeEvent", "record", "handoff"}

-----------------------------------------------------------------------------
(* Under every disturbance.                                                *)

\* A status of a later stage follows the message of that stage.
StatusFollowsMessage ==
    \A d \in Docs :
        /\ status[d] \in {"chunking", "chunked", "embedding", "embedded"} =>
               ChunkId(d) \in sent
        /\ status[d] \in {"embedding", "embedded"} => EmbedSent(d)

\* Dead letters and recorded messages were published.
DeadIsSent == \A m \in Messages : dlq[m] > 0 => m.id \in sent
RecordedIsSent == processed \subseteq sent

\* Nobody but OCR writes the status of a document OCR works on.
OcrPlace ==
    /\ pc["ocr"] \in {"startEvent", "work", "complete", "fail"} =>
           status[Doc("ocr")] = "ocr_processing"
    /\ pc["ocr"] \in {"completeEvent", "record", "handoff"} =>
           status[Doc("ocr")] = "ocr_completed"

\* Until it writes processed_messages, the chunker works on a message nobody
\* recorded.
ChunkIsFresh ==
    pc["chunk"] \in ChunkerOwns \ {"handoff"} =>
        held["chunk"].id \notin processed

StageInv ==
    /\ StatusFollowsMessage
    /\ DeadIsSent /\ RecordedIsSent
    /\ OcrPlace /\ ChunkIsFresh

-----------------------------------------------------------------------------
(* While no process died and no channel closed: one copy of each message.  *)

Steady == Without({"crash", "disconnect"})

Connected == \A s \in Stages : linked[s]

OneCopy ==
    /\ \A m \in Messages : mainq[m] + retryq[m] + dlq[m] <= 1
    /\ \A m, n \in Messages : m.id = n.id /\ InQueue(m) /\ InQueue(n) => m = n

\* A delivery that is being worked on has no copy besides.
TakenIsGone ==
    \A s \in Stages : pc[s] \notin {"idle", "ack"} =>
        \A m \in Messages : InQueue(m) => m.id # held[s].id

\* The last delivery of the message is over, or needs only to be acknowledged.
Spent(id) ==
    /\ \A m \in Messages : InQueue(m) => m.id # id
    /\ \A s \in Stages : pc[s] # "idle" /\ held[s].id = id => pc[s] = "ack"

ChunkIsSpent == \A d \in Docs : EmbedSent(d) => Spent(ChunkId(d))

SteadyInv == Steady => Connected /\ OneCopy /\ TakenIsGone /\ ChunkIsSpent

-----------------------------------------------------------------------------
(* While every statement is applied: a hand-off is recorded.               *)

RecordedInv ==
    Without({"error"}) =>
        /\ pc["chunk"] = "handoff" => held["chunk"].id \in processed
        /\ \A d \in Docs : EmbedSent(d) => ChunkId(d) \in processed

-----------------------------------------------------------------------------
(* While either of the two holds: nobody works on a document it handed on. *)

ChunkPrecedesEmbed ==
    pc["chunk"] \in ChunkerOwns => ~EmbedSent(Doc("chunk"))

ChunkPlace ==
    /\ pc["chunk"] \in {"startEvent", "write", "complete"} =>
           status[Doc("chunk")] = "chunking"
    /\ pc["chunk"] \in {"completeEvent", "record", "handoff"} =>
           status[Doc("chunk")] = "chunked"

EmbedPlace ==
    /\ \A d \in Docs : EmbedSent(d) =>
           status[d] \in {"chunked", "embedding", "embedded"}
    /\ pc["embed"] = "start" => status[Doc("embed")] # "embedded"
    /\ pc["embed"] \in {"startEvent", "work", "write", "complete"} =>
           status[Doc("embed")] = "embedding"
    /\ pc["embed"] \in {"completeEvent", "record"} =>
           status[Doc("embed")] = "embedded"

\* The rows the embedder read are the rows it writes.
EmbedRows ==
    /\ pc["embed"] = "write" => batch["embed"] = chunks[Doc("embed")].gen
    /\ pc["embed"] \in {"complete", "completeEvent", "record"} =>
           chunks[Doc("embed")].embedded
    /\ \A d \in Docs : status[d] = "embedded" => chunks[d].embedded

OwnerInv ==
    NoRework => ChunkPrecedesEmbed /\ ChunkPlace /\ EmbedPlace /\ EmbedRows

\* Inductive together with the types, SafetyInv and DeliveryInv.
OrderInv == StageInv /\ SteadyInv /\ RecordedInv /\ OwnerInv

-----------------------------------------------------------------------------
(* While in addition no commit looked like a failure: what is recorded as  *)
(* processed is never delivered again, and somebody carries each document. *)

Gentle == Without({"crash", "disconnect", "lost"})

RecordedIsSpent ==
    \A id \in processed :
        /\ \A m \in Messages : InQueue(m) => m.id # id
        /\ \A s \in Stages : pc[s] # "idle" /\ held[s].id = id =>
               pc[s] \in {"handoff", "ack"}

\* Unlike Busy, without a worker that only has to acknowledge: two of these
\* could lean on each other.
Working(d) == \E s \in Stages : pc[s] \notin {"idle", "ack"} /\ Doc(s) = d

Carried ==
    \A d \in Docs : upload[d] = "published" =>
        Working(d) \/ Queued(d) \/ status[d] \in Terminal

CarryInv == Gentle => RecordedIsSpent /\ Carried

-----------------------------------------------------------------------------
(* While every call returns what it did: the audit trail.                  *)

Tidy == Without({"crash", "error", "lost"})

TrailIsClosed == \A d \in Docs : \A e \in events[d] : e.from \in Trail(d)

\* The status is on the trail unless its event is the next call of a worker.
TrailIsCurrent ==
    \A d \in Docs :
        \/ status[d] \in Trail(d)
        \/ \E s \in Stages : /\ pc[s] \in {"startEvent", "completeEvent"}
                             /\ Doc(s) = d
        \/ pc["ocr"] = "failEvent" /\ Doc("ocr") = d

TrailIsSeen ==
    \A s \in Stages : pc[s] \in {"start", "startEvent"} =>
        seen[s] \in Trail(Doc(s))

\* The calls a worker makes when the event of its start is recorded.
AfterStart == {"work", "write", "complete", "completeEvent", "fail",
               "failEvent", "transientEvent"}

TrailIsStarted ==
    \A s \in Stages : pc[s] \in AfterStart => WorkStatus[s] \in Trail(Doc(s))

AuditInv ==
    Tidy => TrailIsClosed /\ TrailIsCurrent /\ TrailIsSeen /\ TrailIsStarted

-----------------------------------------------------------------------------
(* Under every disturbance: what the trail may lack, and for how long.     *)

\* Whoever passed an event has recorded it.
WorkIsAudited ==
    \A s \in Stages : Watched(s) =>
        /\ pc[s] \in {"work", "write", "complete", "completeEvent", "record",
                     "handoff"} => WorkStatus[s] \in Trail(Doc(s))
        /\ pc[s] \in {"record", "handoff"} => DoneStatus[s] \in Trail(Doc(s))

\* A copy of the message a worker without a channel holds is queued.
UnlinkedIsQueued ==
    \A s \in Stages : pc[s] # "idle" /\ ~linked[s] =>
        \E m \in Messages : m.id = held[s].id /\ InQueue(m)

\* A message about to be acknowledged leaves no gap behind: a copy of it is
\* queued, or the status its stage gave the document is on the trail.
AckIsAudited ==
    \A s \in Stages : pc[s] = "ack" /\ linked[s] /\ Watched(s) =>
        \/ \E m \in Messages : m.id = held[s].id /\ InQueue(m)
        \/ status[Doc(s)] \in OwnStatuses(s) => status[Doc(s)] \in Trail(Doc(s))

GapInv ==
    /\ WorkIsAudited /\ UnlinkedIsQueued /\ AckIsAudited
    /\ ProcessedIsAudited /\ AuditGapsArePending

=============================================================================
