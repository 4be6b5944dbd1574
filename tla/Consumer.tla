------------------------------ MODULE Consumer ------------------------------
(***************************************************************************)
(* The consumer loop the workers share: one process per stage handles one  *)
(* delivery at a time (further prefetched deliveries are as good as        *)
(* queued).  A delivery is unacknowledged while its worker holds it and is *)
(* linked to the broker; when the worker dies or loses its channel the     *)
(* broker queues the message again.                                        *)
(***************************************************************************)
EXTENDS Broker, Store

VARIABLES
    pc,       \* the next call of each worker
    held,     \* the message it handles
    seen,     \* the status its fetch of the document returned
    batch,    \* the rows the embedder read
    linked,   \* whether its AMQP channel is open
    failures  \* history: handler executions of each id that failed

jobVars == <<held, seen, batch>>
consumerVars == <<pc, held, seen, batch, linked, failures>>

Labels == {"idle", "check", "fetch", "start", "startEvent", "work", "write",
           "complete", "completeEvent", "record", "handoff", "fail",
           "failEvent", "transientEvent", "retry", "nack", "ack"}

ConsumerTypeOK ==
    /\ pc \in [Stages -> Labels]
    /\ held \in [Stages -> Messages \cup {NoMessage}]
    /\ seen \in [Stages -> Statuses]
    /\ batch \in [Stages -> Nat]
    /\ linked \in [Stages -> BOOLEAN]
    /\ failures \in [MessageIds -> Nat]

ConsumerInit ==
    /\ pc = [s \in Stages |-> "idle"]
    /\ held = [s \in Stages |-> NoMessage]
    /\ seen = [s \in Stages |-> "absent"]
    /\ batch = [s \in Stages |-> 0]
    /\ linked = [s \in Stages |-> TRUE]
    /\ failures = [id \in MessageIds |-> 0]

Doc(s) == held[s].id.doc

Goto(s, label) == pc' = [pc EXCEPT ![s] = label]

\* The worker is done with its delivery and forgets it.
Finish(s) ==
    /\ Goto(s, "idle")
    /\ held' = [held EXCEPT ![s] = NoMessage]
    /\ seen' = [seen EXCEPT ![s] = "absent"]
    /\ batch' = [batch EXCEPT ![s] = 0]

Failed(id) == failures' = [failures EXCEPT ![id] = @ + 1]

\* Mutant of Requeue: deliveries are acknowledged when they are taken.
RequeueAutoAck(s) == UNCHANGED mainq

\* The broker counts an unacknowledged delivery as ready again.
Requeue(s) ==
    mainq' = IF linked[s] THEN Add(mainq, held[s]) ELSE mainq

-----------------------------------------------------------------------------

Deliver(s, m) ==
    /\ pc[s] = "idle"
    /\ linked[s]
    /\ m.id.stage = s
    /\ mainq[m] > 0
    /\ mainq' = Remove(mainq, m)
    /\ held' = [held EXCEPT ![s] = m]
    /\ Goto(s, "check")
    /\ UNCHANGED <<retryq, dlq, sent, minted, storeVars, trouble,
                   seen, batch, linked, failures>>

\* One call of the handler that reads the database.
Read(s, here, o, next, onError) ==
    /\ pc[s] = here
    /\ o \in ReadOutcomes
    /\ Attempted(o)
    /\ Goto(s, IF o = "ok" THEN next ELSE onError)
    /\ UNCHANGED <<brokerVars, storeVars, held, linked, failures>>

\* One call of the handler that writes the database; what it writes is added
\* where this is used.
Write(s, here, o, next, onError) ==
    /\ pc[s] = here
    /\ o \in Outcomes
    /\ Attempted(o)
    /\ Goto(s, IF o = "ok" THEN next ELSE onError)
    /\ UNCHANGED <<brokerVars, jobVars, linked, failures>>

\* already_processed
CheckProcessed(s, o, onError) ==
    /\ Read(s, "check", o,
            IF held[s].id \in processed THEN "ack" ELSE "fetch", onError)
    /\ UNCHANGED <<seen, batch>>

\* fetch_document, and the decision to skip a document in a terminal status.
FetchDocument(s, o, skip, onError) ==
    /\ Read(s, "fetch", o, IF skip THEN "ack" ELSE "start", onError)
    /\ seen' = IF o = "ok" THEN [seen EXCEPT ![s] = status[Doc(s)]] ELSE seen
    /\ UNCHANGED batch

\* Mutant of RetryOrDeadLetter: gives up one attempt early.
RetryOrDeadLetterEarly(s) ==
    LET m == held[s] IN
    /\ pc[s] = "retry"
    /\ IF m.attempt >= MaxRetries - 1
       THEN /\ dlq' = IF linked[s] THEN Add(dlq, m) ELSE dlq
            /\ UNCHANGED retryq
       ELSE /\ retryq' = IF linked[s]
                         THEN Add(retryq, [m EXCEPT !.attempt = @ + 1])
                         ELSE retryq
            /\ UNCHANGED dlq
    /\ Failed(m.id)
    /\ Goto(s, "ack")
    /\ UNCHANGED <<mainq, sent, minted, storeVars, jobVars, linked, trouble>>

\* A failed delivery: publish a copy with the next attempt to the delay queue,
\* or the delivery itself to the dead-letter queue after the last attempt.
\* A publication on a closed channel reaches nobody.
RetryOrDeadLetter(s) ==
    LET m == held[s] IN
    /\ pc[s] = "retry"
    /\ IF m.attempt >= MaxRetries
       THEN /\ dlq' = IF linked[s] THEN Add(dlq, m) ELSE dlq
            /\ UNCHANGED retryq
       ELSE /\ retryq' = IF linked[s]
                         THEN Add(retryq, [m EXCEPT !.attempt = @ + 1])
                         ELSE retryq
            /\ UNCHANGED dlq
    /\ Failed(m.id)
    /\ Goto(s, "ack")
    /\ UNCHANGED <<mainq, sent, minted, storeVars, jobVars, linked, trouble>>

\* basic_nack(requeue=False): ingest.S dead-letters to ingest.S.retry, and the
\* attempt of the message stays what it was.
Nack(s) ==
    /\ pc[s] = "nack"
    /\ retryq' = IF linked[s] THEN Add(retryq, held[s]) ELSE retryq
    /\ Failed(held[s].id)
    /\ Finish(s)
    /\ UNCHANGED <<mainq, dlq, sent, minted, storeVars, linked, trouble>>

Ack(s) ==
    /\ pc[s] = "ack"
    /\ Finish(s)
    /\ UNCHANGED <<brokerVars, storeVars, linked, failures, trouble>>

\* Publish a message of the next stage.
Handoff(s, m) ==
    /\ pc[s] = "handoff"
    /\ IF linked[s] THEN Publish(m) ELSE UNCHANGED <<mainq, sent>>
    /\ Goto(s, "ack")
    /\ UNCHANGED <<retryq, dlq, storeVars, jobVars, linked, failures, trouble>>

-----------------------------------------------------------------------------

\* The process dies between two calls and is started again.
Crash(s) ==
    /\ pc[s] # "idle"
    /\ Disturb("crash")
    /\ Requeue(s)
    /\ Finish(s)
    /\ linked' = [linked EXCEPT ![s] = TRUE]
    /\ UNCHANGED <<retryq, dlq, sent, minted, storeVars, failures>>

\* The channel of a busy worker closes; the handler runs on and notices only
\* when it publishes or acknowledges.
Disconnect(s) ==
    /\ pc[s] # "idle"
    /\ linked[s]
    /\ Disturb("disconnect")
    /\ Requeue(s)
    /\ linked' = [linked EXCEPT ![s] = FALSE]
    /\ UNCHANGED <<retryq, dlq, sent, minted, storeVars, pc, jobVars, failures>>

\* Mutant of Reconnect: connects again but does not consume again.
ReconnectDeaf(s) ==
    /\ pc[s] = "idle"
    /\ ~linked[s]
    /\ UNCHANGED <<brokerVars, storeVars, trouble, consumerVars>>

Reconnect(s) ==
    /\ pc[s] = "idle"
    /\ ~linked[s]
    /\ linked' = [linked EXCEPT ![s] = TRUE]
    /\ UNCHANGED <<brokerVars, storeVars, trouble, pc, jobVars, failures>>

=============================================================================
