------------------------------- MODULE Broker -------------------------------
(***************************************************************************)
(* RabbitMQ as infra/rabbitmq/definitions.json configures it: per stage S  *)
(* a queue ingest.S, a delay queue ingest.S.retry whose messages return to *)
(* ingest.S when their TTL runs out, and a dead-letter queue ingest.S.dlq. *)
(* The stage of a message selects the queue, so one function per kind of   *)
(* queue suffices.  Redelivery and the retry detour reorder messages: a    *)
(* queue is a count of copies per message, without an order.               *)
(***************************************************************************)
EXTENDS Ingest

VARIABLES
    mainq,   \* ingest.S: copies of each message that are ready
    retryq,  \* ingest.S.retry: copies waiting for their TTL
    dlq,     \* ingest.S.dlq: copies given up on
    sent,    \* history: the ids ever routed to a main queue
    minted   \* uuids minted for the embed messages of each document

brokerVars == <<mainq, retryq, dlq, sent, minted>>

Queue == [Messages -> Nat]

BrokerTypeOK ==
    /\ mainq \in Queue
    /\ retryq \in Queue
    /\ dlq \in Queue
    /\ sent \subseteq MessageIds
    /\ minted \in [Docs -> 0..MaxSerial]

BrokerInit ==
    /\ mainq = [m \in Messages |-> 0]
    /\ retryq = [m \in Messages |-> 0]
    /\ dlq = [m \in Messages |-> 0]
    /\ sent = {}
    /\ minted = [d \in Docs |-> 0]

Add(q, m) == [q EXCEPT ![m] = @ + 1]
Remove(q, m) == [q EXCEPT ![m] = @ - 1]

\* A publication to the exchange 'ingest' with routing key ingest.S.
Publish(m) ==
    /\ mainq' = Add(mainq, m)
    /\ sent' = sent \cup {m.id}

\* The TTL of a message in ingest.S.retry runs out: back to ingest.S.
Expire(m) ==
    /\ retryq[m] > 0
    /\ retryq' = Remove(retryq, m)
    /\ mainq' = Add(mainq, m)
    /\ UNCHANGED <<dlq, sent, minted, trouble>>

InQueue(m) == mainq[m] > 0 \/ retryq[m] > 0 \/ dlq[m] > 0

=============================================================================
