# digital-cip: a TLA+ model of the ingestion pipeline

digital-cip takes documents over HTTP, stores them in MinIO, and sends them
through three workers — OCR (Python), chunking (Go), embedding (Python) — that
talk through RabbitMQ and keep their state in PostgreSQL. Nothing in it is
transactional across two services: every safety property of the pipeline rests
on the order in which a handler writes its rows, publishes its messages and
acknowledges its delivery. That order, and what happens to it when a process
dies, a channel closes or a statement fails between two of these calls, is what
this directory models, model-checks and proves.

## 1. Inventory

| Component | State | Operations | Module |
| --- | --- | --- | --- |
| API: `CreateDocument`, `RetryDocument`, publisher, object store | bucket objects, rows of `documents`, first audit event | upload (object, transaction, publication), retry | `Api` |
| RabbitMQ (`infra/rabbitmq/definitions.json`) | per stage a main queue, a delay queue with TTL, a dead-letter queue | publish, deliver, ack, nack, expire, redeliver | `Broker`, `Consumer` |
| PostgreSQL schema, `db.py` × 2, `db.go` | `documents.status` and timestamps, `document_chunks`, `processing_events`, `processed_messages` | one statement per connection | `Store` |
| Consumer loop: `consumer.py` × 2, `handle` of `worker.go` | delivery in hand, channel | retry with attempt + 1, dead-letter, nack, reconnect | `Consumer` |
| OCR worker (`workers/ocr`) | locals of `handle` | 11 calls, publication of the chunk message | `OcrWorker` |
| Chunker (`workers/chunker`) | locals of `process` | 8 calls, publication of the embed message | `ChunkerWorker` |
| Embedder (`workers/embedder`) | locals of `handle` | 10 calls | `EmbedderWorker` |
| Document state machine (AASM in `document.rb`) | `documents.status` | 8 transitions | `Lifecycle` |
| Worker processes: `run_consumer`, `main`/`Run`, Docker's restart policy | connection, consumer, shutdown flag, attempts left | start, connect, reconnect, stop, restart | `WorkerProcess` |
| Text splitting (`chunk.go`) | locals of `Split` | normalise the parameters, cut a window | `ChunkSplit` |
| Read endpoints, health, metrics, logging, Redis pool, bootstrap scripts | none that matters to the pipeline | | not modelled |

How they interact: the API and the workers share PostgreSQL rows; the API, the
OCR worker and the chunker each publish for the next stage.
There are no locks and no transaction spans two calls. Every worker is a single
process that handles one delivery at a time (pika's `BlockingConnection`, one
`for` loop in Go).

What is hard here, and what makes each component correct:

- *Broker and consumer loop*: redelivery after a crash or a lost channel, while
  the first handler may still be running; a nack that keeps the attempt; the
  order publish, then ack. Correct when no published message is forgotten before
  its stage is done (`NoMessageLost`) and none is given up early
  (`DeadLetteredAfterRetries`).
- *Store*: status, audit event, result and `processed_messages` commit one by
  one. Correct when a `processed_messages` row proves the work
  (`ProcessedIsDone`), the trail explains the status (`AuditExplainsStatus`),
  and a gap that a failure leaves in it does not outlive the message of its stage
  (`AuditGapsArePending`, `ProcessedIsAudited`).
- *OCR*: must not touch a document that was handed on (`HandedOverToChunker`),
  and a failed document stays failed (`FailedIsFinal`).
- *Chunker and embedder*: the chunker replaces rows the embedder may have read.
  Correct when `embedded` means that the current chunks are embedded
  (`EmbeddedIsComplete`, and where the code does not reach that,
  `CompleteUnlessReworked`) and is final (`EmbeddedIsFinal`).
- *Worker processes*: outages, dropped channels and SIGTERM may meet the loop
  anywhere. Correct when a worker comes back to its queue (`ComesBack`), ends
  when told to (`NoticedStopEnds`) and then takes no delivery
  (`NoDeliveryAfterStop`).
- *Text splitting*: any integers as `CHUNK_SIZE` and `CHUNK_OVERLAP`. Correct
  when the loop ends (`LoopAdvances`), no word is lost (`EveryWordIsKept`) and
  the windows overlap as configured (`WindowsOverlap`).
- *The whole*: a message that was published is kept until it is settled and
  never comes back after that (`ImplementsAtLeastOnce`), the queues drain
  (`QueuesDrain`), no document is stranded (`NoDocumentStranded`), each settles
  (`EveryUploadSettles`), and the statuses follow the declared state machine
  (`ImplementsLifecycle`).

`PROJECT.json` lists the hazards one by one with the line where each bites.

## 2. Modules

```
Ingest                vocabulary, constants and their assumption, disturbances
├─ Broker             queues and publications
└─ Store              tables, outcomes of a statement
   Broker + Store ──► Consumer       delivery, retry, nack, ack, crash, reconnect
                      ├─ OcrWorker  ├─ ChunkerWorker  └─ EmbedderWorker
   Broker + Store ──► Api
Pipeline              everything composed; fairness; properties
├─ INSTANCE Lifecycle     abstract specification: the AASM state machine
├─ INSTANCE AtLeastOnce   abstract specification: what becomes of a message
├─ PipelineInv        the inductive invariant under every disturbance
│  └─ PipelineOrder   those that last until some disturbance ──► MCPipeline (TLC)
├─ PipelineTypes      proofs: type correctness
└─ PipelineSafety     proofs: the safety properties
   └─ PipelineDelivery  proofs: the implementation of AtLeastOnce
      └─ PipelineHandover  proofs: the order of the stages, Lifecycle
         ├─ PipelineStranded  proofs: who carries a document
         └─ PipelineAudit     proofs: the audit trail and its gaps

WorkerProcess         run_consumer and Run around the handling of a delivery
└─ WorkerProcessProofs  proofs: types, nothing is delivered after a stop
ChunkSplit            the loop of chunk.Split ──► MCChunkSplit (TLC)
└─ ChunkSplitProofs   proofs: its loop invariant, its result in closed form
```

`WorkerProcess` and `ChunkSplit` stand beside the pipeline. `WorkerProcess` discharges an assumption
of it: what `Reconnect` of `Consumer` does in one fair step is there the whole
loop of connect attempts, exceptions and restarts. `ChunkSplit` is what
`ChunkInsert` of `ChunkerWorker` stores, of which the pipeline needs only that a
text with words has at least one chunk (`EveryWordIsKept`).

Correspondence of state and code:

- `mainq`, `retryq`, `dlq`: for each message the number of copies in
  `ingest.S`, `ingest.S.retry`, `ingest.S.dlq`. A queue has no order: with
  prefetching, redelivery and a delay queue RabbitMQ guarantees none that the
  handlers rely on.
- A message is its id and its attempt. The ids are those of the code: one ULID
  per upload, that id with `:chunk` appended, and a fresh uuid for each embed
  publication (numbered by `minted`).
- `status`, `stamped` (the `*_completed_at` columns; `raw_text` is set by the
  same UPDATE as `ocr_completed_at`), `chunks` (the generation of the rows and
  whether they have embeddings), `events` and `processed` are the tables.
- `pc`, `held`, `seen`, `batch`, `linked`: each worker's next call, its
  delivery, the status and the rows it has read, whether its channel is open.
- `upload`, `objects`, `reply`: how far `CreateDocument` is, the bucket, the
  last answer to a retry request.
- `sent` and `failures` are history: ids ever published, failed executions.
- `trouble`: `left`, the disturbances still allowed (a bound, see below), and
  `met`, the kinds of disturbance that have happened (history).
- `AtLeastOnce` sees `sent` as `posted`, the ids with a copy in a queue or in a
  worker's hands as `kept`, and those whose stage is stamped or whose document
  failed as `settled`.
- `WorkerProcess`: `at` is the place in `run_consumer` or `Run`, `open` and
  `registered` the channel and its consumer, `flag` the shutdown flag or the
  cancelled context, `attempts` those left to the running connect.
- `ChunkSplit`: the locals of `Split`; a window is the pair of word indices it
  joins.

One action is one call of a handler that reads or writes shared state, with the
branch that follows it. Each database call has three outcomes: done; refused
(`error`, rolled back, the caller sees an exception); done although the caller
sees an exception (`lost`: the connection broke during the commit). The handler
continues as its `except` clauses or ignored errors make it continue. A
publication on a closed channel reaches nobody, and the acknowledgement that
follows is void.

The environment may: kill a worker between any two calls (`crash`), close a busy
worker's channel (`disconnect`), fail or half-report statements (`error`,
`lost`), make MinIO, tesseract or the embedding model raise (`handler`), kill
the API or fail its insert or publication (`api`), and call `POST /retry`
(`operator`). `Disturbances` selects which of them happen in an instance.

## 3. Model checking

Deadlock checking is off everywhere because the system may stop: a pipeline
whose uploads are finished, a container that was stopped and a `Split` that has
returned have nothing left to do.

Passing runs:

| Run | Instance | Checks |
| --- | --- | --- |
| `faults` | 1 document; disconnect, error, lost, api; 3 of them | `TypeOK`, `SafetyInv`, `DeliveryInv` (the inductive invariants), `NoMessageLost`, `ProcessedIsDone`, `HandedOverToChunker`, `DeadLetteredAfterRetries`, `MessageFindsDocument`, `FailedIsFinal`, `ProcessedIsAudited`, `GapInv` (inductive); and, until a given kind of disturbance has happened, `StrandedByLostHandoffOnly`, `AuditExplainsStatus`, `CompleteUnlessReworked`, with `OrderInv`, `CarryInv`, `AuditInv` (the invariants their proofs need) |
| `redelivery` | 1 document of any kind; crash, disconnect, handler; 3; `FairSpec` | `CompleteUnlessReworked`, `EmbeddedIsFinal`, `AuditGapsArePending`, `ImplementsLifecycle`, `ImplementsAtLeastOnce`, `QueuesDrain` |
| `settles` | 2 documents; error, handler, api or operator, 1; `FairSpec` | `EveryUploadSettles` |
| `process` | 1 Python and 1 Go worker; 2 outages, 3 incidents, 2 attempts | `TypeOK`, `StoppedIsDeaf`, `NoDeliveryAfterStop`, `NoticedStopEnds`, `ComesBack` |
| `split` | up to 24 words, `CHUNK_SIZE` −1..17, `CHUNK_OVERLAP` −1..18 | `LoopInv`, `ClosedForm` (inductive), `EveryWordIsKept`, `WindowsOverlap`, `RowsAreFilled`, `MatchesReference`, `LoopAdvances` |

Most properties of `faults` hold under everything, crashes included; for those
that the tables below list as theorems this is proved. The run itself leaves
crashes out to stay small: a lost channel gives the message back just as a crash
does, a failing statement ends a handler midway, and `redelivery` has the
crashes proper.

Some properties hold only as long as some kinds of failure have not occurred,
and say so themselves: `trouble.met` remembers what has.

- `StrandedByLostHandoffOnly`: no failing statement, late message or retry
  strands a document, so that the counterexample of `stranded` below is the only
  kind there is: a crash, a lost channel or a commit that looked like a failure.
- `CompleteUnlessReworked` and `EmbeddedIsFinal` hold until `NoRework` is false:
  until a statement that was not applied (the chunker ignores the error of
  `RecordProcessed`) *and* a redelivery (a crash or a lost channel) have both
  happened. One of the two alone does no harm, and `stale_chunks` below has
  exactly these two. `faults` has both kinds, so it checks the states on either
  side; `redelivery` has no failing statements, so that `NoRework` holds
  throughout and `EmbeddedIsComplete` and `ImplementsLifecycle` with it.
- `AuditExplainsStatus`: until a process dies or a statement fails between
  `update_document_status` and `record_event`. Then the status may be missing
  from the trail, and `GapInv` says for how long: `AuditGapsArePending` holds
  under every disturbance and says that the stage's message is then still with
  the broker (its dead-letter queue included) or a worker, and
  `ProcessedIsAudited` that a `processed_messages` row proves both events of its
  stage. For the chunker, which ignores the errors of `RecordEvent`, both hold
  until a statement is refused (`Watched`). Neither speaks of `embedded` or
  `failed` before a row is recorded: a redelivered message of a document in such
  a status is acknowledged unread, so a gap there stays for ever.

`ImplementsLifecycle` is about changes of status. A retry of the ocr stage writes
`ocr_processing` over `ocr_processing`, a redelivered chunk message `chunking`
over `chunking`; `document.rb` declares no such transition, and to the refinement
these are stuttering steps.

`ImplementsAtLeastOnce` is stronger than "no message is lost": no id is ever
published as new twice although handlers run again, and a message whose last
copy was acknowledged never reappears. `QueuesDrain` holds although a nack does
not count as an attempt, because only a bounded number of failures happen in an
instance; it does not say how many executions a message costs (`uncounted`).

Disagreements between code and documentation, each a run that must end in a
counterexample:

| Run | Property, from the documentation | What the code does |
| --- | --- | --- |
| `stranded` | "duplicate delivery is safe", "safe to replay" (README, architecture.md): `NoDocumentStranded` | `record_processed` commits before the next stage's message is published; a crash or lost channel in between makes the redelivery a "duplicate" and the document stays where it is for ever |
| `stale_chunks` | the same: `EmbeddedIsComplete` | the chunker ignores a failed `RecordProcessed`; on redelivery it replaces chunk rows the embedder has read, and the document is `embedded` with unembedded chunks |
| `chunker_guard` | "the chunker refuses to operate on a document not in `ocr_completed`": `ChunkerGuardsState` | it refuses only `embedded`, `failed`, and documents without text |
| `exhausted` | "fail (N retries) → failed": `ExhaustedIsFailed` | the message is dead-lettered, the status stays `ocr_processing` |
| `permanent` | a permanent failure "sends the message to DLQ": `PermanentIsDeadLettered` | the message is acknowledged |
| `uncounted` | "after `max_retries` failures it lands in the dlq": `DeadLetteredInTime` | failures that end in `basic_nack` do not count |
| `retry_request` | `POST /retry`: "re-enqueue failed document": `RetryReenqueues` | `record_event!` has no keyword `actor:`; an `ArgumentError`, nothing is published |

Bounds and why they are enough:

- *One document* in the safety runs. Documents share no rows and no message
  ids; they meet only in the queues and in the workers' time. A worker holding
  another document's message is, for this one, an idle worker. `settles` has two
  documents because starvation is about exactly that.
- *`MaxRetries` = 2* (5 in `.env.example`): a first attempt, a retry, a last
  attempt; both branches of `attempt >= max_retries` are taken.
- *`MaxDisturbances`*: the counterexamples above need one or two; the passing
  runs allow three: a redelivery, a failure of the redelivered
  message and one more of its retry.
- *`MaxSerial`*: uuids for embed messages; `ChunkHandoff` waits when they are
  used up, which no passing run reaches (checked with an invariant; a second
  embed message already takes a failed statement and a redelivery).
- *`Attempts` = 2* in `process` (20 in Python, 30 in Go): one that fails and one
  that is the last. Two outages meet a worker while it is consuming and while
  it reconnects; three incidents let a signal arrive while a dropped channel is
  being replaced. The two kinds of worker share only the broker, so one of each
  is enough.
- *`split`*: sizes on both sides of 8 and 16, where the overlap that replaces a
  bad one (`size / 8`) changes; texts of up to three windows of the default size.

Fairness (`FairSpec`): weak fairness of the expiry of TTLs, of each worker's
consumption, of its next call and of its reconnection, because RabbitMQ expires
and delivers what it has, a handler never blocks on another process, and
`run_consumer` and Docker's `restart: unless-stopped` bring a worker back. It is
one condition per stage, so nothing is assumed about which message comes
first: for one message to be taken its stage must run out of others. No client,
operator or API step is fair, and no disturbance ever has to happen. `settles`
leaves crashes and lost channels out (with them the `stranded` counterexample
applies) and allows fewer failures than `MAX_RETRIES`.

`WorkerProcess` states weak fairness of each process's steps and of Docker's
restart, and strong fairness of `Run`'s return: Go's `select` picks among ready
cases at random, so a cancelled context that is ready again and again is seen.
Nothing is assumed of the broker, which may stay away for ever; `ComesBack` is
about executions in which it finally stays up. This is the assumption
`WF(ReconnectStep)` of the pipeline, derived from the loops that implement it.

## 4. Proofs

For all values of the constants that satisfy `IngestAssumption` (any set of
documents, any `MAX_RETRIES` > 0, any set and number of disturbances), TLAPS
checks:

| Theorem | Statement |
| --- | --- |
| `TypeCorrect` | `Spec => []TypeOK` |
| `SafetyInvariant` | `Spec => [](TypeInv /\ SafetyInv)` |
| `SafetyHolds` | `Spec => []SafetyInv` |
| `MessagesSurvive` | `Spec => []NoMessageLost` |
| `ProcessedIsProof` | `Spec => []ProcessedIsDone` |
| `DeadLettersAreEarned` | `Spec => []DeadLetteredAfterRetries` |
| `OcrHandsOver` | `Spec => []HandedOverToChunker` |
| `FailedStaysFailed` | `Spec => FailedIsFinal` |
| `DeliveryInvariant` | `Spec => []DeliveryInv` |
| `MessagesFindDocuments` | `Spec => []MessageFindsDocument` |
| `DeliveryIsAtLeastOnce` | `Spec => ImplementsAtLeastOnce` |
| `StagesInOrder` | `Spec => []OrderInv` |
| `EmbeddedStaysEmbedded` | `Spec => EmbeddedIsFinal` |
| `EmbeddedHasEmbeddings` | `Spec => []CompleteUnlessReworked` |
| `PipelineImplementsLifecycle` | `Spec /\ []NoRework => ImplementsLifecycle` |
| `UploadsAreCarried` | `Spec => []CarryInv` |
| `NobodyIsStranded` | `Spec => []StrandedByLostHandoffOnly` |
| `TrailIsKept` | `Spec => []AuditInv` |
| `TrailExplainsStatus` | `Spec => []AuditExplainsStatus` |
| `GapsAreBounded` | `Spec => []GapInv` |
| `ProcessedProvesAudit` | `Spec => []ProcessedIsAudited` |
| `GapsArePending` | `Spec => []AuditGapsArePending` |

for any set of text lengths, of integer sizes and of integer overlaps, and
any positive default size (`SplitAssumption`):

| Theorem | Statement |
| --- | --- |
| `LoopInvariant` | `Spec => []LoopInv` |
| `SplitKeepsWords` | `Spec => []EveryWordIsKept` |
| `OverlapIsExact` | `Spec => []WindowsOverlap` |
| `RowsHaveWords` | `Spec => []RowsAreFilled` |
| `SplitAdvances` | `Spec => LoopAdvances` |
| `WindowsAreClosedForm` | `Spec => []ClosedForm` |
| `SplitMatchesReference` | `Spec => []MatchesReference` |

and for any number of Python and Go workers, connect attempts, outages and
incidents that satisfy the assumption of `WorkerProcess`:

| Theorem | Statement |
| --- | --- |
| `ProcessTypes` | `Spec => []TypeOK` |
| `StoppedWorkersAreDeaf` | `Spec => []StoppedIsDeaf` |
| `NothingAfterStop` | `Spec => NoDeliveryAfterStop` |

`TypeInv` is `TypeOK` and "a busy worker holds a message". `SafetyInv`
(`PipelineInv`) is needed because none of the properties is inductive alone.
`NoMessageLost`, for instance, is about acknowledgements: one may be sent only
if a copy is queued, the stage has stamped its completion, or the document has
failed (`AckIsSafe`). A duplicate may be acknowledged because
`ProcessedIsDone`, which holds because a worker that is about to write
`processed_messages` has finished (`OcrIsDone`, `ChunkIsDone`, `EmbedIsDone`). A
document in a terminal status may be skipped because an embedded one has all its
stamps (`EmbeddedIsStamped`). `HandedOverToChunker` needs that a redelivered ocr
message finds itself recorded (`ChunkIsHandedOver`, `OcrIsFresh`). The chunker
never meets a document without `raw_text` because the chunk message follows the
recorded OCR (`ChunkIsHandedOver`), and the embedder never one without chunks
(`EmbedIsReady`).

`PipelineSafety` separates what a step does from what the invariant makes of it.
`StoreNext` says what any step may do to the rows, `FlowNext` what it may do to
copies of messages, `OcrNext`, `ChunkNext`, `EmbedNext` and `AckNext` how the
workers move. These go through the actions one by one; the
remaining parts of the invariant follow from them without looking at an action
again.

The refinement of `AtLeastOnce` needs more than `SafetyInv`, because a step that
publishes "as new" an id published before would be no step of it. `DeliveryInv`
says why that cannot happen: the ocr worker comes to its hand-off only from
`record_processed` on a message nobody recorded (`HandoffIsFirst`, from
`OcrIsFresh` and `ChunkIsHandedOver`), embed messages carry uuids never minted
before (`UuidsAreMinted`), and `CreateDocument` publishes an upload that is not
published yet (`SentIsUploaded`). `PipelineDelivery` then sorts all steps into
three kinds (`DeliveryNext`): those that leave the messages with a copy
somewhere as they are, first publications, and acknowledgements on an open
channel, which forget a message only if `AckIsSafe` says that it is settled.
The third part of `DeliveryInv`, `RowHasFile`, gives `MessageFindsDocument`.

The conditional properties need to know who may still write a document, which
depends on what has gone wrong so far. `OrderInv` (`PipelineOrder`) therefore has
one part for each set of disturbances it survives, and every part is an
implication from `Without(...)`, which no step can make true again:

- `StageInv`, under everything: a status of a later stage follows the message of
  that stage, dead letters and recorded messages were published, OCR alone
  writes the status of a document it works on.
- `SteadyInv`, until a crash or a lost channel: every message has one copy, and
  the chunk message is spent once the embed message is out.
- `RecordedInv`, until a statement is not applied: the chunker's hand-off follows
  a `processed_messages` row, so a second chunk message is a duplicate.
- `OwnerInv`, while one of the two holds (`NoRework`): the chunker never works on
  a document whose embed message is out (`ChunkPrecedesEmbed`), each worker
  finds the status it wrote (`ChunkPlace`, `EmbedPlace`), and the rows the
  embedder read are the rows it writes (`EmbedRows`).

Neither `SteadyInv` nor `RecordedInv` implies the other; what follows needs only
that one of them is left, which is why two kinds of failure have to meet.
`EmbeddedIsFinal`, `CompleteUnlessReworked` and the implementation of `Lifecycle`
come from `OwnerInv`. The hypothesis `[]NoRework` of the last is necessary: in the
instance of `stale_chunks` a document goes from `chunking`, where a second pass
of the chunker has put it, to `embedding`, which `document.rb` does not declare.
As before, the actions are gone through once for what they do: `RowsMove` says
which row a step writes and at which call, `CopiesMove` how it moves the copies
of messages while channels stay open; the parts of `OrderInv` follow from these.

`CarryInv` needs one more exclusion, commits that looked like a failure: then
`RecordedIsSpent` says that what `processed_messages` holds is never delivered
again, so `already_processed` never suppresses a hand-off, and `Carried` says
that a published upload is worked on, queued or finished. It counts a worker
that only has to acknowledge as nobody (`Working`, unlike `Busy`): what such a
worker leaves behind must be carried already, or the invariant would not be
inductive.

`AuditInv` says how far the trail may lag: every event starts where the trail has
been (`TrailIsClosed`), a status that is not on the trail is about to be recorded
by the next call of the worker that wrote it (`TrailIsCurrent`), and the status a
worker has read is on the trail already (`TrailIsSeen`), for which `OrderInv` is
needed once more: no other stage has a document at the same time.

`GapInv` has no such luxury: it must hold while workers die and statements fail.
A worker past a call of `record_event` has its event on the trail
(`WorkIsAudited`), which gives `ProcessedIsAudited` when it writes its row.
`AuditGapsArePending` is about acknowledgements, like `NoMessageLost`, and needs
that a worker whose channel closed has its message queued again
(`UnlinkedIsQueued`) and that one about to acknowledge on an open channel leaves
no gap (`AckIsAudited`). A duplicate is acknowledged because its row proves the
events; a finished worker has just passed both; a retry or a dead letter is a
copy in a queue. That nobody else makes a gap for a stage follows from
`OrderInv`: a status of a stage is written by that stage alone.

`StoppedIsDeaf` is what `NoDeliveryAfterStop` needs: a stopped worker that is
still consuming has lost its channel or its consumer, and the steps that would
open another lead through the loop that looks at the flag.

`LoopInv` of `ChunkSplit` says where the loop is: the last window ends `overlap`
words behind the next start and short of the end of the text
(`LoopProgress`), and everything before its end is covered (`LoopCovers`). With
`LoopAdvances` the loop ends, since `start` stays below the number of words.
`ClosedForm` adds that window `i` starts at `(i - 1) * step`; that the number of
windows is the quotient of the reference is then a fact about division
(`QuotientIsUnique`).

Only model-checked: `EveryUploadSettles`, `QueuesDrain`, `NoticedStopEnds` and
`ComesBack` (liveness under fairness is outside the prover's reach, as is
`ENABLED`), and the seven documented claims, whose runs end in a counterexample.
Every invariant and every action property of a passing run is a theorem.

## 5. What is not modelled

- Malformed envelopes. The Python workers nack them, so they circulate for ever;
  the chunker acknowledges them. Every publisher of the repository builds a
  well-formed one.
- Several replicas of a worker. `docker-compose.yml` gives every worker a
  `container_name`, which rules replicas out; deliveries prefetched but not yet
  handled are as good as queued.
- In the pipeline SIGTERM is a crash between two calls, or, in the chunker,
  whose context is cancelled, a series of failed statements; the shutdown itself
  is in `WorkerProcess`, which does not look into the handler.
- Overflow of `start + size` in `Split`: beyond the first window `size` is less
  than the number of words (`LoopParameters`), and for the first it is `size`.
- The threads of the API and the recovery of Bunny's connection, which lives in
  a library: a publication through it succeeds or fails.
- Branches that cannot be reached: "document not found" (rows are never
  deleted), the chunker's "no chunks produced" (`raw_text` is never blank), an
  empty object at the OCR worker (the row of an empty file is refused), and the
  embedder's `except PermanentError` (nothing in its `try` raises one).
- Message bodies beyond id, attempt and document; texts, vectors, metrics, logs.
- `retry_count` and `failure_reason`, which no handler reads.

Observations made on the way that no property is about: architecture.md:54
dead-letters once `attempt > MAX_RETRIES`, while the code compares with `>=`, one
execution earlier, and as README.md:149 has it; the delay is always 5 s
(`x-message-ttl`), not "5s, 10s, 30s"; a corrupt file is retried as a transient
failure although architecture.md calls it permanent; if the retry request
published its message, the worker would still skip the document, whose status
stays `failed`; `CreateDocument` publishes after its commit and without publisher
confirms, so an upload may stay `uploaded` for ever; it stores the object before
the row is accepted, so a refused file stays in the bucket; "every transition
is recorded" (README.md:140) does not hold: the chunker ignores errors of
`RecordEvent`, and a crash can keep the event of a terminal status off the trail
for good (`GapInv` bounds the other gaps); message ids are ULIDs with suffixes and uuids, not uuids throughout; no
worker uses Redis; the smoke test uploads `text/plain`, which the OCR worker
cannot open as an image.

## 6. Plan

1. Done: the pipeline (`Ingest` … `Pipeline`), its safety and liveness runs, the
   documented claims, type correctness and the safety invariant.
2. Done: `ChunkSplit` with its proofs; `WorkerProcess`; the abstract
   specification `AtLeastOnce` and the run that checks its implementation.
3. Done: the refinement `DeliveryIsAtLeastOnce` and the theorems about the
   messages of an upload.
4. Done: the conditional properties with `Without(...)` in an invariant, the
   implementation of `Lifecycle`, `MatchesReference`, and type correctness and
   `NoDeliveryAfterStop` of `WorkerProcess`.
5. Done: how long a gap of the audit trail lasts under crashes and failing
   statements (`GapInv`).
6. Left: safety parts of the liveness properties that a proof can reach, such as
   a bound on the executions of a message by its attempts and the failures that
   happened (for `QueuesDrain`), and that a Python worker is left without
   attempts only by so many refused connections (for `ComesBack`).
