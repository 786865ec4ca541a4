------------------------------ MODULE Ingestion ------------------------------
(***************************************************************************)
(* Document upload and ingestion: the FastAPI handlers of                  *)
(* app/api/v1/endpoints/documents.py, the Celery queue in RabbitMQ and the *)
(* process_document task of app/workers/ingestion.py.                      *)
(*                                                                         *)
(* Every await, commit and remote call is a step of its own, so handlers   *)
(* and workers interleave between them.  All documents belong to one       *)
(* tenant (the quota and the soft delete are per tenant).  A document's    *)
(* content is only its number of Qdrant batches; a part of a document is   *)
(* what one such batch (up to 100 chunks) carries.  The reported fields    *)
(* chunk_count, processing_ms, embedding_model and error_msg are left out. *)
(***************************************************************************)
EXTENDS Integers, FiniteSets

CONSTANTS
    Docs,        \* document ids (fresh UUIDs drawn by the upload handler)
    NoDoc,       \* no document: an idle handler or worker
    Handlers,    \* upload requests being served at the same time
    Workers,     \* Celery worker processes
    Batches,     \* [Docs -> Nat]: Qdrant batches of a document, 0 if it has no text
    MaxDocs,     \* PLAN_LIMITS max_docs, 0 for None (unlimited)
    MaxRetries,  \* max_retries of the task (3 in the code)
    FaultBounds  \* functions [FaultKinds -> Nat]: the faults that may happen
                 \* together stay within one of these bounds

(***************************************************************************)
(* service:    S3, the parser, OpenAI, fastembed, Qdrant or the broker     *)
(*             raises in the task                                          *)
(* postgres:   a statement or a commit of the task raises                  *)
(* crash:      a worker process dies                                       *)
(* redelivery: the broker gives a held message to another worker           *)
(*             (lost connection, consumer timeout)                         *)
(* brokerLoss: RabbitMQ is set up anew; it has no volume for its queues    *)
(***************************************************************************)
FaultKinds == {"service", "postgres", "crash", "redelivery", "brokerLoss"}

ASSUME DocsAssumption    == NoDoc \notin Docs
ASSUME BatchesAssumption == Batches \in [Docs -> Nat]
ASSUME BoundsAssumption  == /\ MaxDocs \in Nat
                            /\ MaxRetries \in Nat
                            /\ FaultBounds \subseteq [FaultKinds -> Nat]

VARIABLES
    status,      \* documents.status, "absent" while there is no row
    deleted,     \* documents with deleted_at set
    objects,     \* documents whose file is in the S3 bucket
    dispatched,  \* history: documents whose task was published by the handler
    upload,      \* per handler: where it is in ingest_document, and its doc_id
    queue,       \* deliverable messages per document and retry number
    worker,      \* per worker: the process_document call it runs
    runs,        \* per document: how often it was parsed (each parse draws new vector ids)
    points,      \* Qdrant points: <<document, run, part>>
    chunks,      \* rows of the chunks table: <<document, run, part>>
    faults       \* faults so far, per kind

vars == <<status, deleted, objects, dispatched, upload, queue, worker,
          runs, points, chunks, faults>>
dbVars     == <<status, deleted>>
uploadVars == <<objects, dispatched, upload>>
indexVars  == <<runs, points, chunks>>

Statuses   == {"absent", "pending", "processing", "ready", "failed"}
UploadPcs  == {"idle", "put", "insert", "dispatch"}
WorkerPcs  == {"idle", "load", "parse", "upsert", "mark", "except", "retry", "ack"}
Messages   == Docs \X (0..MaxRetries)

IdleHandler == [pc |-> "idle", doc |-> NoDoc]
IdleWorker  == [pc |-> "idle", doc |-> NoDoc, retries |-> 0, run |-> 0,
                sent |-> 0, held |-> FALSE]

Registered == {d \in Docs : status[d] # "absent"}
Live       == Registered \ deleted

(* What one execution of the task writes for a document. *)
PartsOf(d, r) == {d} \X {r} \X (1..Batches[d])

Init ==
    /\ status = [d \in Docs |-> "absent"]
    /\ deleted = {}
    /\ objects = {}
    /\ dispatched = {}
    /\ upload = [h \in Handlers |-> IdleHandler]
    /\ queue = [m \in Messages |-> 0]
    /\ worker = [w \in Workers |-> IdleWorker]
    /\ runs = [d \in Docs |-> 0]
    /\ points = {}
    /\ chunks = {}
    /\ faults = [k \in FaultKinds |-> 0]

------------------------------------------------------------------------------
(* The upload handler, ingest_document.                                    *)

Fresh(d) ==
    /\ status[d] = "absent"
    /\ d \notin objects
    /\ \A h \in Handlers : upload[h].doc # d

(* Mutant: off by one.                                                     *)
QuotaOffByOne == MaxDocs = 0 \/ Cardinality(Live) <= MaxDocs

QuotaAllows == MaxDocs = 0 \/ Cardinality(Live) < MaxDocs

(* Count the tenant's documents; a request over the limit ends here.       *)
CheckQuota(h, d) ==
    /\ upload[h].pc = "idle"
    /\ Fresh(d)
    /\ QuotaAllows
    /\ upload' = [upload EXCEPT ![h] = [pc |-> "put", doc |-> d]]
    /\ UNCHANGED <<dbVars, objects, dispatched, queue, worker, indexVars, faults>>

(* Mutant: the task is published before the row is committed.              *)
PutThenDispatch(h) ==
    /\ upload[h].pc = "put"
    /\ objects' = objects \cup {upload[h].doc}
    /\ upload' = [upload EXCEPT ![h].pc = "dispatch"]
    /\ UNCHANGED <<dbVars, dispatched, queue, worker, indexVars, faults>>

PutObject(h) ==
    /\ upload[h].pc = "put"
    /\ objects' = objects \cup {upload[h].doc}
    /\ upload' = [upload EXCEPT ![h].pc = "insert"]
    /\ UNCHANGED <<dbVars, dispatched, queue, worker, indexVars, faults>>

InsertRow(h) ==
    /\ upload[h].pc = "insert"
    /\ status' = [status EXCEPT ![upload[h].doc] = "pending"]
    /\ upload' = [upload EXCEPT ![h].pc = "dispatch"]
    /\ UNCHANGED <<deleted, objects, dispatched, queue, worker, indexVars, faults>>

(* Mutant: the handler publishes its task twice.                           *)
DispatchTwice(h) ==
    /\ upload[h].pc = "dispatch"
    /\ queue' = [queue EXCEPT ![<<upload[h].doc, 0>>] = @ + 2]
    /\ dispatched' = dispatched \cup {upload[h].doc}
    /\ upload' = [upload EXCEPT ![h] = IdleHandler]
    /\ UNCHANGED <<dbVars, objects, worker, indexVars, faults>>

Dispatch(h) ==
    /\ upload[h].pc = "dispatch"
    /\ queue' = [queue EXCEPT ![<<upload[h].doc, 0>>] = @ + 1]
    /\ dispatched' = dispatched \cup {upload[h].doc}
    /\ upload' = [upload EXCEPT ![h] = IdleHandler]
    /\ UNCHANGED <<dbVars, objects, worker, indexVars, faults>>

(* The handler raises or its process dies; what it wrote so far stays.     *)
AbortUpload(h) ==
    /\ upload[h].pc # "idle"
    /\ upload' = [upload EXCEPT ![h] = IdleHandler]
    /\ UNCHANGED <<dbVars, objects, dispatched, queue, worker, indexVars, faults>>

(* Mutant: the row is removed.                                             *)
DeleteRow(d) ==
    /\ d \in Live
    /\ status' = [status EXCEPT ![d] = "absent"]
    /\ UNCHANGED <<deleted, uploadVars, queue, worker, indexVars, faults>>

(* delete_document: a soft delete; file, points and chunk rows stay.       *)
Delete(d) ==
    /\ d \in Live
    /\ deleted' = deleted \cup {d}
    /\ UNCHANGED <<status, uploadVars, queue, worker, indexVars, faults>>

------------------------------------------------------------------------------
(* The Celery task, process_document, and the delivery of its messages.    *)

Fault(k) ==
    /\ faults' = [faults EXCEPT ![k] = @ + 1]
    /\ \E b \in FaultBounds : \A j \in FaultKinds : faults'[j] <= b[j]

Goto(w, pc) == worker' = [worker EXCEPT ![w].pc = pc]

(* Mutant: receives although nothing is queued.                            *)
ReceiveUnqueued(w, m) ==
    /\ worker[w].pc = "idle"
    /\ queue' = [queue EXCEPT ![m] = @ - 1]
    /\ worker' = [worker EXCEPT ![w] =
            [IdleWorker EXCEPT !.pc = "load", !.doc = m[1],
                               !.retries = m[2], !.held = TRUE]]
    /\ UNCHANGED <<dbVars, uploadVars, indexVars, faults>>

(* acks_late: the message stays with the broker, held for this worker.     *)
Receive(w, m) ==
    /\ worker[w].pc = "idle"
    /\ queue[m] > 0
    /\ queue' = [queue EXCEPT ![m] = @ - 1]
    /\ worker' = [worker EXCEPT ![w] =
            [IdleWorker EXCEPT !.pc = "load", !.doc = m[1],
                               !.retries = m[2], !.held = TRUE]]
    /\ UNCHANGED <<dbVars, uploadVars, indexVars, faults>>

LoadDocument(w) ==
    /\ worker[w].pc = "load"
    /\ worker[w].doc \in Registered
    /\ status' = [status EXCEPT ![worker[w].doc] = "processing"]
    /\ Goto(w, "parse")
    /\ UNCHANGED <<deleted, uploadVars, queue, indexVars, faults>>

(* "Document not found" or a database error: loading is outside the try,   *)
(* so the exception goes straight to the autoretry.  As at every commit    *)
(* below, a commit that raises may have been applied all the same.         *)
LoadFails(w) ==
    /\ worker[w].pc = "load"
    /\ IF worker[w].doc \in Registered
       THEN /\ Fault("postgres")
            /\ status' \in {status, [status EXCEPT ![worker[w].doc] = "processing"]}
       ELSE UNCHANGED <<status, faults>>
    /\ Goto(w, "retry")
    /\ UNCHANGED <<deleted, uploadVars, queue, indexVars>>

(* Download, partition and embed; every chunk gets a new vector id.        *)
ParseAndEmbed(w) ==
    LET d == worker[w].doc IN
    /\ worker[w].pc = "parse"
    /\ d \in objects
    /\ runs' = [runs EXCEPT ![d] = @ + 1]
    /\ worker' = [worker EXCEPT ![w].pc = "upsert", ![w].run = runs[d] + 1,
                                ![w].sent = 0]
    /\ UNCHANGED <<dbVars, uploadVars, queue, points, chunks, faults>>

ParseFails(w) ==
    /\ worker[w].pc = "parse"
    /\ IF worker[w].doc \in objects THEN Fault("service") ELSE UNCHANGED faults
    /\ Goto(w, "except")
    /\ UNCHANGED <<dbVars, uploadVars, queue, indexVars>>

NextPart(w) == <<worker[w].doc, worker[w].run, worker[w].sent + 1>>

UpsertBatch(w) ==
    /\ worker[w].pc = "upsert"
    /\ worker[w].sent < Batches[worker[w].doc]
    /\ points' = points \cup {NextPart(w)}
    /\ worker' = [worker EXCEPT ![w].sent = @ + 1]
    /\ UNCHANGED <<dbVars, uploadVars, queue, runs, chunks, faults>>

(* The call raises; Qdrant may have applied it all the same.               *)
UpsertFails(w) ==
    /\ worker[w].pc = "upsert"
    /\ worker[w].sent < Batches[worker[w].doc]
    /\ Fault("service")
    /\ points' \in {points, points \cup {NextPart(w)}}
    /\ Goto(w, "except")
    /\ UNCHANGED <<dbVars, uploadVars, queue, runs, chunks>>

(* Mutant: the loop over the batches stops one early.                      *)
UpsertDoneEarly(w) ==
    /\ worker[w].pc = "upsert"
    /\ worker[w].sent + 1 >= Batches[worker[w].doc]

UpsertDone(w) ==
    /\ worker[w].pc = "upsert"
    /\ worker[w].sent = Batches[worker[w].doc]

PersistChunks(w) ==
    /\ UpsertDone(w)
    /\ chunks' = chunks \cup PartsOf(worker[w].doc, worker[w].run)
    /\ Goto(w, "mark")
    /\ UNCHANGED <<dbVars, uploadVars, queue, runs, points, faults>>

(* Mutant: an error of persist_chunks is logged, and the task goes on.     *)
PersistErrorSwallowed(w) ==
    /\ UpsertDone(w)
    /\ Fault("postgres")
    /\ chunks' \in {chunks, chunks \cup PartsOf(worker[w].doc, worker[w].run)}
    /\ Goto(w, "mark")
    /\ UNCHANGED <<dbVars, uploadVars, queue, runs, points>>

PersistFails(w) ==
    /\ UpsertDone(w)
    /\ Fault("postgres")
    /\ chunks' \in {chunks, chunks \cup PartsOf(worker[w].doc, worker[w].run)}
    /\ Goto(w, "except")
    /\ UNCHANGED <<dbVars, uploadVars, queue, runs, points>>

(* Mutant: the READY update is never committed.                            *)
MarkReadyForgotten(w) ==
    /\ worker[w].pc = "mark"
    /\ Goto(w, "ack")
    /\ UNCHANGED <<dbVars, uploadVars, queue, indexVars, faults>>

MarkReady(w) ==
    /\ worker[w].pc = "mark"
    /\ status' = [status EXCEPT ![worker[w].doc] = "ready"]
    /\ Goto(w, "ack")
    /\ UNCHANGED <<deleted, uploadVars, queue, indexVars, faults>>

MarkReadyFails(w) ==
    /\ worker[w].pc = "mark"
    /\ Fault("postgres")
    /\ status' \in {status, [status EXCEPT ![worker[w].doc] = "ready"]}
    /\ Goto(w, "except")
    /\ UNCHANGED <<deleted, uploadVars, queue, indexVars>>

(* Mutant: the except clause retries by itself, besides the autoretry.     *)
MarkFailedAndRetry(w) ==
    /\ worker[w].pc = "except"
    /\ status' = [status EXCEPT ![worker[w].doc] = "failed"]
    /\ IF worker[w].retries < MaxRetries
       THEN queue' = [queue EXCEPT ![<<worker[w].doc, worker[w].retries + 1>>] = @ + 1]
       ELSE UNCHANGED queue
    /\ Goto(w, "retry")
    /\ UNCHANGED <<deleted, uploadVars, indexVars, faults>>

(* The except clause: record the failure, then re-raise for the autoretry. *)
MarkFailed(w) ==
    /\ worker[w].pc = "except"
    /\ status' = [status EXCEPT ![worker[w].doc] = "failed"]
    /\ Goto(w, "retry")
    /\ UNCHANGED <<deleted, uploadVars, queue, indexVars, faults>>

MarkFailedFails(w) ==
    /\ worker[w].pc = "except"
    /\ Fault("postgres")
    /\ status' \in {status, [status EXCEPT ![worker[w].doc] = "failed"]}
    /\ Goto(w, "retry")
    /\ UNCHANGED <<deleted, uploadVars, queue, indexVars>>

(* autoretry_for: publish a new message with the next retry number ...     *)
PublishRetry(w) ==
    LET m == <<worker[w].doc, worker[w].retries + 1>> IN
    /\ worker[w].pc = "retry"
    /\ worker[w].retries < MaxRetries
    /\ queue' = [queue EXCEPT ![m] = @ + 1]
    /\ Goto(w, "ack")
    /\ UNCHANGED <<dbVars, uploadVars, indexVars, faults>>

(* ... unless the retries are exhausted, or the broker refuses it.         *)
GiveUp(w) ==
    /\ worker[w].pc = "retry"
    /\ IF worker[w].retries < MaxRetries THEN Fault("service")
                                         ELSE UNCHANGED faults
    /\ Goto(w, "ack")
    /\ UNCHANGED <<dbVars, uploadVars, queue, indexVars>>

(* Mutant: a finished task's message is rejected with requeue.             *)
AckRequeues(w) ==
    /\ worker[w].pc = "ack"
    /\ queue' = [queue EXCEPT ![<<worker[w].doc, worker[w].retries>>] = @ + 1]
    /\ worker' = [worker EXCEPT ![w] = IdleWorker]
    /\ UNCHANGED <<dbVars, uploadVars, indexVars, faults>>

(* The message is acknowledged only now; then the worker is free.          *)
Ack(w) ==
    /\ worker[w].pc = "ack"
    /\ worker' = [worker EXCEPT ![w] = IdleWorker]
    /\ UNCHANGED <<dbVars, uploadVars, queue, indexVars, faults>>

HeldMessage(w) == <<worker[w].doc, worker[w].retries>>

(* Mutant: messages are acknowledged on receipt (no task_acks_late).       *)
RequeueEarlyAck(w) == queue' = queue

Requeue(w) ==
    queue' = IF worker[w].held THEN [queue EXCEPT ![HeldMessage(w)] = @ + 1]
                               ELSE queue

(* task_reject_on_worker_lost: a held message goes back to the queue.      *)
Crash(w) ==
    /\ worker[w].pc # "idle"
    /\ Fault("crash")
    /\ Requeue(w)
    /\ worker' = [worker EXCEPT ![w] = IdleWorker]
    /\ UNCHANGED <<dbVars, uploadVars, indexVars>>

(* The broker takes the message back while the worker keeps running it.    *)
Redeliver(w) ==
    /\ worker[w].held
    /\ Fault("redelivery")
    /\ Requeue(w)
    /\ worker' = [worker EXCEPT ![w].held = FALSE]
    /\ UNCHANGED <<dbVars, uploadVars, indexVars>>

BrokerLoss ==
    /\ Fault("brokerLoss")
    /\ queue' = [m \in Messages |-> 0]
    /\ worker' = [w \in Workers |-> [worker[w] EXCEPT !.held = FALSE]]
    /\ UNCHANGED <<dbVars, uploadVars, indexVars>>

------------------------------------------------------------------------------
HandlerStep(h) ==
    \/ \E d \in Docs : CheckQuota(h, d)
    \/ PutObject(h) \/ InsertRow(h) \/ Dispatch(h) \/ AbortUpload(h)

(* What the worker does by itself, without a fault.                        *)
TaskStep(w) ==
    \/ \E m \in Messages : Receive(w, m)
    \/ LoadDocument(w) \/ ParseAndEmbed(w) \/ UpsertBatch(w)
    \/ PersistChunks(w) \/ MarkReady(w)
    \/ MarkFailed(w) \/ PublishRetry(w) \/ GiveUp(w) \/ Ack(w)

FaultStep(w) ==
    \/ LoadFails(w) \/ ParseFails(w) \/ UpsertFails(w) \/ PersistFails(w)
    \/ MarkReadyFails(w) \/ MarkFailedFails(w) \/ Crash(w) \/ Redeliver(w)

Next ==
    \/ \E h \in Handlers : HandlerStep(h)
    \/ \E d \in Docs : Delete(d)
    \/ \E w \in Workers : TaskStep(w) \/ FaultStep(w)
    \/ BrokerLoss

Spec == Init /\ [][Next]_vars

(* Celery keeps its worker processes running, and every remote call the    *)
(* task makes returns or times out; users and faults owe nothing.          *)
Fairness == \A w \in Workers : WF_vars(TaskStep(w))

FairSpec == Spec /\ Fairness
------------------------------------------------------------------------------
(* Properties.                                                             *)

WorkerStates == [pc : WorkerPcs, doc : Docs \cup {NoDoc}, retries : 0..MaxRetries,
                 run : Nat, sent : Nat, held : BOOLEAN]

(* The variables keep their types; an idle handler or worker has no        *)
(* document, a busy one has one, and only a busy worker holds a message.   *)
TypeOK ==
    /\ status \in [Docs -> Statuses]
    /\ deleted \subseteq Docs
    /\ objects \subseteq Docs
    /\ dispatched \subseteq Docs
    /\ upload \in [Handlers -> [pc : UploadPcs, doc : Docs \cup {NoDoc}]]
    /\ \A h \in Handlers : upload[h].pc = "idle" <=> upload[h].doc = NoDoc
    /\ queue \in [Messages -> Nat]
    /\ worker \in [Workers -> WorkerStates]
    /\ \A w \in Workers : /\ worker[w].pc = "idle" <=> worker[w].doc = NoDoc
                          /\ worker[w].held => worker[w].pc # "idle"
    /\ runs \in [Docs -> Nat]
    /\ points \subseteq Docs \X Nat \X Nat
    /\ chunks \subseteq Docs \X Nat \X Nat
    /\ faults \in [FaultKinds -> Nat]

Queued(d)  == \E r \in 0..MaxRetries : queue[<<d, r>>] > 0
Working(d) == \E w \in Workers : worker[w].doc = d

(* A task never runs into "Document not found" or a missing file: whatever *)
(* stops the upload handler, a message exists only for a document whose    *)
(* file was put and whose row was committed before.                        *)
TaskInputsExist ==
    \A d \in Docs : Queued(d) \/ Working(d) => d \in Registered \cap objects

(* A chunk row always points at an existing vector: no retry, crash or     *)
(* redelivery leaves a row of vector ids that were never upserted.         *)
RowsHavePoints == chunks \subseteq points

(* One execution wrote all the document's points and all its rows.         *)
Indexed(d) == \E r \in 1..runs[d] : PartsOf(d, r) \subseteq points \cap chunks

(* A document is READY only if one complete set of its chunks is in Qdrant *)
(* and in PostgreSQL, however many executions of its task overlap or die.  *)
ReadyMeansIndexed == \A d \in Docs : status[d] = "ready" => Indexed(d)

(* Uploads that passed the quota check and have not inserted their row.    *)
Passed == {h \in Handlers : upload[h].pc \in {"put", "insert"}}

(* The quota check is not atomic with the insert.  Still, together with    *)
(* the uploads under way a tenant exceeds its quota by less than the       *)
(* number of uploads served at the same time.                              *)
QuotaOvershootBounded ==
    MaxDocs > 0 =>
        Cardinality(Live) + Cardinality(Passed) <= MaxDocs - 1 + Cardinality(Handlers)

Happened(kinds) == \E k \in kinds : faults[k] > 0

(* At most one worker at a time executes the pipeline for a document: as   *)
(* long as no worker died and nothing was redelivered, a retry never       *)
(* overlaps the try that failed.                                           *)
OneExecution ==
    ~Happened({"crash", "redelivery"}) =>
        \A v, w \in Workers :
            /\ v # w
            /\ {worker[v].pc, worker[w].pc} \cap {"idle", "ack"} = {}
            => worker[v].doc # worker[w].doc

(* No part of a document has two sets of chunk rows.                       *)
ChunksDeduplicated ==
    \A x, y \in chunks : <<x[1], x[3]>> = <<y[1], y[3]>> => x = y

(* Retries after failures of S3, the parser, OpenAI or Qdrant alone never  *)
(* store a chunk twice: nothing that can fail follows the insert.          *)
NoDuplicateChunks ==
    ~Happened({"postgres", "crash", "redelivery"}) => ChunksDeduplicated

(* The faults after which the broker or a retry runs a task again.         *)
Repeats == faults["service"] + faults["postgres"] + faults["crash"] + faults["redelivery"]

Copies(S, d, part) == {x \in S : x[1] = d /\ x[3] = part}

(* Whatever combination of failures, deaths and redeliveries repeats a     *)
(* task, each brings on one more execution at most: Qdrant and PostgreSQL  *)
(* never hold more copies of a text, for a search to find, than that.      *)
CopiesBounded ==
    \A d \in Docs : \A part \in 1..Batches[d], S \in {points, chunks} :
        Cardinality(Copies(S, d, part)) <= 1 + Repeats

Settled(d) == status[d] \in {"ready", "failed"}

(* What loses track of a document: a database error outside the try, a new *)
(* broker, or the death of a worker whose message was redelivered.         *)
TrackLost == \/ Happened({"postgres", "brokerLoss"})
             \/ Happened({"crash"}) /\ Happened({"redelivery"})

(* Otherwise a published document that is still pending or processing has  *)
(* a message that will be delivered or a worker that is executing it.      *)
NotForgotten ==
    TrackLost \/ \A d \in dispatched : Settled(d) \/ Queued(d) \/ Working(d)

(* A READY document stays READY as long as only S3, the parser, OpenAI or  *)
(* Qdrant fail: nobody polling its status sees it go back.                 *)
ReadyIsFinal ==
    [][~Happened({"postgres", "crash", "redelivery"})' =>
         \A d \in Docs : status[d] = "ready" => status'[d] = "ready"]_vars

(* A published document ends up READY or FAILED for good ("Update          *)
(* Document.status = READY (or FAILED on error, up to 3 retries)").        *)
Settles == \A d \in Docs : d \in dispatched ~> []Settled(d)

(* What the detailed steps promise of a document, module DocumentLifecycle. *)
Lifecycle == INSTANCE DocumentLifecycle
                WITH searchable <- {d \in Docs : Indexed(d)}

(* The upload handler, queue and workers implement the document lifecycle. *)
ImplementsLifecycle == Lifecycle!Spec

==============================================================================
