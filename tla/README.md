# TLA+ specifications of the RAG service

Formal models of the multi-tenant retrieval-augmented-generation service in
`src/`: a FastAPI application (`app/`) in front of PostgreSQL, Redis, RabbitMQ,
Qdrant and S3, and Celery workers that ingest documents. The modules are
translated from the Python source; TLC checks them on small instances, and TLAPS
proves the properties that matter most for every value of the constants.

    tlc -workers 2 -config MCIngestion_faults.cfg MCIngestion
    tlapm IngestionProofs.tla

## 1. The system

Requests arrive at several server processes of several replicas. Each process is
one event loop: an `await` on a store or on the LLM hands control to another
request, so whatever was read before an `await` may be stale after it. Workers
are separate processes that share only PostgreSQL, S3, Qdrant and the queue.
No handler takes a lock or uses a transaction above READ COMMITTED across an
`await`; unique columns (those of `users` above all) are the only arbiters.

| Component | State it keeps | Operations | Where it is hard | What makes it correct |
| --- | --- | --- | --- | --- |
| Upload and deletion, `documents.py` | `documents` rows, S3 objects | ingest, delete, list, status | quota read long before the insert; four stores written one after the other | a task finds its row and file; quota overshoot bounded |
| Ingestion worker, `workers/` | queue in RabbitMQ, Qdrant points, `chunks` rows, document status | `process_document`, retries | late acknowledgement, crashes, redelivery, retries that draw new ids, an except clause that may fail | READY means indexed; rows have vectors; a document settles |
| Sessions, `services/session.py`, `sessions.py` | `sessions` and `queries` rows, hot copy in Redis | create, load, save, close, list | whole-state writes of stale copies; a cold reload while streams run | histories stay well formed, isolated, complete |
| Query stream, `query.py` | the turn in progress | `_sse_stream` | ten awaits between the lookup and the commit; LLM failures in mid-answer | the prompt is the history; what is reported is stored; streams end |
| Accounts, `endpoints/auth.py`, `users.py` | `users`, `tenants`, invites in Redis, tokens | register, login, invite, join, create, change role, deactivate | checks separated from writes; tokens outlive roles | one owner per tenant, roles granted within it, unique emails |
| Authentication and limits, `middleware/auth.py`, `security.py`, `deps.py` | token bucket and login counters in Redis, cached tenants | `get_tenant_ctx`, `check_rate_limit`, `check_login_rate_limit` | read and write in two transactions; INCR and EXPIRE in two calls | grants bounded by the bucket; login windows; no lock-out |
| Retriever, `services/retriever.py` | Qdrant collection (read) | rewrite, hybrid search, rerank | hits are ranked, packed and cited after the search, while documents are indexed, retried or deleted | a search stays within tenant, uploader and selection; sources resolve; failed runs leave few copies |
| Generator, `services/generator.py`, `prompts.py` | none | `build_context`, `generate_stream` | token budgets, partial output | the context is the longest prefix that fits; sources match it |
| Data model, `models/db.py` | table definitions | none | – | – |
| Start-up, `database.py`, `ensure_collection`, `main.py` | tables, schema version, collection, indexes | `init_db`, `ensure_collection` | processes of several containers look and create in separate steps; a loser stops its container | everything exists once a process serves; races end |
| Evaluator, health, tenant information, schemas, configuration, deployment | none of their own | read-only or offline | – | – |

Interactions: `query.py` calls `SessionManager`, then `retrieve`, then
`generate_stream`; `documents.py` publishes a message that a worker consumes;
`register_member` reads what `generate_invite` stored in Redis; the login limiter
guards `login`, and the tenant limiter the queries. Redis evicts (`allkeys-lru`)
and persists nothing (`docker-compose.yml`); RabbitMQ has no volume.

## 2. The modules

| Module | Content |
| --- | --- |
| `DocumentLifecycle` | what the service promises of a document: abstract specification |
| `Ingestion` | upload, deletion, queue and workers, step by step; implements `DocumentLifecycle` |
| `Retrieval` | composes `Ingestion` with query streams that search, rerank, pack and cite |
| `SessionStore` | sessions in Redis and PostgreSQL with the query streams and closes that use them |
| `Accounts` | accounts, roles, invitations and tokens |
| `Limits` | the two rate limiters |
| `Startup` | the lifespan of every server process of every container |
| `IngestionProofs`, `ExecutionProofs` | theorems about `Ingestion`: its data; its executions and its refinement |
| `RetrievalProofs`, `SessionProofs`, `AccountsProofs`, `LimitsProofs`, `StartupProofs` | theorems about the other modules |
| `Induction` | lemmas on induction and recursion over numbers and sequences, cited by `SessionProofs` and `RetrievalProofs` |
| `MC…` | constants, definitions of model values and symmetry for TLC |

Definitions whose comment begins with "Mutant:" are plausible bugs. They are not
part of a specification: substituted for the definition that follows them, each
makes one property fail, which shows that the property depends on that code.

### Ingestion

State: `status` and `deleted` are the columns of `documents`; `objects` the S3
bucket; `queue` counts deliverable messages per document and retry number;
`points` and `chunks` are the Qdrant points and `chunks` rows as triples
(document, run, part). A *run* is one execution of parsing: every run draws fresh
vector ids (`uuid4`), which is why a repeated run adds rows instead of replacing
them. `upload[h]` and `worker[w]` are the program counters and locals of
`ingest_document` and `process_document`; `dispatched` and `faults` are history.

`CheckQuota`, `PutObject`, `InsertRow`, `Dispatch` are the awaits of
`ingest_document`; `AbortUpload` is an exception or death between two of them.
`Receive` … `Ack` are the steps of `process_document` under `acks_late`, with
`XFails` for each call that can raise. A commit or an upsert that raises may have
been applied nevertheless, so those actions choose. `PublishRetry`/`GiveUp` are
`autoretry_for` with `max_retries`; errors of the initial load and of the except
clause bypass the status update as in the code. `Crash`, `Redeliver` and
`BrokerLoss` are the environment: the death of a worker process
(`task_reject_on_worker_lost` puts its message back), a lost connection or
consumer timeout (the message returns to the queue while the task still runs, and
the later acknowledgement is void), and a RabbitMQ container set up anew.

Abstractions: one tenant; content is a number of Qdrant batches (`Batches`, 0 for
a document without text); `error_msg`, `chunk_count`, `processing_ms` and
`embedding_model` are left out; the delay of retries is left out (a retry may be
delivered at any time); a retry that waits for its time is counted as queued.

### SessionStore

State: `sess` the `sessions` row, `hot` the message list in Redis, `rows` the
committed `queries`, `began` their order by `created_at` (the start of the
transaction), `mem[r]` the `SessionState` a request holds, `pc`/`target` its
progress. A message is its role and query; `Exchange` skips an empty answer as
`_load_from_db` does. `Prompt` is `get_history_for_prompt`, over estimated sizes
(`Tokens`) instead of texts. `GetHot`, `LoadFromDb`, `WarmCache` are `get_session`;
`CheckQuery` … `FinishQuery` are `_sse_stream` up to `done`; `CheckClose`,
`DeleteHot`, `MarkClosed` are the close. `Owner` and `Caller` are users or `NoUser`, an
API key: a query needs the same of both, a close is refused only to a user whose name
differs from that of the session's user. `Save` writes the whole state back, which
is the hazard. `Abort` is a disconnect, an exception or a death; `Expire` the TTL
or an eviction. `Concurrency` bounds the requests at work on one session: 1
models clients that take turns, 2 models overlapping streams.

### Retrieval

Extends `Ingestion`: its steps run unchanged beside those of the readers, which only
read `points`. Per reader, `query` is where its stream is and what it asks, `hits`
what Qdrant returned, `ranked`, `context` and `sources` what its last answer was ranked
from, was generated from, and cites. `Ask` is the
question with its caller and `filter_doc_ids` (`{}` for None and for an empty list,
both falsy); `Search` is the one call to Qdrant with its two filtered and limited
branches (`Dense`, `Sparse`) and their fusion (`Fused`); `Answer` the reranking (`Rankings`), `build_context` and
`generate_stream`, whose last chunk has the sources, or none if the LLM failed. A
ranking is any order, so embeddings, the rewritten question and the cross-encoder need no
definition of their own: dense search may return any `TopK` of the matching points,
sparse search the best of any subset, those that share a term with the question. `Owner` is fixed, because a document
id is drawn for its uploader, who is a user (API keys may not upload). `OtherDocs` are
in the collection from the start: documents of other tenants, and legacy ones whose
points carry no `user_id`. Readers do not interact, so one of them meets every
case. Abstractions: a part of a document, a batch in `Ingestion`, stands for one chunk
here, and all chunks of a document have the same estimated size.

### Accounts

State: the `users` table, invites in Redis, the tokens issued so far, and per
request its step and arguments; `granter` is history (who gave a user its role).
A request is named by its id, which is also the id of what it creates. An arrival
is a request with all checks that precede its first `await` (the role in the
token, the validity of the requested role, "not yourself"). `email` stands for
both unique columns, `email` and `username`; passwords and signatures are
abstracted: `FindLogin` may find the active user of the address or fail.
Tokens never become invalid in the model: within the life of a token
the code consults only its claims.

### Limits

State: the two keys of the token bucket with their expiry, the login counter with
its expiry, and per request its time of arrival and what it read. Bucket contents
are integers (units): a request costs `Cost` units and a tick refills one, in
place of floats and seconds. `fresh` and `slack` are history: `fresh[r]` says that
the bucket has not changed since `r` took its time, and `slack` adds up what stale
writes and evictions may have given back. `Tick` expires keys, `EvictBucket` and
`EvictCounter` are Redis evictions, `Crash` the death of a request between calls.

### Startup

State: `prepared` is what exists in PostgreSQL and Qdrant, `pc[p]` the step of the
lifespan of gunicorn worker `p` = (container, slot), `halted` the containers whose
gunicorn shuts down; `restarts` and `faults` are history. `FindTables` /
`CreateTables` are the inspection and the DDL of `create_all`; `FindVersion`,
`ReadHeads`, `Stamp` are `_ensure_alembic_stamped` (the error of its SELECT is
swallowed: `FindVersionFails`); `FindCollection` … `IndexDocument` are
`ensure_collection`. `Create` fails for the process that comes second. An exception
in the lifespan ends the process with gunicorn's boot error and with it the
container (`BootFails`, `Stop`), which the runtime starts again (`Restart`). `Die`,
`ContainerDies` and `CallFails` are faults. Creating an index that exists succeeds in
Qdrant.

## 3. What is checked

Every run explores its whole state space. `CHECK_DEADLOCK FALSE` is stated
because each instance has finitely many requests and documents and may legally
stop when all of them are served.

| Run | Instance | What it shows |
| --- | --- | --- |
| `ingest_faults` | 1 document of 2 batches, 2 workers, 1 retry, 1 fault of each of the 5 kinds | `TypeOK`, `TaskInputsExist`, `RowsHavePoints`, `ReadyMeansIndexed`, `OneExecution`, `NoDuplicateChunks`, `NotForgotten`, `CopiesBounded`, `ReadyIsFinal`, and `ImplementsLifecycle` (refinement of `DocumentLifecycle`) |
| `ingest_settles` | 1 document, 2 workers, crashes or redeliveries, a service error | `Settles` under fairness |
| `ingest_stuck` | 1 database error, no retry left | violation of `Settles` |
| `retrieval` | 3 documents of 2, 1 and 0 batches by 2 users, a legacy document, one of another tenant; questions of both users, of an API key and of the other tenant; 2 uploads at once against a quota of 1; 1 worker, 1 retry, 1 service error; limits of 3 hits and 2 ranked chunks, budget of 5 | `SourcesWithinReach`, `SourcesResolve`, `NoRepeatedSource`, `ContextIsLongestPrefix`, `QuotaOvershootBounded` |
| `session_overlap` | 2 sessions of 2 users, 3 queries, 2 at work on a session, window of 3 messages, 2 evictions, 1 abort | `TypeOK`, `AnswersFollowQuestions`, `NoRepeatedMessage`, `AnswersReachStore`, `HistoriesIsolated` |
| `session_serial` | 1 session, 3 queries of its user and 2 closes, by an API key and by another user, that take turns, 2 evictions, 1 abort, full, partial or empty answers, prompt budget of 3 | `ContextIsHistory`, `PromptIsRecentHistory`, `NoLostTurn` |
| `session_rebuilt` | window of 2 messages, 4 queries that take turns, 1 eviction | violation of `ContextIsRollingWindow` |
| `accounts_roles` | 4 requests of any kind, 3 emails, 1 expiry, 1 crash | `TypeOK`, `OneOwner`, `AdminsByOwner`, `OwnerTokens`, `GrantedWithin`, `DeactivationSticks` |
| `accounts_invite` | the same | violation of `InviteUsedOnce` |
| `limits` | 4 requests of either kind, capacity 4, cost 2, limit 2, window 3, 4 ticks, 1 eviction, 1 crash | `TypeOK`, `OverdraftBounded`, `LoginsPerWindow`, `LockoutOnlyByCrash`, `WindowNotExtended` |
| `startup` | 2 containers of 2 processes, 1 fault of any kind at any step | `TypeOK`, `ServingIsPrepared`, `IndexesLostOnlyByFault`, `RestartsBounded`, and `Recovers` under fairness |
| `startup_index` | 1 container of 2 processes, 1 fault | violation of `CollectionComplete` |

Why the bounds are enough to meet the interesting cases:

- Ingestion: two batches make a partial upsert possible; two workers and one
  redelivery make two executions of one document overlap; one retry makes a
  second run; faults of different kinds combine in every order. The rules for one
  document never look at another except in the quota, which `retrieval` checks with
  more uploads at once (2) than the quota (1) and a third document.
- Retrieval: after a failed run and its retry `d1` alone has at least `TopK` points,
  and with `d2` more, so each limit cuts; with the budget two chunks of `d1` are too
  many, one of `d1` and one of `d2` just fit, and the older documents' chunks never do.
  The two users of the tenant upload one searchable document each, so that a branch
  without its filter finds another user's points next to the tenant's.
- Sessions: with two streams on one session a save overwrites another's messages,
  and with a window of three a question is cut off from its answer; an eviction
  between two awaits sends one stream down the cold path. In `session_overlap`
  there are no closes: for the lists, `DeleteHot` is an `Expire`. The steps of a
  close are taken in `session_serial`, where a window of six holds three turns, so
  that the budget of the prompt and not the window cuts the history. In
  `session_rebuilt` three turns are more rows (3) than the window has messages (2).
- Accounts: a violation of uniqueness needs two requests and of a role rule a
  tenant, a token and two requests about the same user; four requests allow any
  chain of registration, invitation or creation, promotion and deactivation.
- Limits: the clock (4) outlives the window (3) and reaches the life of the
  bucket's keys (4), so both expiries happen with requests in flight.
- Start-up: two containers are needed because a restart takes the other processes of
  its container with it; two processes in each race within and across containers. A
  second fault adds only a restart of its own, which `RestartsBounded` counts.

### Fairness

`Spec` of every module is without fairness. `Ingestion!FairSpec` assumes weak
fairness of each worker's own steps: Celery keeps its pool running, and every
remote call returns or times out; the pool replaces a process that dies, so a
crashed worker is idle again. Uploads, users and faults owe nothing.
`Startup!FairSpec` assumes that every call of the lifespan returns or raises, that
a worker told to stop does so once its lifespan is through, and that a container
that exited is started again (`restart: unless-stopped`, or the kubelet). No strong
fairness is used, and none in `SessionStore`, whose requests never wait for one
another.

## 4. What is proved

All leaves are checked by TLAPS; nothing is assumed but the named assumptions on
constants. The theorems hold for any number of documents, workers, requests,
faults and bounds.

**`IngestionProofs`**, from `DocsAssumption`, `BatchesAssumption`, `BoundsAssumption`:

- `TypeCorrect`: `Spec => []TypeOK`; `TypeOK` is inductive.
- `InputsCorrect` (`TaskInputsExist`): with `InputInv` = `TypeOK` ∧ `UploadOrder` ∧
  `TaskInputsExist`. `UploadOrder` says that an upload past `put` has its object
  and one past `insert` its row; without it nothing is known when `Dispatch`
  publishes. `MessageOrigin` shows that every message and every running task stems
  from an earlier message or from such a `Dispatch`.
- `ReadyIndexed` and `RowsBacked` (`ReadyMeansIndexed`, `RowsHavePoints`): with
  `IndexInv` = `TypeOK` ∧ `RowsHavePoints` ∧ `Progress` ∧ `ReadyMeansIndexed`.
  `Progress` relates a worker's counter to what its run has stored: `sent` batches
  while it upserts, all parts and rows once it is about to mark READY. Since
  points and rows only grow, other workers and faults cannot disturb it.
- `QuotaBound`: for finite sets of documents and handlers,
  `QuotaOvershootBounded`, by counting how live rows and passed checks change.

**`AccountsProofs`**, from `NoneAssumption`, `LimitsAssumption`. One inductive
invariant `IInv`: types; facts about the table (each tenant's founder is its only
and active owner, admins were made by it, granters share the tenant); every token
and invite is *truthful* (its user exists in its tenant and is owner exactly if it
says so, though other roles may be outdated); every request under way is *sound*
(its token is truthful and it only asks for what its kind may). The table alone is
not inductive, because a step writes what an earlier step of the request checked.
It yields `TypeCorrect`, `Ownership`, `AdminsFromOwners`, `RolesFromWithin`,
`OwnersTokens`; with it `UniqueEmails` (the commit re-checks the unique columns)
and the action property `Deactivation` follow.

**`ExecutionProofs`**, about how often a task runs. `UploadInv` adds to `InputInv`
that a document being uploaded has one handler and no message yet. On it rest:

- `NoneForgotten` (`NotForgotten`): `HeldInv` says that a busy worker's message goes
  back to the queue if it dies, unless it was redelivered or lost; `TrackInv` that an
  unsettled document is queued or executed by a worker that will still settle it.
- `ExecutesOnce` (`OneExecution`): `Exclusive`, one message *or* one execution of each
  document, as long as nothing died or was redelivered.
- `StoresOnce` and `ReadyForGood` (`NoDuplicateChunks`, `ReadyIsFinal`): once rows are
  stored, or the status is READY, the document is `Finishing`: not queued, and whoever
  executes it has only the READY update before him. Only database errors, deaths and
  redeliveries lead out of that, which is why the properties exclude them.
- `FewCopies` (`CopiesBounded`) excludes nothing. `WorkInv` counts, for each document,
  the executions so far (`runs`) and those to come: messages in the queue (`Waiting`) and
  workers that have yet to parse or to retry (`Starting`). Their sum is at most 1 since
  the dispatch, and 1 more for each fault that repeats work; receiving, parsing and
  retrying only turn one of the three into another. A document's copies of a text are of
  different runs (`PointsOfRuns`, `RowsHavePoints`), so they are no more than `runs`.

- `Implements`: `Spec => ImplementsLifecycle`. The refinement maps `searchable` to the
  documents with a complete run of points and rows; each action is one lifecycle step or
  a stutter, which needs `TaskInputsExist` (a worker only touches registered documents),
  `ReadyMeansIndexed` and `RowsHavePoints`.

**`RetrievalProofs`**, from `CallersAssumption` (a caller is a tenant and a user, and
uploads have a user), `RetrievalAssumption` (the older documents are finitely many) and
the assumptions of `Ingestion`. `Underneath`, `RetrievalSpec => Spec`: each step
of the composition is one of `Ingestion` or leaves its state, so all its theorems carry
over. `StreamInv` says that everything a stream holds matched the filter of its
question (points are never removed, so it still does): `Reach`. `PointsBacked` (points
belong to documents with a row and a file) gives `SourcesFound`; that a document without
repeated work is parsed once (`ParsedInv`) gives `CitesOnce`. `PacksLongest` (`ContextIsLongestPrefix`) says what
`build_context` returns for every ranking, budget, reserve and size: `SumEquation` shows
that a function with `Sum`'s recursive definition exists, `LongestPrefix` that the chunks
packed end just before the first one that does not leave the reserve, and `PackedInv`
that the context of an answer is what was packed of its ranking, and its sources that
or nothing; the ranking is a finite sequence because the collection stays finite.

**`SessionProofs`**, from the assumptions of `SessionStore`, in two parts.

For any overlap, window, budget and faults, `SessionInv` is inductive: `TypeOK`;
`ListsInv`, every list in Redis or in a request is *tidy* (no message twice, an answer
only right after its own question) and holds only what was said in its session by its
owner; `QuestionLast`, a stream between its question and its answer holds a list that
ends with the question, which is why the answer it appends lands beside it;
`BeganInv`, no query begins twice; `RowsInv`, a row is an answered query of the owner.
The lists of several requests need no relation to each other: a save that overwrites
another's list writes a tidy one, and so does a reload, because rows are distinct and
each contributes its question first. From it follow `TypeCorrect`, `AnswersFollow`,
`NothingRepeated`, `Isolation` and `AnswersStored`.

The other three theorems assume `Serial`: the requests are finitely many and one at a time
is at work on each session, because overlapping saves lose turns. Any of them may die,
keys may expire, answers may be of any kind, and the window is any.

- `WholeContext` and `RecentPrompt` (`ContextIsHistory`, `PromptIsRecentHistory`) speak of
  sessions that are `Unbroken`, and each part of that is needed, because the code gives
  up what it excludes: a stream that dies after its question leaves it in Redis without
  a row; an empty answer is a message in Redis but none in the rebuilt list; beyond the
  window Redis drops the oldest messages but a reload the latest (section 5). They follow
  from `TurnInv` on top of `SessionInv`: one request is at work on a session (`Alone`),
  nothing of the session began after it (`Ordered`), and in an unbroken session both what
  it holds (`HeldInv`) and what Redis holds (`CachedInv`) are the messages of the
  committed rows followed by what the request added itself. The rows are thus the only
  past it can see, by either path. `WholeBefore` says that a broken session stays broken,
  so that each step may assume the session was unbroken before it; `TurnAbort` that a death
  between question and row breaks it.
- `TurnsKept` (`NoLostTurn`) holds for every session, broken or not. `KeptInv` says that
  every list in use which is not full has the question of every row of its session, and
  that Redis holds nothing but what the query on its turn saved last: its commit then
  adds a row whose question is there already. A rebuilt list with fewer messages than
  the window comes from fewer rows than the window, so from all of them (`ColdKeeps`).

`session_serial` is an instance of `Serial`.

`Induction` supplies what these proofs need of data: sets of numbers with 0 and
successors, sets of sequences closed under `Append`, and the existence and uniqueness of
what follows a step function (`Recursion`, `FollowsUnique`). A claim is a set and a
recursive definition a function there, not an operator, so that each lemma can be cited.
With them, what `RowsOf` (`Among`), `Transcript`, `SizeFrom` and `Sum` compute is proved for
sequences of any length.

**`StartupProofs`**, for any number of containers and processes. `Progress` ties each
step to what exists by then: `TypeCorrect`, `ServesPrepared`, `IndexesNotLost`.
`FewRestarts` needs `Restarted`, a count: a race is *decided* for a container when the
resource exists and none of its processes is about to create it; a running container
was restarted at most once per decided race and fault, and one that halts has still a
race to its credit.

**`LimitsProofs`**, from `SetsAssumption` (finitely many requests),
`BucketAssumption` (`Cost <= Capacity <= KeyLife`: keys that expire would be full
again anyway; 60 s against one second of capacity in the code), `LoginAssumption`,
`BoundsAssumption`.

- `TypeCorrect`, `OverdraftIsBounded`: `BucketInv` balances the bucket against
  everything granted: `Spent <= slack + (Capacity - level + last)`, and the same at the
  arrival time of each request whose view is still `fresh`, so that its write pays for
  itself; a write with an outdated view is paid for by `slack`.
- `LockoutsComeFromCrashes`: `LockoutOnlyByCrash` is inductive with `TypeOK`.
- `WindowsEnd` (`WindowNotExtended`): unless Redis dropped a counter, the request
  about to set a lifetime is the one that created the counter (`CounterInv`).
- `AttemptsPerWindow` (`LoginsPerWindow`): `LoginInv` bounds, for every window that is
  still open, what passed so far plus what the running counter may yet let pass, and
  for windows that end after the counter does, that what passed belongs to it.

Every invariant, action property and refinement of the passing runs is proved. Only
model-checked: `Settles` and `Recovers`, because liveness under fairness needs `ENABLED`,
which the prover cannot reason about. `EmailsUnique` is only proved: unique columns decide
it, and no change of the modelled handlers breaks it.

## 5. Disagreements between the code and its words

Four runs end in a violation; each property quotes what the repository says.

- `Settles` with a database error: loading the document is outside the `try`, and
  the except clause may fail too, so a document stays PENDING or PROCESSING.
- `ContextIsRollingWindow` (`src/README.md:204`, "rolling 20-message window"):
  `_load_from_db` orders rows by `created_at` and takes the first of them, so a
  session with more turns than the window has messages is rebuilt without its latest
  turns. In the run the fourth question is answered after the second turn; the third
  is missing.
- `InviteUsedOnce`: an invite is deleted only after its user is committed.
- `CollectionComplete`: a start that fails between the collection and its payload
  indexes leaves them missing for good, because every later start returns as soon as
  the collection exists.

Seen while modelling, without a run of their own: concurrent uploads exceed the
quota (bounded by `QuotaOvershootBounded`); a session that was closed is answered
and cached again; overlapping streams of one session lose a turn in Redis (which
is why `NoLostTurn` is checked where requests take turns); a failed generation
ends in `done`; `max_sessions` is not enforced; tokens of demoted or deactivated
users are honoured until they expire (24 hours); a login counter whose request
died before EXPIRE blocks its address for good; overlapping requests spend one token
of the bucket together (`slack`); a retry after the chunk rows were committed inserts
them again, and nothing reads `text_hash`; the points of failed runs stay, so an
answer can cite the same text twice (`CopiesBounded` says how many copies there can be); the chunks of deleted documents are still found;
the document list and `GET /documents/{id}` show a whole tenant what search restricts to
the uploader, although `src/tests/regression/test_multiuser.py:10` says "Documents are
tenant-scoped: both users can see/upload to the shared corpus"; an
empty `filter_doc_ids` means all documents; the lifespan stamps the version but runs
no migration; `tokens_day` and `usage_logs` are never written or enforced.

## 6. What is not modelled

- The text of prompts, and what decides a ranking: query rewriting, embeddings,
  scores and the cross-encoder. Rankings are arbitrary, which includes theirs.
- Signatures, password hashing, API-key hashes, proxy headers: computations of
  libraries without protocol state.
- `get_tenant_ctx`'s cache of tenants: nothing in the code updates or deactivates a
  tenant, so the cached copy cannot become wrong.
- Health, tenant information and listings: they only read. Evaluator and scripts:
  sequential offline programs. Schemas and configuration: declarations.
- Migrations: run by hand; a start only stamps the version.
- Counters on the session (`message_count`, token totals), latency metrics and
  evaluation scores in the rows of `queries`: nothing reads them but lists.
- In `main.py`, routers and exception handlers.

## 7. Where it can grow

1. `get_session` and the stream under closes that overlap streams, once the code
   says what a closed session may still do.
2. What overlapping streams may lose: a bound on the turns that Redis forgets, beyond
   `Serial`.
3. Recovery of documents whose message was lost, if the service gains a sweeper.
