# QA_RAG in TLA+

This directory verifies the parts of QA_RAG whose correctness lies in the order of things: how an uploaded
document becomes searchable, how a question becomes a stored answer with citations, and how the browser keeps
track of both; and the small algorithms on that way whose boundaries matter: chunking, batching, rank fusion,
context packing, cursor pagination and the framing of the event stream. The models are translated from the code;
TLC checks them on small instances, TLAPS proves their invariants and action properties for every instance.

    tlc -config MCIngestion_broker.cfg MCIngestion        # any run: PROJECT.json lists module and cfg
    tlapm IngestionProofs.tla                             # the proofs: every module named ...Proofs

## 1. The system

| Component | Code | State it keeps | Operations |
|---|---|---|---|
| Upload API, queue | `async_document_upload.py`, `ingestion_queue.py`, `storage.py`, `api/v1/documents.py` | document row (`pending`), original on disk, message in the broker | store file, commit row, `send_task`, mark failed if that raises; inline ingestion when `USE_ASYNC_INGESTION` is off |
| Worker | `worker/tasks.py`, `celery_app.py` | one unacknowledged message per process | deliver (acks late, prefetch 1), autoretry, `on_failure`, redelivery of a lost worker's message |
| `ingest_document` | `ingestion.py`, `document_ingestion_repository.py`, `vector_store.py` | row status, chunk rows, `qdrant_synced_at`; Qdrant points | mark processing; read, extract, chunk, embed; replace chunk rows; delete points; upsert points; mark ready or failed |
| Delete | `document_pipeline.py` | points, row, file | delete points, then row (cascading), then file |
| Reconciliation CLI | `ingestion_reconciliation.py`, `cli/reconcile_ingestion.py` | list of stale rows, a plan | list, plan, apply |
| Preparation | `chunking.py`, `embeddings.py` | none; a document's pages, chunks and vectors in memory | cut pages into overlapping windows, ask the provider batch by batch with retries, compare the totals |
| Retrieval | `hybrid_retrieval.py`, `lexical_retriever.py`, `semantic_chunk_search.py`, `context_packer.py` | none; two rankings, the fused one, the packed context | search twice, fuse, join with the rows, pack |
| Conversations | `conversation_scope.py`, `conversation.py`, `api/v1/conversations.py` | conversation, message and citation rows | create, change the active documents, page through messages, `needs_retry` |
| Answer pipeline | `answer_pipeline.py`, `semantic_cache.py`, `prompt_builder.py`, `llm_provider.py` | one database session per request; Redis cache entries | store question, look the cache up, hydrate, retrieve, stream, store answer, write the cache in the background |
| Event stream | `sse_stream` in `api/v1/conversations.py`, `conversationStream.ts` | bytes on their way, the reader's buffer | write a frame per event; split what arrives into frames, yield their events |
| Client document store | `DocumentPipelineContext.tsx`, `documentService.ts`, `UploadPanel.tsx` | cards, active document (localStorage), polling interval | upload batches, poll, delete, load |
| Client conversation store | `ConversationContext.tsx`, `ActiveConversationScopeContext.tsx`, `chatService.ts` | bubbles, conversation (sessionStorage) | send, retry, hydrate, new chat, select |
| Sessions | `session.py`, `core/security.py`, `api/v1/auth.py` | none (signed tokens) | register, log in, authenticate |
| Extraction | `document_extraction.py` | none | PDF or text to pages |
| Pagination | `core/pagination.py` | none | encode and decode cursors |

**How they interact.** Upload and worker share the document row, the file and the broker's message. A delete
request and the CLI write the same row without any lock but those of Postgres. The vector store has no
transactions: a call that raised may have been applied. The answer pipeline reads documents other requests are
changing, shares the semantic cache among all conversations with the same document set, and writes rows in
three separate transactions around a long LLM stream. The client runs several asynchronous functions over one
React state and finds its conversation again by an id in sessionStorage.

**What is hard.** Crashes between two transactions or between a database and a Qdrant call; redelivered
messages, and messages published although the publisher saw an error; retries that overlap the delivery they
follow; deletes in the middle of everything; a scope read once and used over many awaits; rows dated by the
start of their transaction; cached answers outliving their chunks; a page whose functions interleave.

**What makes each component correct.** *Upload and queue:* an accepted document has somebody left to resolve it unless
its upload request died, and a row always has its file. *Worker:* runs do not overlap on a document; retries end.
*Ingestion:* `ready` means searchable; a decision stands unless the task is delivered again. *Delete:* nothing of the
document is left. *CLI:* it never makes matters worse, and repairs what it lists. *Answering:* an answer's labels name
the chunks it was written from, within the question's scope; one answer per question; an unanswered question is
flagged. *Client conversations:* a bubble is loading while its question is being answered, a refresh brings back the
conversation on the page, the input comes back. *Client documents:* when polling is over, the page shows what the
server has, and polling ends when nothing is pending. *Preparation:* all text is in a chunk, neighbours share the
overlap, vectors belong to their chunks. *Retrieval:* agreement of both searches wins, the context is full and never
too long, labels follow ranks. *Pagination:* no row twice, none of those that were there missed. *Event stream:*
events whole, once, in order and at once, however the network cuts them.

## 2. The modules

| Module | What it is |
|---|---|
| `Ingestion` | upload request, broker, workers, `ingest_document`, delete request and CLI over one shared state |
| `DocumentLifecycle` | the abstract specification: what ingestion promises of a document |
| `IngestionLifecycle` | the refinement mapping from `Ingestion` to `DocumentLifecycle` |
| `IngestionInvariants` | the inductive invariants and the environments they hold in |
| `IngestionProofs`, `LifecycleProofs` | their proofs, and that of the refinement |
| `Answering` | conversations, the answer pipeline, the semantic cache, message and citation rows, and documents changing meanwhile |
| `AnsweringInvariants` | the inductive invariants of `Answering` |
| `AnsweringProofs` | their proofs |
| `Preparation`, `PreparationProofs` | chunking and embedding: what `Ingestion` takes as its step `Prepare` |
| `Retrieval`, `RetrievalProofs` | searches, fusion, join and packing: what `Answering` takes as any ranking of ready documents |
| `Pagination` | the cursor lists over a changing table |
| `EventStream` | the frames of an answer between server and client |
| `AlgorithmProofs` | the proofs about `Pagination` and `EventStream`, and about `MCAlgorithms` as their sum with the two above |
| `ClientDocuments`, `ClientDocumentsProofs` | the document store of the browser and the list it polls |
| `ClientConversation`, `ClientConversationProofs` | the conversation store of the browser and the server side it sees |
| `MCAlgorithms` | one behaviour of `Pagination`, `Preparation`, `Retrieval` or `EventStream` at a time: they share no state, so their sum is one run |
| other `MC…` | constants of the runs |

### Ingestion: state and actions

`status`, `chunks` and `synced` are the columns `documents.status`, `document_chunks` with `embedded_at` null or
set, and `qdrant_synced_at`; `points` is Qdrant and `stored` the disk. `queued[d][n]` counts the broker's
messages for document `d` that carry `request.retries = n`. `at[p]` is the line a run of `ingest_document` is
at: one place per await that touches shared state, so that any other actor can come between. Everything that
touches nothing shared (read, extract, chunk, embed) is one action with the three outcomes it has: go on, a
retryable error, another error.

* A database call commits or raises without an effect (`DatabaseRaises`); a Qdrant call that raises may have
  been applied (`ClearPoints`, `UpsertPoints`); `send_task` may raise before or after the broker stored the
  message (`EnqueueFails`).
* `replace_chunks_pending_embedding` is three actions, because of what Postgres does in between (READ COMMITTED). The
  DELETE fixes the rows it sees when it is issued (`OpenReplace`) and waits for a run that has locked them
  (`DeleteChunks`); rows which that run inserted and committed meanwhile are not among those it deletes, and have the
  same content-derived ids (`clash`). The INSERT then raises `IntegrityError`, and `mark_failed` on that session
  `PendingRollbackError` (`CommitReplace`): the status stays, and neither error is retried.
* A request may die between its steps (`RequestDies`), before or after its row is committed.
* A document's chunks are one unit: ids are functions of the content, a commit replaces all rows and one upsert
  carries all points.
* The CLI lists, plans and applies in separate steps. Any `processing` document may be past the ten-minute
  cutoff, whether or not somebody works on it.

### Answering: state and actions

A document stands for the one chunk of it that retrieval returns; an answer's text is the sequence of chunks its
labels `[1]`, `[2]`, … mean. The prompt holds more than that: the history, with the chunks its answers cited and what
those were written from in turn. These are the answer's `prior`, which goes with it into its row, into the cache entry
made of it, and from there into the answers of other conversations. Rows carry `created`, the start of the transaction
that inserted them, which is what `now()` is in Postgres; `begun[r]` is the open transaction of a request's session,
so that a row inserted after a long stream is dated before it. `at[r]` steps through `AnswerPipeline.answer` with one
action between two awaits that matter: question, cache lookup, the two passes of hydration, retrieval, stream, and the
three ways to store an answer. Inserts check the foreign keys of the conversation, of every cited document, and of
every cited chunk: while a document is processed again its chunk rows are replaced, so an insert may or may not find
them (`Breakable`). Documents go back to `processing`, become ready, lose their points and then their row at any time;
the scope of the conversation changes at any time; a request may end at any step (`Interrupt`).

The non-streaming endpoint consumes the same events and then returns two rows of a page (`Returned`, `Finish`).

### ClientConversation: state and actions

`conv`, `convDoc`, `sending`, `hydrating` are the React state, `persisted` is sessionStorage, `bubble[s]` the
assistant bubble of question `s`. `at[s]` and `load[h]` are the awaits inside `send` and `hydrateConversation`;
`current` is the hydration whose effect was not cleaned up. Cancelled runs go on and may still clear
sessionStorage, as in the code. Everything interleaves: the active document changes by polling, uploads and deletes
while questions are on their way and histories load, New Chat is pressed at any time, a retry overlaps another
question. A body may end without `done` or `error` (`EndsEarly`): `send` then ends without an exception, and the
bubble keeps loading (`at[s] = "cut"`). The list a hydration searches is the first 100 conversations, oldest first;
those in `Beyond` are not among them. `lapses` is a history variable: what came in between since the page was loaded.
The contents of bubbles, the selected message and the citation panel are not modelled.

### ClientDocuments: state and actions

`documents`, `activeId`, `interval` and `isUploading` are the React state. The closures are modelled as what they
captured: `interval` holds the active id that the polling closure compares with, a list request carries it in `calls`
and its answer in `wire`, a batch in `batch`. The server's `table` is its list in the order of `created_at`, of which
the client reads the first page. Lists are requested, served and shown in three steps, so that uploads, deletes and
later lists come between. `InOrder` says whether answers arrive in the order they were given. `Process` decides a
document and `ProcessAgain` takes a decided one back or decides it otherwise, as a redelivery, a second run or the CLI
does; `pending` stands for `processing` too, as the page tells neither apart. A new row may come anywhere in the list,
since `created_at` is the start of its transaction (`Insert`). Nothing obliges `Process` to happen: a request that dies
between storing a file and publishing its task leaves a document pending for good. Lists and uploads fail, files of a
batch are rejected or stored without being published, another tab uploads and deletes, the page is loaded again. The
histories `own`, `unseen` and `reopened` hold the documents uploaded to this page, changed behind it, and processed
again since it was loaded.

### Preparation, Retrieval, Pagination, EventStream

Each is a loop of the code taken step by step, with its input chosen in `Init` and what the environment does in
between. `Cut` is one turn of `chunk_pages`' loop, `BatchAnswered` one batch of `embed_texts`; of a text only the
lengths of its pages matter, of a vector only the chunk it was made from. A batch may come back short, and astray
(`BatchAstray`): too long, out of order, with a vector twice. `SearchLexically`, `SearchSemantically` and
`Join` are the awaits of `hybrid_retrieval.py`, between which documents are processed again, deleted, or still in
Qdrant after their row is gone; scores are compared as fractions, not as floats. `PackBlock` is one turn of
`pack_context`, in characters. `ReadPage` is a query of one row more than the limit, between transactions that begin,
commit and delete; `created_at` is a transaction's start. `ReadPiece` gives the reader any number of the stream's
units, of which a frame has five: the prefix, two halves of the data, two newlines.

## 3. The runs

Deadlock is checked in the two client runs, whose page can always be loaded again; the other systems stop when every
upload or question of the instance is settled.

| Run | What it checks | Instance | Distinct states |
|---|---|---|---|
| `broker` | `TypeOK`, `NoStranded`, `OriginalRetained`, `DecisionsStand` | 1 document, 2 workers, CLI; crash, redelivery, lost or late publish, upload request that dies, aborted delete, CLI crash | 1.69 M |
| `single` | `ReadyIndexed`, `Settles` | 1 document, the one worker of `docker-compose.yml`, 2 retries, 2 crashes, 2 redeliveries, every publish fault | 0.23 M |
| `inline` | `LegalStatusChanges` | 2 documents, one API thread, a CLI with an ingestion service; no Celery | 0.80 M |
| `lifecycle` | `NoOverlap`, `ImplementsLifecycle`, `DecidesUploads` | 2 documents, 2 workers, 1 retry, lost publishes | 0.23 M |
| `answering` | `TypeOK`, `LabelsAgree`, `InScope`, `AnsweredOnce`, `UnansweredIsFlagged`, `HistoryPaired` | 2 documents, 1 conversation, 2 questions, cache on, requests cut anywhere; documents, questions symmetric | 1.20 M |
| `client` | `TypeOK`, `BubblesFollowQuestions`, `RefreshKeepsConversation`, `InputComesBack` | 2 documents, 2 conversations, the second beyond the first 100, 2 sends, 2 hydrations, failing reads, streams that end early, reloads | 0.36 M |
| `documents` | `TypeOK`, `ShowsTable`, `UploadsWatched`, `ActiveIsReady`, `PollingEnds` | 2 documents, batches of up to 2, 2 requests under way, failing lists and uploads, another tab, documents processed again, reloads; answers in order | 0.40 M |
| `algorithms` | `PartsTypeOK`; `NoRepeats`, `NothingMissed`; `TextCovered`, `ChunksAdvance`, `NeighboursOverlap`, `VectorsAligned`; `AgreedFirst`, `BetterFirst`, `ContextFits`, `LabelsInOrder`, `ContextFilled`; `EventsInOrder`, `NothingHeldBack` | see below | 0.29 M |

Four runs check what the documentation says and find it violated:

| Run | Property | What happens |
|---|---|---|
| `reconcile_unserved` | `ReadyServed` | A worker is lost after its run marked the document ready; the redelivered task takes it back to `processing`, deletes its points, fails and marks it failed. The CLI, which listed it while it was processing, reads the `qdrant_synced_at` of the first run, plans `MARK_READY` and applies it: the document is ready and has no points. |
| `delete_leaves_points` | `HardDeleted` | A delete falls between a run's chunk commit and its upsert; the points stay in Qdrant for ever. |
| `history_leaks` | `OnlyActiveParticipate` | An answer written with the history of its conversation is cached under the documents active now; a new conversation on these gets it, with what comes from documents that were never active there. |
| `upload_vanishes` | `UploadedIsListed` | The client asks for the list without a cursor and gets its 20 oldest documents: the next poll takes the card of the 21st off the page, and polling ends without it. The run has a first page of one document. |

What the properties except, and why:

* `NoStranded`: a pending document whose upload request died between the commit of its row and the publish of its
  task; nobody lists it, as the CLI asks for `processing` rows.
* `DecisionsStand`: the lifecycle pending, processing, ready or failed, once and in this order. It excepts a document
  whose publish raised although the broker heard it, and moves among processing, ready and failed once a worker was
  lost or a message delivered again: then decisions do change. `LegalStatusChanges` is what is left of it in every
  environment.
* `BubblesFollowQuestions`: a bubble whose stream ended without a last event loads for ever (`cut`); a question on its
  way may lose its bubble after New Chat or a change of the active document replaced the thread (`"thread"`).
* `RefreshKeepsConversation`: pages on which a hydration was cancelled (`"cancelled"`), or overlapped New Chat or a
  creation (`"astray"`); after a failed read (`"read"`) sessionStorage may be empty, never another id.
* `InputComesBack`: a page on which a hydration was cancelled.
* `UploadsWatched`: documents processed again. `ActiveIsReady`: those, and ones deleted behind the page. `ShowsTable`:
  documents changed behind the page.
* `PollingEnds` is conditional: a document that nobody decides is polled as long as the page is open.
* `VectorsAligned`: documents of which a batch came back too long or out of order have as many vectors as chunks, but
  perhaps not their own.

### Why the bounds are enough

*Ingestion.* Documents share nothing but workers and the CLI, so one document with two workers shows every
overlap of two runs; `inline` and `lifecycle` have two documents. `MAX_RETRIES` is 3 in the code; what matters is a
delivery with retries left, the last one, and the step between them, which 1 or 2 retries give. `MaxCrashes` and
`MaxRedeliveries` bound the faults of one behaviour: with one of each, three deliveries of one message meet. The
safety properties of these four runs are proved for every value of these constants, `ReadyIndexed` of `single` for one
process, as the run has it; only `DecisionsStand` is not.

*Answering.* Two questions are what a history, a cached answer and an overlap need; two documents are what a
partially hydrated answer needs (one chunk left, under label 2). Conversations share the cache only through
their sets of active documents, and one conversation whose scope changes writes entries under all of them.
`OneAtATime` is the user who waits for an answer before asking on in a conversation; `UnansweredIsFlagged` and
`HistoryPaired` need it. All properties of the run are proved for every instance, the others without `OneAtATime`.
`history_leaks` needs two conversations and three questions, and no more: one request runs at a time, each finds
something, documents stay as they are (`OneRunning`, `NoneFails`, `DocumentsChange`).

*Client.* Two sends overlap through the retry button; two conversations are needed for a page that shows another one
than sessionStorage holds, and for one in the list and one beyond it; two hydrations for one that is cancelled by the
next. Anything may happen meanwhile, but a page on which a hydration was cancelled *and* a thread replaced under a
question is not followed further (`NotBothLapses`): of it only the first conjunct of `BubblesFollowQuestions` says
anything. Sends and hydrations are alike, so the next idle one is taken (`NextSend`, `NextLoad`) instead of a symmetry
set, which liveness would not allow. The three invariants of the run are proved for any number of documents,
conversations, sends and hydrations, without `NotBothLapses`; `InputComesBack` is liveness and stays with the run.

*Documents.* A poll, an upload and a removal overlap in pairs; two documents are what a batch needs that is accepted in
part, and a list that has one document more or fewer than the page. `documents` has a first page that holds every
document of the instance, as a user with up to 20 has, and answers in the order they were given (`InOrder`); without
either the properties fail, see `upload_vanishes` and section 5. `OneBehind` lets one document at a time change behind
the page until it is loaded again, `TwoAtATime` has two requests or answers under way, the upload included. A third
document adds one case, the active document deleted elsewhere while the closure goes by another one (section 5), which
is why `ActiveIsReady` excepts it; the three invariants are proved for any number of documents, files of a batch, and
lists and removals under way, and without these two bounds.

*Algorithms.* Pagination: three rows, which share a `created_at` or do not, in pages of one or two rows; limits 0, 1
and 3, of which 0 and 3 are out of bounds. A walk that goes wrong does so at one cursor, and two pages with a row
before, at and behind it are enough. Preparation: every text of one or two pages of up to five characters, every size
up to 3 with every overlap below it, batches of two, three attempts; five characters give up to five windows, with the
last one full, short, or absent; one batch of a document may come back astray, and the others then come back whole
(`OneAstray`). Retrieval: two documents of two chunks, each chunk in either, both or no ranking, a final cut of three;
blocks of 1, 3 and 7 characters against a context of 6, so that a first block is too long, and a later one fits, fits
exactly or does not fit. Stream: three events of five units, in pieces of any size. What is proved of them holds for
all sizes, see section 4.

### Fairness

*Ingestion.* A request that committed its row runs on; an idle worker takes messages and is restarted when lost; a run
of `ingest_document` goes on, since each of its awaits ends by a client timeout. Nothing is assumed of users, faults
and the CLI. Faults are bounded, which is what `Settles` needs: with a crash in every delivery nothing would ever
settle. *Client.* Every request of the page is answered or fails in the end; nothing is assumed of the user.
*Documents.* Lists and uploads are served, the interval fires; a list that is requested again and again is shown again
and again (strong fairness: lists may fail, but not always, as the interval asks again every time). Nothing is assumed
of uploads that fail, other tabs or page loads, nor that a document is ever decided: `PollingEnds` says what follows
if it is. *Answering* has no liveness property: a request may be cut at any step.

## 4. What is proved

`IngestionProofs` and `LifecycleProofs`, for all sets of documents, workers, API threads and ingesting CLIs, all retry
limits, crash and redelivery bounds:

| Theorem | Assumes | States |
|---|---|---|
| `TypeCorrect` | – | `Spec => []TypeOK` |
| `NothingStranded` | `CeleryOnly`, `DatabaseAnswers` | `Spec => []NoStranded` |
| `RunsDoNotOverlap` | `DeliveredOnce` | `Spec => []NoOverlap` |
| `ReadyIsIndexed` | `DeliveredOnce`, `DeletesComplete` | `Spec => []ReadyIndexed` |
| `ReadyIsIndexedByOne` | `OneProcess`, `DeletesComplete` | `Spec => []ReadyIndexed` |
| `StatusChangesAreLegal` | – | `Spec => LegalStatusChanges` |
| `OriginalAlwaysRetained` | – | `Spec => []OriginalRetained` |
| `IngestionImplementsLifecycle` | `DecidedOnce` | `Spec => ImplementsLifecycle` |

The only facts about constants, here and below, are those of the modules' assumptions, which TLC evaluates. The
environments are named in `IngestionInvariants`: `CeleryOnly` (no inline ingestion), `DatabaseAnswers` (the database
does not fail; workers, upload requests and the CLI may), `DeliveredOnce` (no lost worker, no redelivery, no ingesting
CLI), `DeletesComplete` (a delete that removed the points removes the row), `OneProcess` (one process runs
`ingest_document`, one document at a time, and the CLI does not run), `DecidedOnce` (both, and no publish that raises
although it was heard, and no database error).

**NothingStranded.** `NoStranded` is not inductive: it counts every run on the document, also one that has done its
last write. `ResolverInv` says that a resolver exists which still *will* resolve or hand over: a request before the
publish, a message, or a run at a place from which every way leads to a status, a retry message, or an exception with
no retries left. The delicate case is two runs on the chunk rows: one whose DELETE was issued before the other's
commit is doomed (`clash`), raises without a status, and acknowledges without a retry, so it does not count; the one
that doomed it does. A crash turns a run into a message. A request that died resolves nothing, but its document is
then still pending and no worker knows of it.

**RunsDoNotOverlap.** `DeliveryInv`: before the publish nothing has started, there is at most one message and
then no live run, and at most one live run. Autoretry publishes while its own run is live, in the same step in
which that run goes to its acknowledgement; this is the overlap `NoOverlap` permits.

**ReadyIsIndexed.** `IndexInv` adds what a run has built at each place, that a synced document has no more work
ahead of it, and that a plan `MARK_READY` is as old as its synced row. It fails without `DeliveredOnce`, as
`reconcile_unserved` shows.

**ReadyIsIndexedByOne.** With crashes and redeliveries a document that was synced is worked on again, so `IndexInv`
does not hold. `SerialInv` needs nothing of the row but its status: from `Load` on, the only run knows its document as
not ready (`BuildsUnready`), so that all it changes of the index belongs to a document that promises nothing; when it
marks it ready, chunk rows and points are those it has built itself (`RunHasIndex`). A crash leaves `processing`
behind, and the next delivery starts from there. A second process breaks `BuildsUnready`: it may mark ready what the
first is about to clear.

**StatusChangesAreLegal, OriginalAlwaysRetained.** `StatusInv`: whoever may mark a document ready, a run past `Load`
or a CLI with a plan, knows it as processing, and that is never undone; a row that is gone has no upload request that
could bring it back. Since updates are `WHERE id = d` and not upserts, nothing else is needed, whatever fails.
`FileInv` adds the file that is stored before there is a row.

**IngestionImplementsLifecycle.** A step of the code maps to the step of the document's life it takes, or to none,
provided that nobody overwrites a decision and that the index of a decided document stays. `DecisionInv` says so:
while a message, a publish or a run is ahead of a document, or in work on it, it is neither ready nor failed; the tail
of a failed run, on which `on_failure` marks it failed again, may follow only that. It needs `DeliveryInv`, since a
second run would be in work on what the first decided, and `IndexInv`, from which the index of a document that becomes
ready follows.

`AnsweringProofs`, for all documents, conversations and requests, with and without the cache or interrupts:

| Theorem | Assumes | States |
|---|---|---|
| `TypeCorrect` | – | `Spec => []TypeOK` |
| `LabelsAlwaysAgree` | – | `Spec => []LabelsAgree` |
| `AnswersStayInScope` | – | `Spec => []InScope` |
| `AnsweredAtMostOnce` | – | `Spec => []AnsweredOnce` |
| `OnlyTheCacheLeaks` | `~CacheEnabled` | `Spec => []OnlyActiveParticipate` |
| `HistoryAlwaysPaired` | `OneAtATime` | `Spec => []HistoryPaired` |
| `UnansweredAlwaysFlagged` | `OneAtATime` | `Spec => []UnansweredIsFlagged` |

The properties are about rows; why they hold is in the drafts and in the cache. `SourceInv` says, place by place, what
a draft is written from: its labels are those of its text, its text is from the active documents of the scope, and
from hydration or retrieval on, it cites only ready ones; an entry of the cache is written from the set it is filed
under, which is why sharing it is safe; and a generated answer cites its whole text, which is why the entry made of it
has the text's labels. Types need it, too: only so is an entry a text. `OnceInv` adds that an assistant row exists
only for a request at its last place, and that it is there while its conversation is once its client was told so; a
conversation that is gone does not come back under a request that still runs.

**OnlyTheCacheLeaks.** `PriorInv`: what a request of a conversation is about to store, and what its rows were written
from, was active in it for one of its questions; the history adds only what rows of the same conversation hold. It is
`OnlyActiveParticipate` that `history_leaks` refutes with the cache, and the theorem says that nothing but the cache
does it: `InScope` and `AnswersStayInScope` are about the chunks labels name, not about the history.

**HistoryAlwaysPaired, UnansweredAlwaysFlagged.** Both are about the order of rows, which are dated by transactions
that begin long before they commit. `OrderInv` says why that order is nevertheless the order of questions: a
conversation has one running request, each of its transactions began after all rows the conversation then had, so the
rows of one request lie together. `QuestionInv` says that the question is the first of them, and goes only with the
conversation. Without `OneAtATime` neither property holds, see section 5.

`ClientConversationProofs`, for all documents, conversations, sends and hydrations, with and without failing reads:

| Theorem | Assumes | States |
|---|---|---|
| `TypeCorrect` | – | `Spec => []TypeOK` |
| `BubblesAlwaysFollow` | – | `Spec => []BubblesFollowQuestions` |
| `RefreshAlwaysKeeps` | – | `Spec => []RefreshKeepsConversation` |

Neither property is inductive: a hydration that ends replaces the whole thread, so both need to know what may be under
way at that moment. `BubbleInv`: while a hydration runs that is not cancelled, `isHydrating` is set, so no question
begins (this is where the guard of `send` is used), and if one was on its way when it began, the thread was noted as
replaced. `RefreshInv`: on a page on which no hydration was cancelled or strayed, there is one at most, the current
one, `isHydrating` is set exactly while it runs, no conversation is being created meanwhile, and the id it looks for
is still the one in sessionStorage.

`ClientDocumentsProofs`, for any number of documents, files of a batch, and lists and removals under way:

| Theorem | Assumes | States |
|---|---|---|
| `TypeCorrect` | – | `Spec => []TypeOK` |
| `ActiveStaysReady` | `InOrder`, `FirstPageHoldsAll` | `Spec => []ActiveIsReady` |
| `PageShowsTable` | `InOrder`, `FirstPageHoldsAll` | `Spec => []ShowsTable` |
| `OwnUploadsWatched` | `InOrder`, `FirstPageHoldsAll` | `Spec => []UploadsWatched` |
| `UploadsAreListed` | `InOrder`, `FirstPageHoldsAll` | `Spec => []UploadedIsListed` |

What the page shows is what the server had when it answered, so the invariants are about the answers on their way.
`InOrder` is an assumption the store does not check (it does not number its requests), see section 5;
`FirstPageHoldsAll` (no more documents than `PageLimit`, the server's 20) is a user with few documents: without it
`upload_vanishes` refutes `UploadedIsListed`, with it that is `UploadsAreListed`. `ActiveStaysReady` needs it as well
since a new row may come anywhere in the list and push another one off the first page.

* *Types* (`TypeInv`): there is one batch at a time, from the button to its answer; what was uploaded to this page and
  not deleted is in the table; a removal on its way names a deleted document. Any order of answers keeps this.
* *Lists* (`ListInv`): a card of a list on its way is up to date or was pending then, or its document was processed
  again or is deleted by now, behind the page's back or by a removal that arrives after the list (`CardInv`); and what
  one list has decided the next lists repeat, unless it was processed again (`RepeatInv`). Only so does a list that
  arrives not undo what an earlier one showed.
* *The active document* (`AskedInv`, `ActiveInv`): until a list is shown every closure holds the id of the page load;
  from then on the active document is shown as ready and all lists to come show it so, unless its removal comes first.
  The captured id may be any other one: if that is still ready in the list, the active document is in the list as
  well.
* *The page* (`PageInv`): a list on its way has the rows of the table but for what a later answer tells (`RowsInv`),
  and so has the page once polling is over (`ShownInv`); a list that follows an upload's answer has its documents
  (`OwnInv`), so the list that ends polling shows all of them (`ListedInv`) and has decided those not processed again
  (`OffInv`).

`AlgorithmProofs`, `PreparationProofs`, `RetrievalProofs`, for all tables, limits, texts, settings,
rankings, lengths, bounds, numbers of events and ways to cut a body:

| Theorem | States | Argument |
|---|---|---|
| `PagesDoNotRepeat` | `PaginationSpec => []NoRepeats` | What was returned is at or before the cursor; `Before` is a strict order. |
| `PagesMissNothing` | `[]NothingMissed` | A row at or before the cursor was returned or is late; the first n rows of a set leave none behind. |
| `AllTextIsChunked` | `PreparationSpec => []TextCovered` | The chunks of the page being cut cover it up to the next window's start plus the overlap. |
| `ChunksAreDistinct`, `OverlapIsKept` | `[]ChunksAdvance`, `[]NeighboursOverlap` | The page's chunks start before the next window and end at most the overlap behind its start. |
| `VectorsMatchChunks` | `[]VectorsAligned` | Unless one came astray, vectors are a sequence of batches cut short: as many as chunks only if none was. |
| `AgreementWins` | `RetrievalSpec => []AgreedFirst` | Two reciprocals with ranks up to 61 sum to at least 2/121, more than 1/61, the most one search can give. |
| `BetterComesFirst` | `[]BetterFirst` | Smaller ranks give larger terms, and 1/x + 1/y grows with each; where a chunk is found, one as good is found with a larger term; the join takes a part of the fusion in its order. |
| `ContextIsBounded`, `LabelsFollowRanks`, `ContextIsFilled` | `[]ContextFits`, `[]LabelsInOrder`, `[]ContextFilled` | The length reckoned with is the end of the last block, and the next chunk is one behind the number of blocks. |
| `EventsComeInOrder`, `EventsAreNotHeldBack` | `StreamSpec => []EventsInOrder`, `[]NothingHeldBack` | The buffer is the stream from the last frame yielded to what was delivered, its first blank line is the end of the next frame, and without one at most four units are left. |
| `RetrievalTypeCorrect` | `[]RetrievalTypeOK` | The join's chunks have different places in the fusion, so there are no more of them. |
| `PartsTypeCorrect` | `Spec => []PartsTypeOK` | A behaviour of `MCAlgorithms` is one of each of the four, which moves or stands still; each keeps its types. |

`AgreementWins` rests on pools of at most 61 chunks, which `AgreedFirst` needs (the code's defaults are smaller).

**Only model-checked:** liveness (`Settles`, `DecidesUploads`, `InputComesBack`, `PollingEnds`), which is out of this
prover's reach, and the action property `DecisionsStand`; every other safety invariant and action property of the
passing runs is proved. No theorem is about what a recursive definition computes, and none of the models needs one;
where a proof needs a least element of a set of numbers (`FirstReady`), it comes from the well-foundedness of `<`.

## 5. What the models show besides

Seen while modelling, without a run of their own:

* Two workers and a redelivery can leave a document ready without points even without the CLI: the first run upserts
  its points; the second replaces the chunk rows, deletes the points, fails and marks the document failed; the first
  marks it ready. `ReadyServed` fails of this, too. A redelivered task also takes a ready document back to
  `processing`, which the lifecycle of README.md:225 does not have; `ImplementsLifecycle` is therefore checked without
  redelivery.
* Without Celery a retryable error leaves the document `processing` with nobody to retry (README.md:331 speaks of
  Celery only).
* A `pending` document whose API process died before the publish is nobody's: the CLI lists `processing` rows only.
  `NoStranded` says that nothing else is left so.
* A run that waited for the chunk rows of another ends without a status and without a retry (`CommitReplace`); its
  document is then resolved by the other run only.
* A stale document whose chunk rows are pending is planned `QDRANT_UPSERT_ONLY`, which the CLI answers `applied=False`
  on every pass; so is `FULL_REINGEST`, as the CLI builds its service without an ingestion service. README.md:14
  promises that stale states are fixed.
* Pass 1 of hydration checks that *some* cached chunk is in Qdrant (README.md:438: chunk existence).
* With two questions of one conversation in flight the history may pair a question with the answer to the other, and
  `needs_retry` looks at the latest row only.
* An answer the client has read is not stored if a document it cites is deleted during the stream, or if it is
  processed again at the moment of the insert: the citations then break a foreign key, on `documents` or on
  `document_chunks` (models/citation.py:26-30), and the session rolls back. A crash or a database error at the commit
  loses it as well. README.md:435 promises that a message persists. The question stays, and `needs_retry` is right
  about it (`UnansweredIsFlagged`).
* `POST /conversations/{id}/messages` returns `items[-2]`, `items[-1]` of a page of two messages, oldest first
  (conversation.py:123-134): from the second question of a conversation on, that is the first question and its answer
  (README.md:234). `Returned` and `Finish` have it; no property is about what is returned.
* The client does not use `needs_retry` (README.md:435 promises a retry prompt), shows stored failures as ordinary
  answers after a refresh, and Retry during a hydration removes the failed bubble without asking again.
* A hydration cancelled by the delete of the active document leaves `isHydrating` set if the next effect returns
  early: the input stays disabled.
* A change of the active document during a send replaces the thread with its loading bubble; the answer is stored and
  shows nowhere until the next hydration (`BubblesFollowQuestions` excepts it as `"thread"`).
* A body that ends cleanly without `done` or `error` (conversationStream.ts:95, 110-114) ends `send` without an
  exception: the bubble loads until the page is loaded again, and offers no retry.
* New Chat during a hydration: the hydration puts the old conversation back into the page but not into sessionStorage,
  and a refresh then shows none (README.md:275-276: a session survives a refresh). A change of the active document
  while a conversation is being created has the same effect, the other way round.
* A conversation beyond the first 100, oldest first (chatService.ts:95-98), is taken for deleted by the next
  hydration: page and sessionStorage forget it, although the server has it (README.md:275).
* A failed read of the list or of the messages forgets the conversation, too.
* Retry while another question is on its way: the first of the two to end clears `isSending`, and the input is usable
  while the other still runs. No property objects to it.
* With `InOrder = FALSE` in `documents`, `ShowsTable`, `UploadsWatched` and `ActiveIsReady` fail: an older list
  overwrites a newer one, brings deleted documents back, and may end polling with an upload still pending.
* A document processed again after polling ended stays shown as it was decided first, and stays the active one.
* A document nobody decides (its upload request died, the CLI cannot apply its plan, an inline run met a retryable
  error) is polled as long as the page is open.
* A provider that answers one batch with a surplus and another with a lack, or a batch out of order, is not noticed:
  vectors are paired with chunks by position (embeddings.py:21-32, 61-71).
* The polling closure compares with the active id of the render that started it: a poll replaces the active document
  by the first ready one whenever that id was null then, even if another document was chosen since. The other way
  round, a closure that captured a document which is still ready leaves an active document that was deleted elsewhere
  (DocumentPipelineContext.tsx:57): its id stays in localStorage, and no document is active although some are ready.
* Nothing polls after a page load: a document that is pending then is shown pending until the next upload.
* An upload that fails leaves `isUploading` set and the button disabled until the page is loaded
  (UploadPanel.tsx:15-18); files of a batch whose task could not be published are stored as failed but are not among
  the results (documents.py:110-118), so no card shows them until a list does.
* Retry of a failed document does nothing (DocumentPipelineContext.tsx:102-105; README.md:270 lists it).
* Histories are the first 100 messages (chatService.ts:100): the latest ones of a longer conversation are not shown.
* The selection of active documents keeps ids of deleted documents (ConversationContext.tsx:85), and Save sends two
  requests, of which the second may fail alone (ManageActiveDocumentsDialog.tsx:73-77).
* A row whose transaction began before a page was read and committed after it is behind the cursor and is skipped by
  the walk (db/base.py:20); `NothingMissed` excludes such rows.
* Chunks of deleted documents that Qdrant still has take places in the final ranking (hybrid_retrieval.py:101): a
  question may get fewer chunks than there are, or none.

## 6. What is not modelled

| Part | Why |
|---|---|
| Sessions, users, ownership | every model has one user; tokens are stateless |
| Extraction | the libraries' parsing; its outcomes are page lengths in `Preparation` and the errors of `Prepare` in `Ingestion` |
| The embedding model and the LLM | remote; their outcomes are alternatives of the actions that call them |
| Scores and relevance | rankings are any rankings |
| The encoding of cursors, the contents of events | taken as values; no property is about their form |
| Prompts, snippets, wording, logging, schemas, migrations, readiness | no property is about them |
| Contents of bubbles, the selected message, the citation panel | the client models follow which bubble is whose, not what it says |
| React components | presentation, but for the buttons' `disabled`, which are guards of the client models |

## 7. Plan

Done: `Ingestion` with its refinement, `Answering`, `Preparation`, `Retrieval`, `Pagination`, `EventStream`,
`ClientConversation` and `ClientDocuments`, each with the proofs of its invariants. Left:

1. A proof of `DecisionsStand`, whose invariant has to follow every place of a run while nothing was delivered again.
2. `ClientDocuments` composed with `ClientConversation` through the active document, in place of the free
   `ActiveChanges` of the latter.
3. An abstract specification of the client's document list, implemented by `ClientDocuments` under `InOrder`.
