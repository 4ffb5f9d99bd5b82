# TLA+ specifications of the personal-docs backend

A FastAPI service in which users upload documents, have them cut into chunks and
embedded in the background, and ask questions about them in chat sessions; the
answers are streamed and the turns kept. These modules specify the parts of it
where the order of steps matters, check them with TLC and prove the central
results with TLAPS. Paths below are relative to the repository.

## 1. The system

One asyncio process serves every request and runs every background task. Code
between two `await`s is never interleaved with other code of the process; MinIO
calls, the document parser and the text splitter are synchronous. Everything
awaited (database statements, commits, OpenAI, Keycloak) is a point where other
requests run.

| Component | Code | State | Operations |
|---|---|---|---|
| File service | `app/api/v1/files.py`, `app/services/file_service.py` | rows of `files` and `file_chunks`, objects in the MinIO bucket, background tasks in memory | upload, index, list, get, download URL, search, delete |
| Chat and RAG stream | `app/api/v1/chat.py`, `app/services/chat_service.py`, `app/services/rag_service.py` | rows of `chat_sessions` and `chat_messages`, one generator per question | create/list/get/delete session, send message |
| Token verification | `app/core/security.py`, `app/core/dependencies.py`, `keycloak_service.get_jwks` | the process-wide `_jwks_cache` | verify a bearer token, fetch and invalidate keys |
| Accounts | `app/api/v1/auth.py`, `app/services/user_service.py`, rest of `keycloak_service.py` | users in Keycloak, rows of `users` | register, login, refresh, SSO callback |
| Parser | `app/utils/file_parser.py` | none | bytes to pages of text |
| Database sessions | `app/db/base.py`, `app/core/dependencies.py` | the connection pool | take, wait for and return a connection; one session per request, one more per stream |
| The rest | `app/main.py`, settings, schemas, `alembic/`, `agents/` | none | wiring, DDL, scripts of the developers |

How they interact: every handler first verifies its token (and thereby may fetch
keys from Keycloak), then works on its own database session. The upload handler
hands its row to `index_file`, a background task in the same process, which the
delete handler knows nothing of. The chat stream reads the chunks that the index
task wrote (`search_similar_chunks`) and names files through `get_file`.
PostgreSQL and MinIO share no transaction.

What is hard about it:

- *Two stores, no transaction.* Upload writes the object, then the row; deletion
  removes the object, then the row. Any call may fail between the two, and a call
  that raised may still have taken effect.
- *A background task over a row anybody may delete.* `index_file` holds an ORM
  object across five awaits. PostgreSQL's foreign key and SQLAlchemy's count of
  updated rows are all that keeps a deleted file deleted.
- *Streams that outlive what they show.* A turn is saved after its `done` event, in
  two transactions, while the client may hang up, other questions of the session
  run, and the session may be deleted.
- *Timestamps of transactions.* `created_at` defaults to `now()`, in PostgreSQL the
  begin of the transaction: for a question, before retrieval and generation.
- *A bounded pool.* The pool gives out fifteen connections. A stream keeps one while the
  model writes, an index task works on a session that nobody closes again.
- *Answers about files that change.* Between the search and the list of sources lies
  the whole answer of the model; files are indexed and deleted meanwhile.
- *Accounts in two places.* Registration creates the account in Keycloak, logs in and
  writes the row, each of which may fail; names are unique in both places, but rows
  learn of a change in Keycloak only at the next login.
- *A shared cache with concurrent fills.* Answers of Keycloak may overtake each
  other, and each failing token empties the cache for all.

What makes each component correct: *files*: a deleted file stays deleted; search sees
whole documents; the stores differ only in ways some request accounts for and was told
of; accepted files last and settle. *Chat*: nothing partial is kept, an answer follows
its question, the model sees exactly the recent past, the client learns of a turn that
was not kept. *Search and sources*: chunks carry the whole document in order and no
wrong page, a search finds the asker's indexed files only, sources are hits, the closest
of each file among them. *Pool*: nobody waits for a connection while holding one, and
everybody is served. *Tokens*: no valid token is refused, no withdrawn key outlives the
cache. *Accounts*: who holds a token has a row, with an id that stays; a registration
that stopped half way was not called a success or a conflict.

## 2. Modules

| Module | What it is |
|---|---|
| `DocumentStore` | abstract specification of the file service: documents are added, indexed at most once, published as a whole or given up, removed for good |
| `FileLifecycle` | the handlers and the index task over both stores, with failures and crashes; implements `DocumentStore` |
| `MCFileLifecycle` | TLC instances of it |
| `FileLifecycleProofs` | inductive invariant, safety theorems and refinement |
| `Conversation` | abstract specification of a chat session: questions are answered from the newest messages of the transcript, turns are added whole |
| `ChatStream` | one chat session and the streams of the questions sent to it; implements `Conversation` |
| `ChatStreamProofs` | inductive invariant and safety theorems |
| `ConversationProofs` | the refinement of `Conversation`, for a client that waits |
| `DocumentParser` | from a document to its chunks, as operators, with a reference definition |
| `DocumentParserProofs` | the reference definition holds of every document |
| `Retrieval` | search over those chunks and the sources of an answer, while `DocumentStore` changes |
| `MCRetrieval` | TLC instances of it: files, owners and documents |
| `RetrievalProofs` | inductive invariant and theorems |
| `ConnectionPool` | who holds, awaits and returns the connections of the pool |
| `ConnectionPoolProofs` | inductive invariant and theorems |
| `JwksCache` | token verification over the cache of Keycloak's keys |
| `MCJwksCache` | TLC instances of it, with the symmetry of requests and keys |
| `JwksCacheProofs` | inductive invariant and theorems |
| `Accounts` | registration, login and SSO callback over Keycloak's accounts and the table `users` |
| `MCAccounts` | TLC instances of it, with the symmetry of requests, subjects and names |
| `AccountsProofs` | inductive invariant and theorems |

Definitions commented *Faulty variant* are not part of a specification. Each is one
operation with a plausible mistake; `PROJECT.json` says which property of which run
refutes it when it takes the place of the operation defined after it.

### FileLifecycle

A file stands for one `POST /files` request and the id it generates. `row` is
`index_status` or "none", `chunks` the `chunk_index` values stored for a file,
`objects` the bucket. `upload`, `task` and `deletion` are program counters of the
handlers; their final values are the answers given. `plan` is
`len(chunks_to_insert)` and `gone` the files whose deletion was answered 204.

| Action | Code |
|---|---|
| `UploadReject` / `UploadPut` / `UploadInsert` / `UploadRefresh` | 415 and 413; `put_object`; insert and commit; refresh, `add_task` and the answer |
| `IndexSelect` / `IndexMark` / `IndexRead` / `IndexEmbed` / `IndexSave` / `IndexFail` / `IndexGiveUp` | one per awaited call of `index_file`; `IndexRead` holds all the synchronous work, `IndexSave` the one transaction of chunks and status |
| `DeleteFind` / `DeleteObject` / `DeleteRow` | the three calls of `delete_file`, the last with its cascade; a deletion answered 500 is "refused" when nothing was looked up yet, "error" from then on |
| `Crash` | the process dies and restarts; stores survive, handlers and tasks do not |

`Faults` says which failures may happen: `store` (MinIO raises, having acted or
not), `db` (a statement or commit fails), `save` (only the insert of chunks is
refused), `parse`, `embed`, `crash`. A failed commit is taken not to have
committed; the committed row whose handler never learns of it arises from a
failing refresh and from a crash after the insert.
Library behaviour the actions rely on: an ORM `UPDATE` that matches no row
raises `StaleDataError`, a `DELETE` only warns; after a failed flush a session
refuses to commit until it is rolled back; the request's session stays usable by
the background task and does not expire attributes at commit
(`expire_on_commit=False`). `files.deleted_at` is written nowhere and is left out.

### ChatStream

A session is created (`CreateSession`) and questions 1..N are sent to it. `pc` is
where each generator stands, from `Send` (the handler up to the response header) to
"closed" (returned), "broken" (raised: the body ends without its last chunk) or
"cut" (cancelled because the client left). `began` is the begin of the open
transaction of its session, so that an inserted message carries `at` (`created_at`)
and `saved` (when it was stored). `clock` is database time, one tick per begin and
insert; equal timestamps do not occur. `Client` says who sends: "concurrent" at any
time, "patient" after the last stream ended, "hangsUp" closing at `done` as the API
reference says. `fallback` marks questions without a hit, whose code is outside the
`try`: a failure of theirs breaks the body off where others send an `error` event.

`Recent` is `get_recent_messages`: `LIMIT` takes any `Limit` rows that precede all
others in descending order, and the list is reversed.
`Conversation` is the same session with atomic turns. Under the refinement mapping
`Talk` a question is asked when its history was loaded, a turn enters the
transcript when its answer is stored, and one that ends otherwise leaves nothing or
its question alone, as a crash of the stream between the two saves does. This holds
for a client that waits for its streams; overlapping questions see histories that
no order of whole turns explains.

Contents, prompts, search results and sources are abstracted; `N`, `Limit` (20 in
the code) and `MaxTokens` bound an instance.

### DocumentParser and Retrieval

A document is a sequence of slides or pages, each a sequence of texts; a text stands for
what the text splitter makes one chunk of. MarkItDown (external) puts a comment with its
number before each slide, and does not say where a page ends; `Parts` is what `re.split`
makes of that, piece by piece (`AddTo`), and `SplitBySlideNumber` the walk over its
pairs (`PageAt`). There are two references. `Carries`: every text once, in order, and
never with the number of a page or slide it does not stand on; this the runs check, for
it holds of the code and of what the specs ask for (section 6). `Follows` says besides
which chunks have a number, as the code decides it. `IsDocument` leaves out documents
with a text that itself reads like the number of a slide: the code cannot tell it from
MarkItDown's comments and takes what follows for another slide.

`Retrieval` adds those chunks to the file service, abstracted to the steps of
`DocumentStore` (which `FileLifecycle` implements), and runs questions against it.
`Search` is the query with its filters, order and limit; a distance is chosen for
every row, so that rows may tie and fall under the threshold or not. `NameSource` is
one round of the loop over the hits with its `await get_file`, so that files may go
between two rounds.

### ConnectionPool

`pc` names what comes next for each request, stream or index task, `held` the sessions
that hold a connection. A statement `Take`s one or waits; a commit or close
`Return`s it. With FastAPI 0.115 the session of `get_db` is closed before the
response is sent, and so before a stream opens its own (`Close`). The index task
goes on with the request's closed session, which takes a connection again.
`Fail` is any exception, a timeout of the pool or a client that left; requests and
streams then close their session, an index task leaves it to the garbage collector
(`Collect`). Waiters are not ordered, so that nothing rests on the fairness of the
pool's queue, and no timeout is relied on.

### JwksCache

A request slot runs one verification after the other (`Arrive`). `Verify` runs to
the first await or the verdict, `Receive` is the code after the fetch, and `Judge`
what both do with a set of keys, including the invalidation and the second
attempt. `asked` is the `now` of `get_jwks`, taken *before* the request is sent,
and the date the cache will carry. Keycloak (`PublishKey`, `RetireKey`, `Answer`,
`FetchFails`) is external. Invalid tokens are those whose decoding fails, expired or
forged. `MaxTime` bounds the clock.

### Accounts

A request is one `POST /auth/register`, `POST /auth/login` or `GET /auth/callback`;
`pc` is the awaited call it waits for, or its answer. `account` gives Keycloak's
accounts by subject id, `users` the rows by `auth_id`; `sub` and `claim` are what
the granted token says.

| Action | Code |
|---|---|
| `Start` | the request arrives; a callback does not say whose code it brings |
| `AdminToken`, `CreateUser` | the two calls of `register` to Keycloak's administration |
| `Grant` | `password_grant` or `exchange_code` and the claims read from the token |
| `Upsert` | `upsert_user`, one statement and its commit, and the answer |
| `SignUp`, `Edit` | external: a user registers with Keycloak itself; an administrator renames or removes an account |

`Faults`: `keycloak` (5xx or no answer; an account may have been created before the
answer was lost), `db` (the upsert fails), `admin` (`Edit`). Username and email,
both unique in both places, are one name; passwords are abstracted to the fact that
a registration knows that of its own account, and that a login may be refused.
Tokens are taken to carry `preferred_username` and `email`, as Keycloak's default
scopes make them. Timestamps are left out, as is `POST /auth/refresh`, which reads
and writes nothing here.

## 3. Runs

| Run | Bounds | What it shows |
|---|---|---|
| `files_faults` | 2 users, a file of each (or of none, when rejected), 2 deletes by anybody of anything, 2 chunks, 1 crash, all faults; 768 000 states | the seven safety properties, among them that an upload answered 500 is not indexed, and refinement of `DocumentStore` |
| `files_live` | 1 file, 2 deletes; MinIO, parser and embedding fail, the database does not | a final status or deletion is always reached; a row without its object is removed or its deletion answered 500 |
| `files_save_error` | 1 file, only the insert of chunks fails | **violation**: the file stays "indexing" |
| `chat_concurrent` | 2 concurrent questions, all faults and disconnections, deletion of the session; 264 000 states | what is saved, shown to the model and sent to the client stays well formed |
| `chat_patient` | 3 questions in turn, history of 3 messages, all faults; 251 000 states | `ChatStream` implements `Conversation`, its window included; every stream ends |
| `chat_hangs_up` | 2 questions, the client closes at `done` | **violation**: a turn that was completed for the client is missing in the next history |
| `jwks` | 2 request slots, 2 keys, lifetime 2, time 0..2, symmetry; 1.2 million states | the date of the cache is honest, valid tokens pass, withdrawn keys expire |
| `jwks_outage` | as `jwks` | **violation**: a token that failed to decode is answered 500 |
| `accounts` | 3 requests of any kind, 2 accounts, 2 names, all faults, symmetry; 194 000 states | holders of tokens have a row with a stable id; a 201 is for the account it created; accounts left without a row were reported |
| `pool` | 2 questions, 1 upload, 1 other request over 2 connections, any failure; 32 000 states | no hold and wait, slow calls hold nothing, only index tasks leave connections behind, everybody is served |
| `retrieval` | 1 question over 2 files of the asker and 1 of another user, 3 documents, 3 distances, limit 2; 463 000 states | chunks follow their document, searches are the asker's, sources are hits and the closest ones are among them, nameless sources are deleted files |
| `accounts_conflict` | 2 requests, nothing fails, an administrator renames | **violation**: a name held in the database only is answered 500, not 409 |

Why the bounds are enough: in `files_faults` two deletions are needed for one that finds
a row another is removing, and two files of different owners for requests across users;
a third actor of a kind meets no state that two do not produce. The chat window of 3
cuts a turn of 2 messages in half and is passed by 3 turns. Two questions over two
connections would lock each other out if each kept its first while waiting for its
second. The presentations of `retrieval` have an empty slide in the middle, two texts on
the last, or no text at all, the PDF has two pages; two files of the asker with up to
three chunks and a limit of 2 give ties, two hits of one file, and hits cut off. For the
cache, one slot can fill it while the other still waits for an older answer, and either
reads it afterwards; two keys are one withdrawn and one published; a lifetime of 2 tells
fresh, stale and wrongly dated caches apart. For accounts, three requests are two that
overlap and one that meets what they left; two accounts and two names suffice for a name
that moves from one to the other. The theorems of section 5 hold without these bounds.

Deadlock is not checked where requests are finite in number and the system rightly
stops: the file, chat, account, pool and retrieval runs.

## 4. Fairness

`FileLifecycle!FairSpec`: weak fairness of each handler after its first step and of
each index task, for the event loop runs what it holds; nobody has to upload or
delete. `files_live` excludes failing commits and crashes, since after one of them a
file does stay "indexing" (section 6). `ChatStream!FairSpec`: weak fairness of the
steps of each generator; failures and cancellations need none. `MaxTokens` makes
answers finite, as the model's are. `ConnectionPool!FairSpec`: weak fairness of the
steps of each actor: the event loop resumes whoever can go on, a model's answer
ends, and CPython collects a session nobody refers to. `VerifyToken` and `Fail` have
no fairness. Weak fairness suffices although waiters compete, because every actor
takes finitely many steps. `JwksCache`, `Accounts` and `Retrieval` state safety
only: no request of theirs waits for another, and those of the first two await at
most two fetches (`attempt` is 0 or 1 by `TypeOK`) or four calls, so that it ends by
the timeouts of httpx.

## 5. Proofs

`tlapm` checks every proof without assumptions other than `ParametersOK`: the
ranges of the constants, and in `Retrieval` that uploads satisfy `IsDocument`.

*FileLifecycleProofs.* The safety properties are not inductive: that `IndexSave` finds
its row without chunks, or that a second `DeleteRow` removes nothing new, follows from
where the other actors stand. `IndInv` adds `UploadOrder` (before its commit an upload
has neither row nor task, and it commits only after its object is stored),
`StatusFollowsTask` (the status of a row says where its task stands), `DeletionOrder` (a
deletion past its lookup is the owner's, of a file that was created, and from its second
phase on there is no object) and `GoneWasCreated`. One lemma per conjunct shows that
every action keeps it. From `Invariance` follow `TypeCorrect`, `DeletionIsFinal`,
`SearchIsAllOrNothing`, `StraysAreFromUploads`, `DeadRowsAreFromDeletions`,
`AcceptedFilesLast`, `RefusedUploadsRest` (which needs `UploadOrder` and
`StatusFollowsTask`: no task, so no row but a pending one) and, for instances without
failed commits and crashes, `EndedTasksSettle`. `Refinement` maps each step to a step of
`DocumentStore` or a stutter, by one lemma per handler.

*JwksCacheProofs.* `IndInv` dates everything: fetches lie in the past, an answer
in flight holds no key withdrawn before it was asked for and every key that was
never withdrawn, a retry belongs to a waiting request, tokens name keys that
exist. `JudgeKeeps` covers the code shared by `Verify` and `Receive`. From it
follow `TypeCorrect`, `CacheDateIsHonest`, `ValidTokensPass` and the action property
`RetiredKeysExpire`.

*AccountsProofs.* That a registration is answered for its own account rests on
Keycloak: `NamesAreUnique`, and `AccountHasItsName`, that an account keeps the name
it was registered under until an administrator edits it, so that the password grant
finds it again. `OneAccountEach` and `CreatedBeforeGrant` tie accounts to the
phases of the registrations that created them, `TokenIsOwn` tokens to their
requests. One lemma per action keeps the invariant; `TypeCorrect`, `HoldersAreKnown`,
`IdsAreStable` and `RegistrationsAreOwn` follow. `HalfRegistrationsAreReported` rests
on `OwnPasswordIsRight` besides, that a registration whose account was not edited is
never refused its own password.

*ChatStreamProofs.* `IInv` joins the five safety properties with what they rest on:
`EventsKnown` (what a stream has sent, by its stage), `SavesKnown` (a saving stream
has sent `done`; while the session lives, the rows of a turn are there from their
save on) and `TimesKnown` (the transaction of an answer began after its question was
stored). `Moves` reduces every step to a move between stages with at most one event,
`MessagesGrow` and `ClockMoves` do the same for rows and time. `TitlesAreKept` is a
temporal formula of its own: once a question can no longer become the title, no step
changes that (`TitledStays`), for every question separately.

*ConversationProofs.* `Refinement` is conditional on `Patient`, the client of run
`chat_patient`: with `Client = "concurrent"` TLC refutes it in the bounds of that run.
Waiting is what makes the timestamps of transactions agree with the order of commits:
`PatientInv` adds to `IInv` that one stream runs at a time (`InTurn`), that an open
transaction began after all that is stored (`BeganLast`), and hence that no two rows
have one `created_at` (`TimesAreDistinct`) and a question is the last row until its
answer is stored (`QuestionIsLast`). TLC checked it on the instance of `chat_patient`
first. The transcript is a sorting, defined by ranks, the number of elements below;
`ListingGrows` and `EndOfListing` say from cardinalities alone that a last row comes
last, and that an ascending choice of the greatest rows is its end. So `LoadHistory` is
`Conversation!Ask`, `SaveAnswer` is `Answer`, every other end of a stream is `Refuse`,
creation and deletion are themselves, and the rest stutters (`MovesAreUnseen`).

*DocumentParserProofs.* No state, but every document. Induction is first order:
`Induct` takes a set, and follows from the well-foundedness of `<` on the natural
numbers; `Recursion` gives the functions that `FlattenSeq` and `Parts` define.
`SlideAdded` is the step of `re.split` over one slide, `PartsOfSlides` the result
for all, `KeptSlidesSuffice` that slides without text may be dropped, and
`SlideOfText` that the reference names the slide a text stands on.
`ChunksFollowTheDocument` assumes `IsDocument` only; `FollowersCarry` leads from it to
what the runs check.

*ConnectionPoolProofs.* `HoldersKnown` lists the stages in which a session may hold a
connection and `KindsKnown` who has an index task; the bound of the pool needs the
library's theorems on cardinality. Four theorems follow for any capacity.

*RetrievalProofs.* `ChunksAreStored` says that what is stored of an indexed file is the
document and has at most `MaxChunks` chunks; with `ChunksFollowTheDocument` it gives
`DocumentsAreFollowed`, and with the bounds of `HitsKnown` `TypeCorrect`.
`ChunksAreIndexed` and `HitsKnown` (hits are the asker's, indexed or
removed since, and come closest first) carry `SearchesAreOwn` and
`NamelessAreDeleted`; `SourcesKnown` is the invariant of the loop over the hits, from
which `SourcesAreBest` follows when it ends.

Only model-checked: liveness (`UploadSettles`, `DeadRowIsRemoved`, `StreamEnds`,
`EveryoneIsServed`), which is outside the prover's reach, like ENABLED; and the
violations. Every invariant, action property and refinement that a passing run checks
is a theorem for all values of the constants, that of *ConversationProofs* for
patient clients.

## 6. Findings

1. *The failure of the last commit is not recorded* (`file_service.py:146`, run
   `files_save_error`). When the flush of the chunks fails, the handler commits a
   session that has to be rolled back first; the file stays "indexing".
2. *`done` promises what is not stored yet* (`rag_service.py:129`, run
   `chat_hangs_up`).
3. *A bad token during an outage is a 500* (`security.py:43`, run `jwks_outage`),
   and takes the cache from everybody else.
4. *A name held in the database only is a 500* (`user_service.py:44`, run
   `accounts_conflict`), and the account that was created stays in Keycloak.

Each quotes the document it contradicts in `PROJECT.json`.

Elsewhere, too, code and documents (specs are those under `docs/specs/main`) disagree.
These are matters of a single statement, which no interleaving decides; the models
follow the code, and no property takes a side:

- *Order of messages.* `chat-session/spec.md:65` asks for ascending `created_at`. The
  messages of a session are loaded without an `ORDER BY` (`chat_service.py:53-60`,
  `models/chat.py:28`), so that PostgreSQL may return any order. The listing is not
  modelled.
- *Page numbers.* `file-upload/spec.md:7-20` and `chat-message/spec.md:13-31` want the
  1-based page of a PDF in `page_number` and null for PPTX and all others. The code
  does the opposite (`file_parser.py:21-38`): it numbers slides, and leaves PDFs
  without, on purpose by its docstring. `Carries` holds either way.
- *Sources.* `chat-message/spec.md:19-38`, `docs/guide/rag.md:145-156` and
  `docs/guide/chat.md:81` list one source for every chunk that was used. The code lists
  every file once, with its first hit (`rag_service.py:109-117`, where a comment says
  so). `SourcesAreClosest` holds either way.
- *Broken PDFs.* `file-upload/spec.md:22-27` wants "failed" for an encrypted or damaged
  PDF. `parse_to_markdown` turns every error of MarkItDown into
  `UnsupportedFormatError`, and `file_service.py:99-102` records "unsupported".
  `IndexRead` has both outcomes.
- *Registration during an outage.* `auth-register/spec.md:30-35` asks for 502; an
  outage in the first two calls is answered 500 (the outcome "error" of `AdminToken`
  and `CreateUser`).
- *Events.* The docstring of `rag_service.py:31` reads as if `done` and `error` excluded
  each other; a failure while the turn is saved sends `error` after `done`
  (`EventsInOrder` says what does hold).
- *When a question is saved.* `docs/guide/rag.md:103-107` saves it before the history is
  loaded; the code loads first, as its own comment demands (`OwnQuestionNotInHistory`).

Other behaviour a reader may not expect: after a crash a file stays pending or
indexing; a failed insert or a crash during upload leaves an object without a row; an
upload that was answered 500 because its row could not be read back may leave the row,
pending for ever; two concurrent first questions both set the title; an index task
whose file is gone leaves its connection to the garbage collector; a failure before
the `try` of the stream breaks off a response that began with 200; an account whose
registration failed after its creation keeps its name from being registered again; a
registration whose account an administrator renamed between two calls may be answered
for the account that has the name now.

## 7. Not modelled, and the plan

Not modelled: MarkItDown, the text splitter and OpenAI (their outcomes are inputs), the
contents of prompts and the augmentation of a continued question
(`rag_service.py:48-58`), lists of files and sessions beyond what they may contain,
the list of messages, whose order the code leaves open (section 6),
DDL, settings, schemas and wiring, which keep no state, the review scripts of the
developers, and logging. Expiry of download URLs is MinIO's.

Worth doing next: an `Accounts` with separate usernames and emails, for tokens without
an email claim (`auth.py:84`); and more than one session of a user, once something
relates them.
