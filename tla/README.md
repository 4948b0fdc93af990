# Verification of WataAI

TLA+ models of the backend of this repository (`src/backend`, NestJS, TypeORM,
PostgreSQL, BullMQ on Redis), the TLC runs that check them on small instances,
and proofs of their main invariants for every instance. Paths below are
relative to `src/backend/src/` unless they start with `src/`.

The first part is an inventory of the system; then what is modelled and how it
corresponds to the code; then what is checked, proved and found; then the plan.

## 1. Inventory

A user submits a *creation job* (run this AI tool on these inputs) from the web
application; the backend stores it, queues it, a worker executes it and the
browser is told. Around this are chat bots with knowledge bases, the channels
they answer on, and the usual accounts, workspaces and billing.

| Component | State | Operations | Talks to | Hard behaviour |
|---|---|---|---|---|
| Creation jobs (`creation-jobs/`) | row per job: status, progress, output, error; publications | create, update, cancel, delete, complete (public callback), draft wizard, post to channels | queue, audit, assets, events, sockets | read-then-save updates by several actors without a transaction; check-then-act in cancel; row and queue entry change separately |
| Execution queue (`execution/queue/`) | BullMQ entry: waiting/active/delayed/failed, lock, attempts, stalls | add, remove; taken, finished, retried, stalled by BullMQ | processor | retries, lost locks, stalled entries, removal against taking |
| Job processor and strategies (`execution/`) | none but the rows it updates | process; workflow chain with a save per step | tools' webhooks, AI models | crash in an attempt, asynchronous tools that answer through the callback, late answers |
| Notifications (`notifications/`) | stored notifications, read flags, sockets | listeners of job events, push, mark read | browser | only some paths to a final status emit an event |
| Knowledge base processing (`knowledge-base/services/kb-process*`) | in-memory map of jobs, document rows, chunk rows, vector store | add, cancel, process, crawl, clean up at start | BullMQ, extractor, embeddings | map lost at restart, clean-up against stalled entries, re-processing, stale document saves |
| Knowledge base content and search | documents, folders, chunks, vectors | upload, edit, delete, sync, query | object store, vector store | several stores without a transaction |
| Message buffer and replies (`bots/listeners/`, `bots/services/message-buffer.service.ts`) | in-memory buffer and timer per conversation | add, flush, clear; reply | model, channels | debounce timer, messages during a reply, human takeover, crash |
| Widget versions (`bots/services/widget-version.service.ts`) | versions of a bot's widget, one active; cache of it; deployment history | create, edit, publish, roll back, archive, delete | public widget | deactivate-then-activate, saves of old copies, a cache filled after its invalidation |
| Channels and webhooks (`channels/webhooks/`) | connections, entries of the `webhooks` queue | receive, enqueue, process | conversations, bots | repeated delivery, swallowed errors |
| Conversations (`conversations/`) | conversation and message rows, takeover flag in `metadata` | append, take over, hand back, close | bots, sockets | whole rows saved after awaits, takeover against a reply under way |
| Subscriptions and quota (`subscriptions/`, `billing/`) | subscriptions, a usage row per period | create, cancel, change plan, payment webhook, check and consume quota | payment providers, conversations | check-then-act, creation of the usage row, periods that change under a call |
| Authentication, sessions, provider tokens | session row with a hash, tokens | login, refresh, logout, refresh a provider's token | clients, providers | concurrent refreshes |
| Workspaces, invitations | members, invitations | invite, accept, revoke, expire | mail | accept against revoke |
| Files (`files/`) | file rows, temporary until confirmed; objects | upload, confirm, delete, nightly clean-up | object store; users, templates, bots, categories, tools, which hold urls | clean-up against confirmation, deletion of the replaced file, row and object removed separately |
| Tools, templates, presets, categories, characters, AI providers, assets, audit, statistics, mail, permissions, users, projects, i18n | one row each | create, read, update, delete | | no protocol of their own |
| Web application (`src/web`) | views, cache of jobs by socket event | | backend | which events it acts on |

What makes each correct:

* creation jobs: a row is never a mixture of two attempts' values when it says
  COMPLETED; an entry is executed by one worker at a time; calls of the external
  tool are bounded; cancel, delete and retry do not lose or revive work; every
  queued job comes to rest; the browser learns how;
* knowledge base: a COMPLETED document has each of its chunks once; cancel and
  restart leave no document PROCESSING without a worker;
* replies: every message is answered once, within a bounded wait, by the bot if the
  bot is in charge and not if a human is; a takeover lasts until it is handed back;
* widget versions: at most one is active, it is published, and visitors and the
  deployment history know it;
* files: what an owner refers to is in the store; what nobody confirms goes away; no
  object is without a row;
* quota and subscriptions: every stored message is counted once, use exceeds the plan
  by no more than the messages under way, a canceled subscription stays so.

The full list of hazards, each at its line with the properties that watch it,
is `hazards` in `PROJECT.json`.

## 2. What is modelled

### JobQueue: the BullMQ entry of a job

(Of creation jobs, and with `MaxAttempts = 1` of the `kb-processing` queue.)

`queue[j]` is the entry whose `jobId` is the creation job's id
(`execution-queue.service.ts`): its state, the worker slot that holds its lock,
and how often it was tried and stalled. `Add` and `Remove` are the two operations
of ExecutionQueueService. `Take`, `Finish`, `Retry`, `Promote` and `Stall` are
what BullMQ does for a worker created by `@Processor(JOB_QUEUE)` with
`attempts: 3`, exponential backoff, `removeOnComplete` and `removeOnFail`; BullMQ
is not under `src/`, so these follow its documented behaviour: an active entry is
locked by its worker, it cannot be removed while locked, a worker without the
lock cannot move it, and the stalled check takes back entries whose lock has
expired up to `maxStalledCount` times (1, the library's default, as the code
sets none). The order of the waiting list and the length of the backoff are left
out: with 50 slots per process any waiting entry may be taken next. An entry is
added once: a job's id is never added again, so what `removeOnComplete` and
`removeOnFail` do to the id is of no consequence.

### CreationJobs: service, processor and callback

| Variable | Code |
|---|---|
| `row[j]` | the row of `creation_jobs`: status, progress, `outputData` (nothing, the partial results of a workflow, a result), `error` |
| `creation[j]` | how far `CreationJobsService.create` has got: row saved, queued, or failed between the two |
| `told[j]` | the last status of the job pushed to the browser through the notifications gateway |
| `dispatched[j]`, `assets[j]` | calls of `strategy.execute`, assets created by callbacks |
| `pc`, `job`, `payload`, `ret`, `copy`, `step` | per actor: where it is, its job, the argument of the `update` it is in and where that returns, the entity that update has read, the steps of the chain done |
| `faults` | faults so far |

An actor is a worker slot or a client, that is one HTTP request. Every `await` on
the database, on the queue or on a tool is a point where other actors may run,
and so a place of `pc`:

| Actions | Code |
|---|---|
| `SaveNewJob`, `QueueNewJob`, `CreateFails` | `create`: save the row; then the audit log, then `queue.add`; either may throw |
| `UpdateRead`, `UpdateSave`, `UpdateThrows` | `CreationJobsService.update` and the repository's: `findOne`, then `save` of `{...entity, ...payload}`, then the socket event unless the status is COMPLETED or FAILED |
| `StartJob`, `Dispatch`, `WorkflowStep`, `Executed`, `ExecutionThrows`, `EndJob` | `JobProcessor.process` and `WorkflowExecutionStrategy.execute`, its catch block and the rethrow |
| `Cancel`, `Dequeue` | `cancel`: read and early returns; removal from the queue if PENDING was seen; then an update |
| `Callback`, `CreateAsset`, `Announce` | `completeJob` from the public callback: read, update, asset, event with `NotificationEventListener` |
| `Patch`, `Delete` | `PATCH :id` with what its DTO allows; `DELETE :id`, and bulk delete as several of them |
| `Crash`, `Abort`, `LockExpired`, `StalledCheck`, `BackoffOver` | a worker's or a server's process dies, and what BullMQ does |

A job's tool is `sync` (one call), `workflow` (a chain of `Steps`, each saved), or
`async` (`asyncPattern`: the worker leaves the row PROCESSING and the tool posts
the outcome).

Abstractions, and why they lose nothing the properties speak of:

* TypeORM's `save` reads the row again to compute which columns differ and then
  writes them. The two are one step here: what is written is the copy in either
  case, except for properties that are `undefined`, which it leaves alone
  (`"skip"` in a payload). If the row was deleted after `findOne`, `save` inserts it
  again (`Merge` over `NO_ROW`).
* The socket event is emitted in the same tick in which `save` returns, and no
  order of delivery is assumed of the socket: `told` is the last one emitted.
* Only jobs with an owner and a workspace are modelled, so `createdBy` and
  `workspaceId` guards are true.
* Loading the tool, validation and the search in the knowledge base are part of
  `Dispatch`: they read only, and their failures are `ExecutionThrows` from the same
  place. (A failure of the search is swallowed by the code.)
* A call of an external tool is one step that succeeds or throws. That the tool did
  its work although the call failed is in `dispatched`, which counts calls.
* Audit logs after the last update of a request are left out.
* A client is one request; `Clients` bounds how many are made.

### JobLifecycle: the abstract specification

What a user may rely on without knowing of queues, workers or copies: a status
that changes only in an open attempt or by an accepted cancel, a bounded number of
attempts, PENDING never coming back. It also says what may *not* be relied on: a
cancel may land on a job that has finished and an open attempt may overwrite it.
`CreationJobs!Lifecycle` instantiates it; an attempt is open while a slot is in the
processor with the job, and a cancel is on its way from its acceptance until its
update is saved or fails. The refinement holds when requests are cancels and live
workers keep their locks (the run's instance); callbacks and PATCH write statuses
at any time and deletes take rows away, which the lifecycle does not allow.

### KbProcessing: documents and their processing

| Variable | Code |
|---|---|
| `doc[d]` | the row of `kb_document`: processing status, content, `chunkCount` |
| `chunks` | the rows of `kb_chunk`; a batch of 100 chunks is one member, named by the job and the pass that saved it, its place and its text, and whether it is embedded |
| `track[j]` | the status of the job in the `jobs` map of KBProcessingQueueService |
| `server`, `stuck` | whether the process is up; the documents `cleanupStuckJobs` has loaded and not yet marked FAILED |
| `queue[j]` | the entry, from `JobQueue` |
| `pc`, `job`, `copy`, `found`, `run`, `part`, `good` | per actor: where it is, its job, the document entity it has loaded, the chunks a removal has loaded, and of a worker which pass over the entry this is, the batches done in the loop it is in and whether any embedding succeeded |

| Actions | Code |
|---|---|
| `Create`, `Confirm`, `Enqueue` | `create`: save PENDING; confirm the uploaded file; `addJob`, which enters the map at once and then awaits `queue.add` |
| `EditRead`, `EditSave` | `update` and `moveToFolder`: load, change, save; a new text goes back to PENDING and calls `addJob` |
| `RemoveRead`, `RemoveChunks`, `RemoveDoc` | `remove`: load the chunks, delete those, delete the document |
| `Cancel`, `Dequeue` | `cancelJob`: the map at once, then the entry |
| `Start` ... `EndJob` | `handleProcessDocument` from await to await: `Load`, `Mark` (PROCESSING), `Extract` and `SaveText` for a file, `SaveChunks` and `EmbedChunks` batch by batch, `Complete`; `WorkThrows` for what may throw in the try block; `CatchRead`, `CatchSave` and `CatchThrows` for the catch block |
| `Crash`, `Restart`, `FindStuck`, `CleanUp`, `StalledCheck` | the process dies with its map; its next start, where BullMQ's worker runs before `cleanupStuckJobs` has looked; the stalled check |

Points to know when reading it:

* `documentRepository.save(document)` writes whatever differs between the entity in
  memory and the row, so that in effect the whole copy is written, and a removed
  row is inserted again.
* There is one process (the code says "typically this is a single instance") and,
  as `@Processor('kb-processing')` sets no concurrency, one slot: so have the runs. A
  job is passed over again when the process that had it is dead, or when its lock was
  lost (`Fault("lock")`) and the entry went back to the queue. The theorems hold for
  any number of slots.
* `onProgress` is called without `await`, so that a cancel found in it is an
  unhandled rejection, which ends a Node.js process since version 15 (the
  Dockerfile takes 22): `EmbedChunks` then is a `Dies` step.
* A job's id contains the time of `addJob`, so jobs are named after the request that
  adds them. The code gives two jobs of a document the same id within one
  millisecond; that is left out.
* Not promised anywhere, so without a property: a document whose waiting job is
  canceled stays PENDING, as only the worker would write CANCELLED; processing again
  leaves the old chunks in place; the worker's last save takes an edit back that
  was saved meanwhile, until the edit's own job has run; a document removed while it
  is processed comes back with the worker's next save.

### DocumentLife: the abstract specification of a document

What the status shown to the user says, without texts, chunks, copies of rows, the map or
the queue's entries. A pass writes PROCESSING first, then one of COMPLETED, FAILED and
CANCELLED, and no more; a job that was never queued gets no pass, and none gets more than
`MaxAttempts + MaxStalls`; a request writes once, what was fixed when it was accepted;
a process dies with all it was doing and marks FAILED what it finds in PROCESSING when it
starts. It is also explicit about what may not be relied on: a write lands on whatever the
status has become. A rename brings an old status back, the clean-up's FAILED may land after
a pass began again, and two passes over one document interleave. `KbProcessing!Life` maps to
it: `request` and `pass` are the phases of a client's and a worker's `pc`, `write` is the
status in the copy an edit holds, `used[j]` the entry's `Attempts`, and `cleaning` the
documents in `stuck`. Saving chunks, loading, the map of jobs and the stalled check do not
show.

### BotReplies: from a webhook to the bot's answer

One contact writes in one existing conversation, whose channel has one bot.

| Variable | Code |
|---|---|
| `queue[m]` | the entry of a delivered webhook in the `webhooks` queue, from `JobQueue` |
| `human`, `active` | `metadata.humanTakeover` of the conversation's row, `isActive` of the bot's |
| `pc`, `item`, `copy`, `op` | per process's consumer and per request: where it is, the item it works on, `humanTakeover` in the copy of the row it holds, the request |
| `stored`, `stage[i]`, `home[i]` | whether a message is in the history, how far it has got after `message.received`, and in which process's memory |
| `timer[w]`, `age[w]` | of a process's buffer: time until its timer fires, time since its first message |
| `batches` | flushed buffers in `processBufferedMessages`, with the place they are at |
| `answers[i]`, `duty[i]` | observed only: answers the contact got to an item; who has been in charge since `message.received` |

An item is a message and the number of stalls its entry had when it was taken: a
stalled entry is processed from the start, message and event included.

| Actions | Code |
|---|---|
| `ReceiveWebhook`, `AckWebhook` | `WebhookQueueService.queueWebhook`; `WebhookQueueConsumer.process`, which returns whatever `processPayload` says |
| `FindConversation`, `TouchConversation` | `processSingleMessage` (of Facebook; Instagram's and Telegram's do the same) with `findOrCreateFromWebhook`: read, then save of the whole copy |
| `ReloadConversation`, `StoreMessage`, `SaveLastMessage`, `EmitReceived` | `addMessage`: read; quota check and insert; save of the copy and count; then the event |
| `ProcessingThrows` | the catch blocks of `processPayload` |
| `CheckTakeover`, `CheckBot`, `ListenerThrows` | `BotEventListener.handleMessageReceived`, and, without an await between, `MessageBufferService.addMessage` (`AddToBuffer`, `Flush`) |
| `FlushDue`, `Tick` | `setTimeout` of the buffer |
| `FindBot`, `AskModel`, `SendAnswer`, `Apologise`, `BatchThrows` | `processBufferedMessages` and its catch block |
| `Request`, `WriteConversation`, `SwitchBot` | takeover, handback, and any other request that saves the conversation ("touch"); a PATCH of the bot |
| `Crash`, `StalledCheck` | a process dies with its buffer and batches; BullMQ's stalled check |

Time is counted in ticks of no fixed length; a timer fires in the tick in which it is
due. A send that reports a failure may have reached the contact. That a bot's answer
cannot be stored is only logged by the code and changes nothing here.

### AnsweringService: the abstract specification of the bot

What a contact and the agents may expect, without queue, processes, buffers or timers. A
message is heard, admitted unless a human is in charge, gathered with others into a turn,
and shares the fate of its turn: answered, apologised for, declined, or lost with a process.
A turn is answered at most once; a send that failed may have been delivered, and is followed
by an apology and never by a second answer. What has been settled stays so.
`BotReplies!Service` maps an item's `stage` to its state, the batches to the turns, and
`human` and `active` to who is in charge. It does not promise an answer (a crash loses
messages), nor that the one in charge when the answer is sent is still the one who was in
charge when the message was admitted: nobody looks again.

### WidgetVersions

`row[v]` is the row of a version of one bot: status, `isActive`, which config.
`activeId` is `activeVersionId` of the bot, `lastDeployed` the version the last
`widget_deployment` row names, `cache` the entry `widget:active:<bot>`. An
administrator waits for the answer before the next request; `pc`, `op`, `target`,
`copy` and `found` are of the request he waits for. Visitors call `getActiveVersion`.
`FindVersion` is the read and the checks each endpoint begins with (`Accepts`),
`SaveChange` and `RemoveVersion` end update, archive and delete, and `FindActive`,
`Deactivate`, `Activate`, `SyncBot`, `SaveDeployment`, `Invalidate` are the awaits of
publish and roll back in their order; only publish has `SyncBot`. A change of the
appearance creates a draft from the active version and publishes it (`AskSettings`,
`InsertDraft`). `ReadActive` and `FillCache` are the two halves of a cache miss, and
`Throw` may end a request at any await. Version strings are left out: the service looks
for a free one, and the unique index refuses a second. So is a PATCH of the bot, which
saves the whole bot.

### WidgetPublication: the abstract specification of the widget

What administrators who wait for each other and visitors may rely on, without requests,
copies of rows, or the awaits of publish and roll back. A publication is one step, in which
the old version ceases to be live and the new one becomes so; a failure half-way leaves none
live. A published version keeps its config, only drafts are edited and removed, the live
version is not archived, and visitors are shown what has been published. In
`WidgetVersions!Publication` the switch is at `Activate`: while a request is between
`Deactivate` and `Activate` the old version still counts as live, although a visitor who
misses the cache in between finds none (and caches nothing). `ImplementsPublication` says
that each step is one of the specification or leaves it as it is, until two requests
overlap; what happens after that is not restricted, because the code then keeps none of it
but `ActiveIsPublished`.

### BillingQuota

`sub` is the subscription table of one workspace, `rows` and `used` its `usage_quota`
table by period. A call of `addMessage` runs `checkQuotaLimit`, stores the message, and
runs `incrementMessageUsage`; each of the two calls `getQuota`, and the latter twice, so
that `phase` says in which of the three calls `pc` is. `getQuota` reads the subscription
(`ReadPeriod`), looks for the row of its period (`FindQuota`) and inserts it, or reads
again if the primary key refuses it (`CreateQuota`). `Increment` is a single UPDATE.
`CreateSubscription` inserts; `ReadSubscription` and `SaveSubscription` are the
read-then-save of cancel and plan change; `Throw` and `ChangeThrows` are failures.
A period is the day on which it starts: `PeriodOf[d]` for a subscription created on day
`d`, which is not before the month's start, `CalendarStart[d]`, as `setMonth` rolls over
into the next month where a day does not exist. `highest`, `peak`, `overlapped` and
`chargedTo` are observed only.

TypeORM does not say which of a changed `planId` and a loaded `plan` it saves:
`SaveSubscription` allows both.

### FileStore

| Variable | Code |
|---|---|
| `row[f]`, `old` | the row of a file, temporary (`isTemp`) or kept; the files created more than 24 hours ago |
| `object[f]` | what MinIO has under the file's key |
| `ref[o]` | the url in a column of an owner |
| `pc`, `owner`, `op`, `wish`, `before`, `copy`, `target` | per request: where it is, what it is about, the url it sends, the url the service and then the repository have read (`copy` is later the url it confirms), and the file it deletes; `pc` and `target` of the nightly job too |
| `todo` | the files the job has listed and not come to |
| `claimed`, `exposed` | observed only: the owner a file was first given to; the owners and files whose use nothing protected |

Owners fall in three kinds, by what their service does on an update: `Users` (read the
user, save, then confirm the new avatar and delete the old one), `Templates` (the same for
the thumbnail, by the url of the request and not by the one saved), and `Keepers` (bots,
categories, creation tools: save, confirm what the row has, delete nothing).

| Actions | Code |
|---|---|
| `Upload`, `Age` | `FilesMinioService.create`, with the browser's PUT; a day passes |
| `CreateOwner`, `Update`, `Touch`, `Flag`, `BulkUpdate`, `Discard` | a request: create, update with a url or null, update without, a change of other columns by the repository alone (activate, verify), a template's bulk update, `DELETE /files/:id` |
| `ReadBefore`, `Load`, `Save`, `Reread`, `Confirm`, `Keep` | the awaits of `update` in their order; `confirm` reads the row and saves it |
| `FindFile`, `RemoveObject`, `Refused`, `DropRow` | `deleteFile`: the row, the object, the row again; the store's error is thrown |
| `ListOrphans`, `NextOrphan` | `FilesCronService.handleCron` |
| `ConfirmFails`, `DbFails`, `StorageFails`, `Crash` | a failed call, which `confirmFromUrl` catches once and `handleCron` per file; the process ends |

`exposed` names what the code does not protect, so that `ReferencedIsStored` says what it
does: an owner that two requests change at once, a file given to a second owner (import of
a template, clone of a tool) or first used a day after its upload, a file discarded by
`DELETE`, an owner whose request was cut off before it confirmed, and two kinds of template
request: one without a thumbnail and a bulk update. Nothing else is excepted: the order of
confirmation and deletion, the job beside requests, and failed or half done deletions are in.

Left out: a template's list of media, rows whose file was never put (their url is given to
nobody), owners deleted softly (they keep their url), and the S3 and local drivers. A request
takes less than a day. A row that is deleted while a request is between `Confirm` and `Keep`
is inserted again by `save`.

## 3. Runs

`MCCreationJobs` gives the constants. Symmetry in workers and clients is used in
the runs without liveness. Deadlock is not checked anywhere, because the system
comes to rest when every request has been made and every job has ended;
`EveryQueuedJobSettles` says what rest must look like.

| Run | Instance | What it shows |
|---|---|---|
| `JobsRetries` | one workflow of two steps, two slots, two requests (cancel, delete), 3 attempts, 1 stall, two faults of db/crash/abort | `TypeOK`; `CompletedIsWhole`; `OneRunner`; `PendingMeansUntouched`; `DispatchBound`; `RetriesAreUsed`; `RemovedIsNotDispatched` |
| `JobsLifecycle` | the same with 2 attempts, two cancels, one crash, under fairness | the refinement `ImplementsLifecycle` and the liveness `EveryQueuedJobSettles` |
| `JobsCallbacks` | one asynchronous job, two slots, two requests (callback with COMPLETED or FAILED, PATCH), 2 attempts, 1 stall, one database error or lost lock | `AsyncCompletedByRequest`; `DispatchBound` with two workers on one job |
| `JobsOutcome` | one job, one slot, no request, no fault | is violated: section 5 |

`MCKbProcessing` gives the constants of the runs on documents:

| Run | Instance | What it shows |
|---|---|---|
| `KbWork` | one document, three requests (create, remove, cancel), two batches, one slot, 1 stall, two faults of crash/lock, under fairness | `TypeOK`; `ProcessingIsAlive`; `TrackedIsAlive`; `CancelIsRemembered`; `EntriesSettle` |
| `KbSaves` | three requests (create, edit, rename), two texts, one fault of db/crash/lock | `CompletedIsIndexed`, with stale copies of workers and of requests saved over each other; the refinement `ImplementsLife` |

The other modules:

| Run | Instance | What it shows |
|---|---|---|
| `RepliesSafe` | two messages, two processes, one request (takeover, handback, another save), one fault of send/crash/lock, a buffer delay and a maximal wait of one tick | `TypeOK`; `BufferWaitBounded`; `OneReply`; `TakenOverIsSilent`; `OnDutyAnswers`; the refinement `ImplementsService` |
| `RepliesSettle` | two messages, one process, one takeover, one fault of any kind, under fairness | `WebhooksSettle` |
| `RepliesTakeover` | one message, one request, no fault | is violated: section 5 |
| `Widgets` | three versions, two configs, two administrators, one visitor, four requests, one failed call | `TypeOK`; `ActiveIsPublished`; `OneActive`; `CacheIsPublished`; `HistoryNamesActive`; the refinement `ImplementsPublication` |
| `Quota` | three calls, two subscription rows, plans of one and two messages, two clients with three changes, 29 January and 1 February | `TypeOK`; `UsageIsExact`; `OvershootBounded`; `CancelLasts` |
| `Files` | two files, one of which the store refuses to remove, a user, a template, a keeper, two clients with two requests beside the nightly job, one fault of any kind, under fairness | `TypeOK`; `ReferencedIsStored`; `NewBeforeOld`; `ObjectsAreKnown`; `EveryOrphanGoes` |

Two messages are the least that share a buffer or race in two; with both times one tick
every order of arrival, timer and maximal wait occurs. Four requests publish a version,
publish a second and roll back while another is under way. Three calls let two pass the
check after a third has been counted, and the two days are those on which the month and
the period of a new subscription differ. `RepliesSettle` asks fairness of handlers and
batches that have begun, timers, the consumer, and the stalled check, which are Node.js's
and BullMQ's, and nothing of requests; a batch in its catch block ends, as sends do.
`OneActive`, `CacheIsPublished`, `HistoryNamesActive` and `CancelLasts` are stated for
requests that do not overlap, because the code keeps them only then: nothing locks a
row. `TakenOverIsSilent` and `OnDutyAnswers` speak of messages during whose life the one in
charge did not change.

Two files are an old one and its replacement; two requests set the first and replace it, or
overlap, or share a file. More requests and files make longer histories of the same owners
and exceed what is checked in minutes; the theorems hold for any number. `Files` asks weak
fairness of the job's steps only: the scheduler starts it every midnight and the container
is restarted. Requests may stop anywhere. `EveryOrphanGoes` is about the files the store
does not refuse.

Two batches are the least with a point between batches, a first and a last one;
two texts tell the old from the new; two faults allow a crash after a lost lock. A
third request or a second fault in `KbSaves` exceeds what is checked in minutes.
The catch block is the only protection against a document that stays PROCESSING,
so `ProcessingIsAlive`, `TrackedIsAlive` and `EntriesSettle` are checked without database
errors inside it (a hazard in `PROJECT.json`), while `KbSaves` has them everywhere.
`FairSpec` asks weak fairness of the steps of the slot and of accepted requests, of the
stalled check, of the clean-up, and of the restart, which docker-compose's
`restart: unless-stopped` provides.

Bounds of the runs on creation jobs. Jobs share nothing but the worker slots, whose number only delays them, so
one job per run is enough for properties of single jobs; two slots allow a zombie
next to its successor; two requests allow every race of two requests and of both
with a worker. Two faults reach a fault in the handling of a fault (a failed
update in the catch block, a crash after a retry). Three attempts are the code's;
two already have a first, a last and one retry. `MaxFaults` is the only bound that
the code does not have, and it is what makes liveness meaningful: the code gives
up on a job whose worker dies twice (`maxStalledCount`), and leaves its row
PROCESSING, which is listed as a hazard and excluded by the one crash of
`JobsLifecycle`.

Fairness. `FairSpec` asks weak fairness of the steps of each worker slot and of each
accepted request (Node.js runs a handler to its end, awaits return or throw), of
the stalled check on expired locks and of the promotion of delayed entries
(timers of BullMQ). It asks nothing of new requests, of `create`, of faults or of
`Abort`. `WF(WorkerStep(w))` may be satisfied by `ExecutionThrows` for ever, which is
why the bound on attempts matters to `EveryQueuedJobSettles`.

Each property, refinements included, has a mutant of the code model that violates it (`mutants` in
`PROJECT.json`, next to the definitions they change), such as a stalled check that
takes entries from live workers, one retry too many, or a catch block that does
not rethrow.

## 4. Proofs

`CreationJobsProofs` holds for all finite and infinite sets of jobs and requests, any
finite set of workers, and any number of attempts, stalls, steps and faults. What it
needs to know of the queue's steps is in `JobQueueProofs`. Its assumptions are `QueueAssumption` and `JobAssumption` (disjoint names, positive
bounds), evaluated by TLC in every run, and what the theorems name.

| Theorem | Assumes | Argument |
|---|---|---|
| `TypeSafety`: `TypeOK` | nothing more | `TypeInv` adds to `TypeOK` that an entry which may still run has attempts and stalls left (or the counters would leave their ranges), that an active entry is owned by a worker, and that what is about to be saved is a row that existed (or the saved status could be `NO_ROW`) |
| `RunnerSafety`: `OneRunner` | no lock is lost by a live worker | `RunnerInv`: a slot that has a job holds the lock of its entry. `OneRunner` alone is not inductive: nothing would stop a second slot from taking a waiting entry someone works on |
| `CompletedSafety`: `CompletedIsWhole` | as above, and requests only cancel or delete | in the middle of an attempt the row does not say COMPLETED, nor does the copy a workflow step is about to write back (`WholeInv`); by `RunnerInv` no other worker can complete it meanwhile |
| `PendingSafety`: `PendingMeansUntouched` | no request writes PENDING itself | a copy that says PENDING can be saved unchanged only before the first attempt |
| `DispatchSafety`: `DispatchBound` | nothing more: lost locks are included | the calls made, plus the slots that have taken the job and not called yet (a cardinality), never exceed the tries and stalls of the entry plus the active one (`CallsInv`), and these never exceed the limits (`AttemptsInv`) |
| `RemovalSafety`: `RemovedIsNotDispatched` | no lock is lost by a live worker | again `RunnerInv`: the slot that calls the tool holds the lock of an active entry, so its entry has not been removed |
| `AsyncSafety`: `AsyncCompletedByRequest` | nothing more: any request, any fault | `AsyncInv`: a copy of an asynchronous job that says COMPLETED was read after a request posted that status, workers never write it, and requests stay on record |
| `RetriesSafety`: `RetriesAreUsed` | no lock is lost by a live worker, no request patches the row, no callback posts FAILED | `RetriesInv`: when the entry of a row FAILED is gone before its last attempt, a canceler is on record; a worker about to succeed has neither a row nor a copy that says FAILED, so that completing an entry cannot be what removes it. The three assumptions are the three other ways in which the row may say FAILED |
| `LifecycleRefinement`: `ImplementsLifecycle` | no lock is lost by a live worker, and requests only cancel | `LifeInv`: in the middle of an attempt the row says PROCESSING or CANCELED, and the requests under way are cancels of existing rows. With it and the invariants above, `SimulationStep` maps each action to an action of `JobLifecycle` or to a stutter |

`KbProcessingProofs` does the same for documents, for any number of documents, requests,
slots, batches, stalls and faults, from `QueueAssumption` and `KbAssumption`.

| Theorem | Assumes | Argument |
|---|---|---|
| `TypeSafety`: `TypeOK` | nothing more | `WorkInv`: in its loops a worker has a batch left and a text, and requests that add or cancel know their job |
| `ProcessingSafety`: `ProcessingIsAlive` | no database errors (they matter in the catch block), no renames | `ProcessingInv` strengthens "a worker has the document" to "has it and has not yet dealt with it": `ProcessingIsAlive` alone is not kept by the end of a pass |
| `CancelSafety`: `CancelIsRemembered` | nothing more | `FreshInv`: a request enters its job in the map before any worker or cancel can know of it, so entering it cannot overwrite a cancel |
| `TrackedSafety`: `TrackedIsAlive` | no database errors | `TrackedInv`, with `CancelSafety`'s invariant: a pass that gives up on a cancel still finds it in the map at its end |
| `IndexSafety`: `CompletedIsIndexed` | nothing more: lost locks, crashes and database errors are included | `IndexInv`: chunks are lost only by a removal of their own document, a worker finds the batches of its pass where it put them (`PassSound`), and the only copies that may say COMPLETED are those of an edit or a rename, sound when they were read (`RequestSound`). The evidence of an index (its chunks, or a request on record) only grows, so what was sound stays so |
| `LifeRefinement`: `ImplementsLife` | nothing more | step by step, one lemma per kind of actor (`RequestMaps`, `ClientMaps`, `EndsMap`, `PassMaps`, `ServerMaps`). From `IndexInv` it takes that what `SaveText` writes over the row still says PROCESSING, and that only a removal empties one; from `QueueInv`, that an entry which can be taken has passes left in its budget (`TakeCount`) |

`BotRepliesProofs` (any number of messages, processes, requests, stalls, ticks and
faults, from `QueueAssumption` and `ReplyAssumption`), `WidgetVersionsProofs` (any number
of versions, administrators, visitors and failures, from `WidgetAssumption`) and
`BillingQuotaProofs` (any finite set of calls, any subscriptions, plans, days, from
`BillingAssumption`):

| Theorem | Argument |
|---|---|
| `WaitIsBounded`: `BufferWaitBounded` | `BufferInv`: while a buffer has messages, its timer is no longer than the delay, and was set when the oldest message was younger than the maximum. `FreshInv` keeps a message out of a second buffer |
| `RepliesOnce`: `OneReply` | `BatchInv`: flushed items are in at most one batch and in no buffer, and an item answered is in a batch only past the send. A set of sets of items: the step that flushes needs `HomeInv`, that buffered items have a home |
| `SilentWhenTakenOver`: `TakenOverIsSilent` | `AnswerInv`: a message that passed the takeover check did so while the human was not in charge, so its `duty` is not "human" and cannot become so |
| `DutyIsDone`: `OnDutyAnswers` | `DutyInv`: while `duty[i]` is not mixed it is who is in charge now |
| `ActivePublished`: `ActiveIsPublished` | `TypeInv`, `RowInv`: not only rows but every copy that may be saved is published if active. What may be saved depends on the request, so that this needs `Accepts` |
| `AtMostOneActive`: `OneActive` | `SerialInv`: without overlap one request at most is under way, the copies it holds are what the rows say, and once past `Deactivate` nothing is active |
| `CachePublished`: `CacheIsPublished` | `CacheInv`: the same of the cache and of what visitors are about to put into it, however late: a published config does not change |
| `ServiceRefinement`: `ImplementsService` | `TurnInv`: a batch has messages, all of one process. With `BatchInv` two batches never share a message, so that the end of one batch is the end of one turn, and a crash takes whole turns with it |
| `VerdictIsFinal`: `SettledForGood` | `BatchInv` and the guards: what is in a batch is flushed and what is buffered waits, so that no later flush, settlement, answer or crash reaches a message with a verdict |
| `PublicationRefinement`: `ImplementsPublication` | `SerialInv`, `CacheInv`, and `FoundInv`: the version a publication has found active is not the one it activates. Until an overlap the copy about to be saved is the row, so that `SaveChange` changes what its request may change and `FillCache` shows what was published |
| `PublishedStays`: `PublishedIsFixed` | Read off `PublicationRefinement`: only drafts are edited and removed in `WidgetPublication`, and an archived version comes back as a published one |
| `HistoryActive`: `HistoryNamesActive` | `HistInv`, which follows the request from `FindActive` to `Invalidate` |
| `UsageExact`: `UsageIsExact` | `CallInv`: a call that is about to increment has a row for its period, and was not charged before; cardinalities of the set of charged calls |
| `Overshoot`: `OvershootBounded` | `LimitInv`, `CurrentInv`: of the current period, the messages counted plus the calls that may still be counted stay below `highest + peak`; a period that becomes current has no count yet |
| `CancelStays`: `CancelLasts` | `CopyInv`: without overlap the copy a client saves is the row |


`FileStoreProofs` (any files, owners, clients, requests and faults, from `FileAssumption`):

| Theorem | Argument |
|---|---|
| `ObjectsKnown`: `ObjectsAreKnown` | `ObjectInv`: who is about to drop a row finds its object removed, an object removed does not come back, and only rows that were used are confirmed again |
| `OldGoesLast`: `NewBeforeOld` | `SentInv`: what a request confirms before it deletes is the url it sent; past the confirmation its row is not temporary, which no step makes it again |
| `UsedFilesStay`: `ReferencedIsStored` | `FilesUsedInv`: a file is used by the owner it was first given to, or exposed (`ClaimInv`); a request for an owner that is not exposed is alone, and what it has read is still so (`AloneInv`); a file in use is fresh, and so is one that a request is about to save (`StoredInv`); what the job has listed is used by nobody, nor about to be (`OrphanInv`). None of these is kept without the others: what a request deletes is given up by the owner it belongs to, what the job deletes was never in use |

Each module has its type theorem `TypeCorrect` as well.

`SettledForGood` and `PublishedIsFixed` are stated beside their proofs, as consequences of
what the runs check, and are in no run. Every safety property of the passing runs is stated by a theorem. Only model-checked:
`EveryQueuedJobSettles`, `EntriesSettle`, `WebhooksSettle` and `EveryOrphanGoes`, as liveness under fairness
is beyond the prover.

## 5. Where the code disagrees with what it says

1. `JobsOutcome`. `update` sends no event for COMPLETED and FAILED because the
   success/error listener is said to (creation-jobs.service.ts:501). The processor
   ends jobs through `update` and emits neither event: for a synchronous tool the
   browser's last news is PROCESSING.
2. `RepliesTakeover`. "Human Takeover - Agent takes over conversation from bot",
   "Hand Back - Agent returns conversation to bot"
   (`conversations/conversations.service.ts:443`, `:470`). `addMessage` (`:536`) and
   `findOrCreateFromWebhook` (`:1095`) save a copy of the row that they read awaits
   before, `metadata` included: a takeover in between is undone.

Seen while modelling, without a run of its own:

* "The generation process has been stopped"
  (`src/web/components/providers/CreationJobsProvider.tsx:84`): the processor never looks
  at the row, goes on, and overwrites CANCELED; `JobLifecycle` says so. "Already finished,
  do nothing" (creation-jobs.service.ts:543) is decided on a row read before the removal
  and the update. "The final status of the job" (dto/complete-job.dto.ts:7) is overwritten
  when the worker's attempt fails after the tool has posted.
* Removing the entry of an active job "prevents it from being retried"
  (`knowledge-base/services/kb-processing-queue.service.ts:191`). BullMQ refuses to
  remove it; a cancel during the embedding ends the process
  (`kb-embeddings.service.ts:236`), and the entry, having stalled, is executed again in
  full, as the map that knew of the cancel is gone. `KbProcessing` has all of this.
* "Error handling and retry logic" (`channels/webhooks/webhook-processor.base.ts:24`),
  "Rethrow to trigger BullMQ retry logic" (`webhook.consumer.ts:67`): `processPayload`
  catches what `processSingleMessage` throws, and the entry is completed. A message whose
  `SaveLastMessage` failed is in the history and is never answered.
* `clearBuffer` ("e.g. at human takeover", `message-buffer.service.ts:155`) is called by
  nobody: what was buffered before a takeover is answered by the bot.
* Pausing a bot sets its status; the listener looks at `isActive`.
* "Sync with BotEntity" (`widget-version.service.ts:272`) is done by publish and not by
  roll back, after which `bot.activeVersionId` names the version rolled back from.
* Two overlapping publications may leave two versions active; the index on
  `(botId, isActive)` (`widget-version.entity.ts:16`) is not unique.
* A visitor may put a version into the cache after the invalidation of the one that
  replaced it: it is served until it expires or the next publication.
* "100 Messages/mo" (`plan-seed.service.ts:26`): `currentPeriodEnd` is written at the
  creation of a subscription and by nobody after it, so a subscribed workspace's period,
  and with it its count, never ends; only workspaces without one start anew each month.
* "No active subscription or default plan found" (`subscriptions.service.ts:167`):
  nobody looks at the status of a subscription, so a canceled one goes on.
* The webhooks of both providers create no subscription: Stripe's passes `'pro'` for a
  uuid (`billing.controller.ts:173`), and PayOS's looks for the word "Work" in a
  description of which 25 characters are kept (`payos.service.ts:54`,
  `billing.controller.ts:207`), of which a plan's uuid takes all.
* A PATCH of a template without `thumbnailUrl` deletes the thumbnail it goes on to show
  (`templates.service.ts:160` compares the old url with `undefined`).
* `TemplatesService.create` confirms no `mediaFiles` and `bulkUpdate` confirms nothing: the
  nightly job removes those files after a day. So it does with a file that is uploaded and
  only submitted with its form a day later.
* An imported template (`:215`) and a cloned tool share the urls of their originals; the
  first template to change its thumbnail deletes the file of the others.
* "Only delete old avatar after confirming new avatar works" (`users.service.ts:185`) holds
  of one request; another change of the user, saved meanwhile from an older copy
  (`user.repository.ts:131`), brings the url of the deleted avatar back.

## 6. Plan

In this order; each module has one action per operation, its constants under a
named assumption and no recursive operator, so that it can be proved about.

1. `JobQueue`, `CreationJobs`, `JobLifecycle` and their proofs, the refinement
   included: done.
2. `KbProcessing` and `DocumentLife`, `BotReplies` and `AnsweringService`, `WidgetVersions` and
   `WidgetPublication`, with their proofs and refinements: done.
3. `BillingQuota`, `FileStore` and their proofs: done. To come: what a period and a file
   promise as specifications that these implement; the creation of a conversation by its
   first messages, which may create two.
4. `Publishing` (postToChannels) and `DraftSteps` (executeJobStep), the membership of
   workspaces and invitations.

Not modelled, and not planned: retrieval quality, prompts, providers' APIs, the
upload of bytes (I/O); tables with plain create/read/update/delete; migrations, seeds, styling,
editor tooling. The reasons are in `components` of `PROJECT.json`.
