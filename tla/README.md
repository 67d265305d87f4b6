# Task manager: specifications, checks and proofs

TLA+ specifications of `backend/src/task_manager` (paths below are relative to that directory unless
they start with `backend/`, `frontend/`, `k8s/` or `docker-compose.yml`), the TLC runs that check them on
small instances, and TLAPS proofs about each state machine. `PROJECT.json` lists the runs, the lines each
definition translates, the hazards, the findings and the theorems.

## 1. Inventory

The backend is hexagonal: entities in `domain/`, use cases in `application/`, adapters in
`infrastructure/`, and three driving processes in `presentation/`: the HTTP API, a command line, and
a worker that consumes RabbitMQ. They share one PostgreSQL database.

| Part | State it keeps | Operations | Hard behaviour | What makes it correct |
|---|---|---|---|---|
| Task requests (`presentation/api/v1/routers/tasks.py`, `users.py`, `application/task/use_cases`, `infrastructure/persistence/task/repository.py`) | rows of `tasks` and `users`; per request one session and one transaction | create, start, complete, rename, delete, get, list, list by owner | two reads and one write per change, without lock or version; foreign key raced by deletion of users; response relative to COMMIT; broken connections | no orphan task, nothing stored that did not commit, an acknowledged creation stays; each use case indivisible (true one at a time, false in general) |
| User requests (`routers/users.py`, `application/user/use_cases`, `infrastructure/cache/redis_cache.py`) | rows of `users`, unique e-mail index, Redis entries `user:{id}` | create (also from the command line), rename, cached get, list | check-then-insert on a normalised address; invalidation before COMMIT; refills of what was read before; Redis failures swallowed | addresses unique whatever their spelling, lost races answered as conflicts, nothing uncommitted served, staleness bounded by the TTL |
| Sharing (`share_task.py`, `infrastructure/messaging/rabbitmq.py`, `presentation/worker/__main__.py`, `notify_task_shared.py`, `infrastructure/mail/smtp.py`) | exchange, queue, dead-letter queue, unacknowledged deliveries, handlers of the worker | publish, deliver, mail, report, acknowledge, reject, move back | at-least-once delivery, crash between mail and acknowledgement, reconnection under running handlers, failed SMTP confirmations, missing recipients, reports the worker cannot read | every recipient of a message is mailed, reported or still to be served; repeats only after a redelivery; every message settled |
| Bulk import (`import_tasks.py`, `infrastructure/persistence/*/bulk.py`, `unit_of_work.py`, `presentation/cli/app.py`) | the report, the identifiers seen, one transaction per batch | read a document, read a batch, insert owners, filter, insert tasks, commit | kill between batches and second run; cut documents; rows that stop the reader, the comparison or the statement; owners refused for their address; tables changed between statements | the report adds up and is true, whole batches only, no overwrite, a batch fails only when an owner is deleted under it, importing an export again is harmless |
| Imports at once (same code, several processes) | keys each open transaction has inserted | offer a row, wait, commit, deadlock | waits on rows of others that may be rolled back; crossed lock orders | what is reported is stored, rows are credited once, deadlocks only between crossed orders, every import ends |
| Export (`routers/exports.py`, `persistence/task/queries.py`, `database.py`; `frontend/src/pages/HomePage.tsx`, `api/client.ts`) | the pool's connections; per export a cursor and the rows the page has received | count, stream, compare, save | body produced after the session is closed; count and stream are two statements; bodies cut after status 200; pool exhausted | a file shows one moment, lacks at most as many rows as there were newcomers, every export ends; connections belong to requests (false) |
| Start of the API (`presentation/api/app.py`, `database.py`, `rabbitmq.py`, `backend/alembic`) | the tables, the version table; which workers serve | look for tables, create them, commit, connect to the broker | several gunicorn workers and `alembic upgrade` make the schema at once; deaths between two tables; the broker away at boot | the schema comes whole from one transaction, every worker serves in the end |
| Frontend (but for its export button), logging, mail template, HTTP schemas, wiring, deployment files | | | | see section 7 |

Interactions: the API and the import write the same two tables; the API deletes and fills Redis
entries outside the transaction; the API hands messages to the broker before its (read-only)
transaction commits; the worker reads tasks and users when a message arrives, long after the request
that published it; the API's processes and the migrations make the tables all others use. No route
deletes a user, but the schema provides for it (`ON DELETE CASCADE`), the code reckons with it
(`repository.py:62`, `backend/tests/integration/api/test_proprietaire_disparu.py`) and so do the models
(`DropUser`).

## 2. Modules

| Module | Models | Composition |
|---|---|---|
| `TaskEntity` | `Task` (`domain/task/entities.py`), its row and the columns an UPDATE sets | pure operators |
| `AtomicTasks` | the promise: each use case in one step | extends `TaskEntity` |
| `TaskRequests` | requests on tasks, statement by statement | extends `TaskEntity`; `Promise == INSTANCE AtomicTasks` |
| `UserRequests` | requests on users, with the Redis cache | |
| `Notifications` | what sharing promises: owed, mailed or parked deliveries | |
| `ShareNotify` | API publisher, broker, worker, SMTP server, operator | `Promise == INSTANCE Notifications` |
| `ImportTasks` | one import against concurrent changes | |
| `ConcurrentImports` | several imports against each other, row by row | |
| `Exports` | count, streamed export, the page that compares them, the pool | |
| `StartUp` | gunicorn workers, migrations, the schema, the broker at boot | |
| `TaskRequestsProofs`, `UserRequestsProofs`, `ShareNotifyProofs`, `ImportTasksProofs`, `ConcurrentImportsProofs`, `ExportsProofs`, `StartUpProofs` | theorems | extend the module they name, and `TLAPS` |
| `TaskPromiseProofs` | more theorems about `TaskRequests`, and that it implements `AtomicTasks` when serial | extends `TaskRequestsProofs` |
| `MC...` | instances for TLC | extend the module they name |

### Task requests

A request goes through `idle`, `loaded` (the aggregate is in memory after its transition), `writing`
(`session.get` of `repository.save` has answered), `flushed` (its statement ran), `committed`, `done`.
Each action is what happens between two awaits of the database: `LoadTask`/`LoadTaskFails` is
`repository.get` and the transition of `StartTask`, `CompleteTask` or `RenameTask`; `CheckOwner` is
`users.exists` and `Task.create`; `Reload` the second read; `Flush` the statement with every way it
ends (foreign key, primary key, no row matched); `Commit` and `Respond` the two halves of `SessionDep`,
`scope="function"`; `Break` a lost connection. An instance read twice in a session is either read
again or the identity map's, depending on garbage collection: `Reload` allows both. `RefuseId` and
`TitleRefused` are identifiers and titles the value objects refuse; `ListTasksByOwner` reads rows without
building aggregates, and so shows those `GET /tasks` fails on.

PostgreSQL is external and modelled as used: a statement sees what is committed, a written row is
locked until its transaction ends, an UPDATE that waited applies to the version it then finds (so
`Updated` changes only the columns that differ from the instance read), an inserted row keeps a key
share lock on its owner, and a deletion of a user waits for both.

### User requests

The same transaction scheme, plus `Invalidate` (the `DEL` between flush and commit), `LookUp`,
`ReadUser` and `Fill` for `GetUser`, and `Expire` for the TTL. `RedisFails` lets every Redis command
fail, which the adapter turns into a miss or into nothing. `Normalised` is what `Email` makes of what is
typed: one address has several spellings, and some strings are no address. `seen[r]`, a history variable,
holds the names the user of request `r` had since `r` began.

### Sharing

A message is what `ShareTask` published or the report `publish_to_dlq` made of one. `To[s]` is the list of
recipients the request asks for, kept as it is (`user_ids`, `schemas/task.py:50`): it may be empty and may name a
user twice, and the loop of `NotifyTaskShared` mails its entries one by one in their order (`Notify`). What is
counted in `mailed`, reported in a message and owed by `Notifications` is therefore an entry of a list, and a user
gets as many mails of a share as the list names it, times the deliveries that got so far. `handlers` are the
coroutines aio_pika runs, at most `Prefetch` with a delivery the broker still recognises (`live`).
`Disconnect` takes deliveries back and leaves the coroutines running, `StopWorker` kills them; `main` does
not drain them on SIGTERM either. `Reject` is what `incoming.process()` does on an exception: a missing
task, a missing recipient, a subject no header can hold. `Replay` is an operator moving a dead-lettered
message back as it is: a report has two keys more than `ShareTaskNotification` (`dto.py:53-68`) takes, so
its handler never gets past unpacking it and it is dead-lettered again. Before a worker has ever declared
the queue, the exchange drops messages (`declared`). `taken`, `dropped`, `returns` and `mailed` are history
variables.

`Notifications` knows no message, queue or worker, only deliveries (a share and an entry of its list) that are owed,
mailed or parked. In `ShareNotify` what is owed is what the messages waiting, or held by a handler that must
answer for them, name; what is parked is what the dead-letter queue names.

### Import

A document is NDJSON or an array, whole or cut; a cut array is refused before anything is imported
(`_lire_tableau`), a cut line is an illegible one (`_en_ligne`). A row is `valid`; or `refused`, put aside
by itself; or `mixed`, `unstorable` or `unnameable`, which stop the import (a comparison of dates with and without an
offset, a text of the task that the INSERT of the tasks refuses, a name of the owner that the INSERT of the owners
refuses, `SaveUsersFails`, if it is the last the batch gives); or illegible. One action per statement of a batch, in one transaction
(`newUsers`, `newTasks`) that `Commit` moves to the tables, and `Kill` at any point; `Start` runs the command
again on the same file, and notes in `already` which tasks and owners are stored. `NewOwners` are the batch's owners that `ON CONFLICT DO NOTHING` does not skip, the first of those that share
an address the tables do not have; `KeepOwned` is `_sans_orphelines`. `DropUser`, `DeleteTask` and `CreateUser` are what else may happen to the tables between
two statements.

`ConcurrentImports` leaves all that out and looks at what two imports do to each other: each row of a
statement is a step, in the order in which the batch offers them (`RowsAfter` numbers the owners by the line
that mentions them first, and puts the tasks behind them), a row whose key another open transaction has inserted waits for its end, and a ring of
waits ends by the database's detector failing one of them.

### Export

A click sends two requests: `Count` to `CountAnswered`, an ordinary session, and `Ask`, whose handler
returns at once. `SessionDep` has `scope="function"`, so FastAPI (0.139.2 in `backend/uv.lock`) closes
the session there, before it sends the response; SQLAlchemy lets a closed session begin again, and `Open`
does: the SELECT of the body takes a connection for a transaction nobody ends. `Collect` is the garbage
collector giving it back; until then it is in `held`. `Send` brings a batch of the cursor (`yield_per`),
`Finish` and `Break` end the body, which a page may take for its ordinary end either way (as the comments
of `client.ts:140` and `exports.py:46` reckon), `Compare` is the test in `handleExport`. `TimeOut` is the
pool's (30 seconds by default). `counted` holds the tasks behind the number the page knows, `apart` which
tasks never met; both are there for the properties.

### Start of the API

A worker looks for each table (`LookFor`), creates those it missed (`Create`: the statements of `create_all`,
`database.py:74-75`, or those of the revision, whose tables `Revision` lists; in one transaction that `Commit` ends,
`engine.begin` or alembic's) and connects to the broker once (`Connect`). A worker whose lifespan raises takes its pod
along (`Fails`: gunicorn halts its master); one that dies otherwise is replaced (`Die`). `alembic upgrade
head` is `ReadVersion`, then the one revision in one transaction. The version row counts as the version
table. Without `init_db` pods are deployed after an upgrade (`Start`).

### Data abstractions

* A title is named after the request that wrote it, and a completion date after the request that read
  the clock; requests write each once, so equality of names is what the code's comparisons see. Two
  completions are assumed to read different instants of the clock. Descriptions never change, and are
  left out. A title equal to the stored one is the same write with no changed column.
* `created_at` is `past`, or `ahead` of the clock of every live request, which only an import produces.
* Identifiers in files are spelled as the export spells them.
* A malformed recipient behaves as one that does not exist.
* In `ConcurrentImports` an owner and its address are one key.

## 3. Runs

All configurations set `CHECK_DEADLOCK FALSE`: requests, shares, exports and imports are finite in number,
and the system stops when they are over, or when every worker serves. Waiting forever is excluded by the
liveness properties instead.

| Run | Instance | Checks |
|---|---|---|
| `tasks_safety` | 3 requests, 1 task, 1 user | `TypeOK`; `OwnerIntegrity`; `RejectedLeaveNoTrace`; `AcknowledgedCreationStays`; `UndisturbedCommitKeepsPromise`; `EveryRequestAnswered` |
| `tasks_serial` | the same, transactions one at a time | the refinement `KeepsPromise`, and `StoredTasksReadable`, `FirstCompletionKept`, `DeletedStaysDeleted` |
| `users_safety` | 3 requests, 2 users, 1 address in 2 spellings and a string that is none, failing Redis, one user may be dropped | `TypeOK`; `EmailsUnique`; `NoServerError`; `ServedNamesWereCommitted`; `StaleEntriesExpire` |
| `share_notify` | 2 messages (one whose list names a user twice, one for nobody), prefetch 1, 2 handlers, 1 failure, 1 message moved back, the user may be dropped | `TypeOK`; `NoRecipientForgotten`; `OneHolder`; `RepeatsNeedABreak`; `EveryMessageSettled`; the refinement `NotifiesOrReports` |
| `import_safety` | all files of at most 3 rows over 2 tasks, 2 owners, 2 addresses, a bad row at any place of two files with both tasks, cut documents; batches of 2; 2 runs with 1 other change, and a 3rd without | `TypeOK`; `ReportBalances`; `ReportedRowsAreStored`; `StoppedImportKeepsWholeBatches`; `OnlyADropFailsABatch`; `ReplayOfExportInsertsNothing`; `ImportOverwritesNothing` |
| `import_rivals` | 2 imports, any of 5 files over 3 tasks and 2 owners each, batches of 1, 2 or 3 | `TypeOK`; `ReportedFilesAreStored`; `RowsCreditedOnce`; `OnlyCrossedOrdersDeadlock`; `EveryImportEnds` |
| `start_up` | 3 workers in 2 pods, 2 upgrades, 1 death, 1 outage | `TypeOK`; `SchemaHasOneMaker`; `EveryWorkerServes` |
| `exports_safety` | 2 exports, 2 tasks, a pool of 1, batches of 1 | `TypeOK`; `SavedMissesOnlyNewcomers`; `RowsMetInTheTable`; `EveryExportEnds` |
| `exports_leak` | the same | violation: see section 4 |
| `tasks_unreadable` | 2 requests, 1 task | violation |
| `users_stale` | 3 requests, 1 user, Redis never fails | violation |
| `import_replay` | as `import_safety`, undisturbed | violation |

**Why these bounds.** Requests only meet on one row, so one task and one user suffice: requests on
different tasks share no state except the owner, which one task already exercises. Three requests are
two in a race and a third that observes, blocks or removes what they disagree on; the known anomalies
need two. For users one address is what two creations fight for, and the second identifier is there so
that they are two users. In `share_notify` a window of one makes the second message wait for the first, so it
needs no recipients of its own; two entries are what a loop can be cut between, and that they name one user changes
nothing but that the user goes from both (with two users the run is too long); the second handler is what survives a reconnection, and one failure or one
move back gives a message two deliveries. A batch of two with files of three gives duplicates, owners and
addresses both within a batch and across two, and a last batch that is short. A third run is what a run that was killed, one that reports and a replay
need; to keep it short, only a file with one address per owner gets it and only if nothing else has changed the
tables (the constraint `ThirdRunIsAReplay`, on a run of safety properties only). In `import_rivals` two tasks
of one owner with one of another between them give files that mention owners in different orders, and batch
sizes that cut them differently: crossed orders with sorted files and without. In `start_up` two workers of one
pod stop each other and the third competes with them, as two upgrades do. In `exports_safety` two
tasks are what a body can be cut between and what a newcomer can replace, and with one connection in the pool
an export meets the one the other left behind.

**Named bounds.** `Prefetch` is a parameter of the code (10). `Slots` bounds the coroutines, `Breaks` the
failures of the worker or its connection, `Replays` the messages moved back, `Runs` the runs of the import,
`Disturbances` the other changes made meanwhile, `Before` the users that may exist before it, `Documents` and
`Files` what is imported, `BatchSizes` the values of `--batch-size`, which is assumed positive, `Failures` and
`Outages` the deaths of processes and the absences of the broker. Requests and exports are each used once, and
an identifier of a task is used once in `Exports`, as `uuid7` makes it.

**Symmetry** of requests is used in the violation runs of an invariant only.

**Fairness.** `TaskRequests`: as long as some request that has begun can go on, one does (asyncio runs ready
coroutines; PostgreSQL wakes a waiter when the lock is released). No request is forced to begin, no
connection to break. `UserRequests`: each begun request, and the expiry of each entry (every `SET` carries a
TTL, `redis_cache.py:47`). `ShareNotify`: the worker as a whole, its restart included (a Deployment,
`k8s/worker-deployment.yaml`; it asks for two replicas, and the handlers of the model stand for those of all
workers but stop together); publications, failures, moves and deletions are not forced. `Exports`: the steps of
each export once clicked, the pool's timer included, and no collection of garbage. `ConcurrentImports`: an
import that does not wait goes on, and the detector runs (`deadlock_timeout`). `StartUp`: processes run and
are started again (the Deployment and the Job of `k8s/`; `docker-compose.yml` has no restart policy, and there
the property is only as good as who restarts it), and an outage ends. `ImportTasks` has no liveness property of
its own: nothing restarts an import.

Each property of a passing run has a mutant in `PROJECT.json`: a plausible bug in one mapped
definition (kept next to it in the module) under which TLC finds the property violated.

## 4. Where the code departs from what is said of it

| Run | Said | Done |
|---|---|---|
| `tasks_unreadable` | `domain/task/entities.py:86-87`: the database is not exempt from the domain's invariants | a start that overlaps a completion leaves `in_progress` next to a date; the row then answers 422, and so does every page of `GET /tasks` that holds it |
| `exports_leak` | `backend/docs/cours/09-lectures-et-query-services.md:222-225`: the session stays open while the body is consumed, the cursor lives in the transaction of the request | the session is closed when the handler returns; the body's transaction belongs to no request and keeps its connection until garbage collection |
| `users_stale` | `rename_user.py:30-31`: no risk of serving stale data | the entry is deleted before COMMIT, and refilled by a read in between, for a whole TTL |
| `import_replay` | `backend/docs/cours/10-ecritures-en-masse.md:141`: importing a file again inserts 0 rows | false when the file gives an owner a taken address first and a free one in a later batch |

`StoredTasksReadable` holds again when transactions do not overlap (`tasks_serial`): the fault is the
missing lock or version, not the use cases. So do two more properties that overlapping requests break:
`FirstCompletionKept` (of two completions that both loaded the task before either wrote, the second changes
the date) and `DeletedStaysDeleted` (a rename that overlaps a deletion inserts the task again). Importing an
*export* again is harmless (`ReplayOfExportInsertsNothing`): an export writes one address per owner.

No run, but met while modelling; the models follow the code:

* `Task.start` says it is without effect on a finished task and raises `TaskAlreadyCompleted`
  (`entities.py:107-111`).
* A task imported with a creation date in the future can be completed, and then not read: its completion
  precedes its creation (`entities.py:95`, `118`).
* `dto.py:75-78` says an unreadable date is rejected row by row; comparing a date with a UTC offset and one
  without raises `TypeError` (`import_tasks.py:188`), which stops the import. `null` or a number in a text field
  is accepted, as its `str`.
* `import_tasks.py:210-211` takes an owner's creation for necessarily later; the last row of an owner wins.
* Two exports of one database, imported at once, may deadlock: tasks deleted from one of them change the order
  in which owners are first mentioned. The import that loses stops; running it again is harmless.
* Reports moved back from the dead-letter queue always return there (see Sharing). A user a list names
  twice is mailed twice, without any redelivery; a message published while the broker is away waits with the request's
  connection in hand.
* `app.py:106-108` says a reading GET is served while the broker is down. A worker that starts then fails, and
  stops its pod: readings end with the next worker that dies. No deployment probes `/ready`.
* The comment of `k8s/migrate-job.yaml` relies on a lock of Alembic that `alembic/env.py` does not take; the
  tables themselves are what makes the second run wait and fail. A schema made by `create_all` cannot be upgraded
  before `alembic stamp`.
* CORS (`app.py:79`) does not allow the method PATCH, which the routers use.

## 5. What is proved

`TaskRequestsProofs`, for every set of requests, tasks and users, from `EntityAssumption` (`Null`,
`Absent` and `Origin` are what their names say) alone:

* `TypeCorrect`: `Spec => []TypeOK`. `TypeOK` is not inductive: `Commit` builds a row from `existing` and
  `entity`, and a transition needs a stored row. `TypeInv` adds `InProgress` (what a request has in hand
  in each phase), `OneWriter` (at most one flushed request writes a given task) and `HeldRowStays` (the row
  an UPDATE or DELETE has flushed over is there, and the key it has inserted is free, until it ends).
* `OwnersExist`: `Spec => []OwnerIntegrity`. `OwnerInv` adds `HeldOwner`: the owner of an inserted,
  uncommitted row exists. It is kept because `DropUser` waits for `SharesOwner`, established because
  `Flush` evaluates the foreign key; an update never changes the owner (`UpdatedRow`, `TransformedRow`).
* `NoTrace`: `Spec => []RejectedLeaveNoTrace`. `CleanInv` extends cleanliness from the table to memory
  (`CleanMemory`: what a request has read or built names only itself and committed requests) and says an
  answer is the last thing that happens to a request (`AnsweredLast`), so that the set of committed
  requests only grows (`SettledGrows`).
* `UndisturbedCommits`: the action property `UndisturbedCommitKeepsPromise`, from `TypeInv`: if both reads
  and the committed row agree, the column-wise UPDATE is `Transformed`, all columns together.

Each preservation proof has one step per kind of action. `StepKinds` reduces them to four: `Quiet` steps
that touch no table and no flushed request, `Flush`, `Commit` and `DropUser`; `Steps` regroups `Next` once.

`TaskPromiseProofs` goes on with the same module and the same assumption. It adds to the invariants above
`IdsAreFresh`: identifiers are drawn once, each creation has its own, and there is no row under it until it
commits.

* `CreationsStay`: `Spec => []AcknowledgedCreationStays`. What has to be kept is that whoever is changing a
  created task has its owner in memory (`OwnerKept`): an overlapping rewrite can change anything else, and
  may even bring a deleted task back, but the deletion of the owner waits for it or removes it.
* `SerialRequestsKeepPromise`: `SerialSpec => KeepsPromise`, that is, requests whose transactions do not
  overlap implement `AtomicTasks`. `AtWork` says that the open request still finds the row it has read, unless
  `DropUser` took it with its owner; every action but `Commit` and `DropUser` then is a stutter, and `Commit` is
  the whole use case.
* `FirstCompletion`, `DeletionsStay` and `TasksReadable`: the properties of serial requests, each from the step of
  `AtomicTasks` that a step of theirs is. The last needs that no task was created `ahead` of the clock, which an
  import could have stored (see section 4); without that hypothesis it is false.

`UserRequestsProofs`, for every set of users, requests, addresses and spellings, from `UserAssumption`, with a
Redis that may fail at every command:

* `TypeCorrect`: `Spec => []TypeOK`, with `InProgress`, `IdsAreFresh`, `OneWriter` and `HeldRowStays`, as for tasks.
* `AddressesUnique`: `Spec => []EmailsUnique`, from `EmailInv`: no two uncommitted INSERTs bring one address,
  and the address of one is nobody's, because a second INSERT waits for the first. A rename never changes it.
* `OnlyRenamesFail`: `Spec => []NoServerError`. What fails a request that is not a rename is the unique index, which
  the repository turns into a conflict; the key cannot, as it is fresh.
* `OnlyCommittedNamesServed`: `Spec => []ServedNamesWereCommitted`. What is stored, in the cache or in the body
  of a request is the name of a committed request, so that a refill with an old row or a `DEL` too early only
  ever brings back an older name.

`ShareNotifyProofs`, for every set of shares, recipients and handlers, every prefetch count and any number of
failures and moves, from `ShareAssumption` and `IdleAssumption` (`Idle` is no handler):

* `SharingRefinesPromise`: `Spec => NotifiesOrReports`, that is, `ShareNotify` implements `Notifications`. A
  message leaves the broker for good only when a live handler acknowledges it (`GoneIsSettled`), so the
  inductive `SharingInv` says what such a handler knows (`Duties`): once it has read its message each
  entry is in `rest`, in `failed` or was mailed, and once it has reported, the report is somewhere.
  `ReportsStay`: a report is never acknowledged, as no handler gets past reading it. The `...Keeps` lemmas
  show the invariant, one per action, the `...Refines` lemmas the step of `Notifications` that each action is.
* `NobodyForgotten`: `Spec => []NoRecipientForgotten`, from the refinement (`PromiseForgetsNone`: no step of
  `Notifications` forgets a delivery) and from `Answers`: a 204 means taken or dropped.
* `OneHolderHolds`: `Spec => []OneHolder`, a conjunct of `SharingInv`. A message is in one place because `Publish`
  only adds one of a share that is nowhere, `TakeBack` takes every live message at once, and only the live
  handler of a message settles it.
* `NoIdleRepeat`: `Spec => []RepeatsNeedABreak`. `MailsAreBudgeted` counts, for a share and an entry of its list, the mails
  sent, the handlers that may still send one (`Pending`, a finite set) and the message if it waits: never more
  than one, and one for each time the message came back. That two entries may name one user is no
  hypothesis of it. Publishing is what spends the one, `TakeBack` and
  `Replay` pay for the rest, and delivering and mailing move a unit from one term to another.
* `ShareTypes`: `Spec => []TypeOK`, whose bounds on counters follow from the same invariant.

`ImportTasksProofs`, for every set of documents, batch size, number of runs and of other changes, from
`ImportAssumption` (constants have their types, and tasks, owners and `Absent` are told apart):

* `NothingOverwritten`: the action property `ImportOverwritesNothing`, from `TypeInv`: what a transaction has
  inserted is not in the tables (`Fresh`), and what others insert meanwhile has a key of its own.
* `OnlyDropsFailABatch`: `Spec => []OnlyADropFailsABatch`. `OwnersThere`: as long as nobody drops a user, either
  an owner was skipped and `KeepOwned` asks, or none was and all are there (`NobodySkipped`).
* `ReportAddsUp`: `Spec => []ReportBalances`, and `ImportTypeCorrect`: `Spec => []TypeOK`. `Tally` says at each
  statement which rows have been read and where each is counted; `PutAside` that the reader has put aside
  exactly the illegible lines before the last row it gave. Its lemmas are about batches: they are a
  run of legible lines, and the rows behind a batch are those behind the last one with the batch.
* `ReportedIsStored` and `WholeBatchesStay`: `Spec => []ReportedRowsAreStored` and
  `Spec => []StoppedImportKeepsWholeBatches`, from `BatchesAreWhole` and `NothingElse`: a row behind the offset is
  stored, deleted since or accounted for, and a task or an owner of the file that was not stored before the run is
  from such a row. A row
  rejected as a duplicate, or skipped, is one whose task is stored.
* `ReplaysInsertNothing`: `Spec => []ReplayOfExportInsertsNothing`. A line is `Settled` if its task and owner are
  stored, or its owner is not and somebody has its address; with one address for each owner a run that
  reports has settled every line, and a run over settled lines inserts nothing and keeps them settled. With
  two addresses an owner refused once may be taken later: the counterexample of `import_replay`.

`ConcurrentImportsProofs`, for any set of imports, files and batch sizes, from `ImportsAssumption`. It asks that
tasks and owners are finitely many, which identifiers of 128 bits are; rows are counted.

* `ImportsInvariant`: the inductive `ImportsInv` says that a key is committed or of one open transaction
  (`Exclusive`), that an import sees what it has offered and has inserted nothing else (`Progress`), and that the
  lines behind it are stored (`Behind`). With it hold `Credited` and `Unhindered`.
* `ImportsTypeCorrect`: `Spec => []TypeOK`; an import counts no more rows than there are keys because the keys
  it has committed and those it holds are disjoint.
* `ReportedFilesStay`: `Spec => []ReportedFilesAreStored`. A row that waited and is then offered is inserted or
  found committed: there is no third case, and so what is skipped cannot be rolled back.
* `CreditsAddUp`: `Spec => []RowsCreditedOnce`, from `Credited`: the committed keys are shared out among the
  imports, and a commit adds to the share of one the keys it held.
* `OneOrderSuffices`: `Spec => []OnlyCrossedOrdersDeadlock`. Of a ring of imports that wait take the one whose key
  is the greatest in the order (`RingsAreCrossed`): the import that holds it has offered it and waits for a greater
  one. Nor does a foreign key ever fail: the owners of a batch come before its tasks.


`ExportsProofs`, for every finite set of exports and tasks, every pool and batch size, from
`ExportAssumption`:

* `TypeCorrect`: `Spec => []TypeOK`, which is inductive as it stands.
* `ExportsShowOneMoment`: `Spec => []RowsMetInTheTable`. The invariant is about snapshots, of which received
  rows are part (`RowsOfSnapshot`): two tasks of a snapshot are not apart (`SnapshotsMet`), because what is
  apart has its first member in `gone` (`Lifetimes`) when the SELECT reads `stored`, and because a newcomer
  is in no snapshot when it is set apart from what is gone.
* `SavedFilesMissOnlyNewcomers`: `Spec => []SavedMissesOnlyNewcomers`, from `SavedCounts` (what is saved has as
  many rows as were counted) and a lemma on cardinalities, `MissesAtMost`.

`StartUpProofs`, for any number of workers, pods, upgrades, deaths and outages, from `StartUpAssumption`:

* `OneMaker`: `Spec => []SchemaHasOneMaker`. The inductive `SchemaInv` says what an open transaction has in hand:
  a part of what its maker makes, that nobody else has and that is not stored, and what it has still to make
  is the rest of it. Whoever holds `users` excludes both rivals; who commits stores all it lacked.
* `StartUpTypes`: `Spec => []TypeOK`, a consequence of `SchemaInv`.

Every invariant and action property of the passing runs, and both refinements, are thus theorems. The models
use no recursion and no fold, so that all of them can be reasoned about. Where an argument goes through a file line
by line, it takes the least or the greatest line that would refute it (lemmas `Least` and `Greatest`, from the
well-foundedness of the naturals) instead of an induction theorem, which the installed provers cannot
instantiate.

Only model-checked: liveness under fairness (`EveryRequestAnswered`, `StaleEntriesExpire`,
`EveryMessageSettled`, `EveryExportEnds`, `EveryImportEnds`, `EveryWorkerServes`), as `ENABLED` is out of the
prover's reach; and that the four properties of section 4 fail, which is a matter of one behaviour each.

## 6. Plan

1. *Done*: task requests and their promise, users and cache, sharing and its promise, one import and several,
   export, start of the API; all their invariants and action properties proved, and the refinements of
   `AtomicTasks` and `Notifications`.
2. Next proofs: the safety part of what the liveness properties rest on (a waiting import waits for one
   that is running; who holds the only connection of the pool), as invariants of their own where they say
   more than the fairness does.
3. Candidates for models: the frontend's query cache (a refetch that answers after a mutation, a page that
   does not show the new task because the list is ordered by creation).

## 7. Not modelled

The frontend, but for its export button: a client, whose query cache is a candidate for a module of its own.
Validation of strings and formats beyond whether they are refused or normalised; HTTP schemas, wiring,
logging and the mail template, which keep no state; the columns, order and pages of read queries; `downgrade`
and the offline mode of the migrations, which nothing runs; `/health` and `/ready`; the connection pool
outside `Exports` and PgBouncer, as statements that wait for a connection are statements that come later;
deployment files, used for fairness and for the shape of `StartUp`; the course and the plugins.
