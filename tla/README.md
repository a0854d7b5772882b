# GateSync: verification project

TLA+ models, TLC runs and TLAPS proofs for GateSync (`src/`), a platform that
follows trucks through yards, border gates and customs.  `PROJECT.json` lists
components, runs, mutants, findings, hazards and theorems, and maps each
definition to the lines it translates.

## 1. The system

The API (`src/apps/api`, NestJS, Prisma on PostgreSQL, BullMQ on Redis) may run
as several processes.  Transactions run at READ COMMITTED.

| Part | State | Operations | Talks to |
| --- | --- | --- | --- |
| Sync scheduler (`integrations/sync-scheduler.service.ts`) | `integration_accounts.lastFiredAt`, `integration_sync_runs`, backpressure flag in memory | cron tick every 30 s, `triggerManual` | database row locks, BullMQ queues |
| Sync worker (`integrations/sync-worker.service.ts`) | status and counters of a run, batch in memory | `execute`, retry, failure event | provider adapters, `TripsService.applyCommands`, BullMQ, event bus |
| Trips service (`trips/trips.service.ts`, `trip-state-transition.service.ts`) | `trips.currentStatus`, `trip_events` | `createTrip`, `createEvent`, `createSystemEvent`, `applyCommands` | event bus, cache, Cua Khau So queue |
| Cua Khau So sync (`integrations/cua-khau-so/*`, `integration-sync-queue.service.ts`) | lock, lease and failure counter of an account, declarations, trip statuses | connect, sync, polling, reconcile | external service, trips service |
| Notifications (`notifications/**`) | notification rows, rules, preferences | fan-out of domain events, in-app publication, external dispatch, recovery | event bus, BullMQ, realtime, e-mail, SMS, Zalo |
| Operations cache (`cache/*`) | entries in memory and in Redis | `getOrSet`, invalidations | all read models |
| Memberships (`memberships/*`) | memberships, invitations | invite, accept, update, remove | auth |
| Drivers, vehicles, audit, organisations, auth, dashboard, trip operations | single rows or none | CRUD, queries, computations | database |
| Web application (`src/apps/web`) | browser | user interface, offline queue (never filled) | API |

What is hard here: several processes and requests work on one account or one
trip; a job is put into Redis inside a PostgreSQL transaction, and neither store
knows about the other; BullMQ redelivers the jobs of processes that stalled or
died; batches fail half way; domain events are emitted after a commit and are
not persisted; statuses are read in one statement and written in another.

What makes each part correct:

* scheduler: at most one run of an account is in progress, an account that is
  due is not forgotten, guards hold at the commit and not only in the snapshot;
* worker: a run that was started ends, a failed run is announced, retries do
  not overlap, counters tell the truth, no record of a successful run is lost;
* trips: a repeated call has one effect, the status is what the timeline says,
  the transition table is respected, a listener hears of an event once;
* Cua Khau So: one sync per account at a time, trips end up as their
  declarations say; notifications: one message per event, recipient and
  channel, none stays pending for ever; cache: nothing stale is stored after an
  invalidation; memberships: an organisation keeps an owner.

## 2. Modules

| Module | Models | State in the code |
| --- | --- | --- |
| `SyncPipeline` | scheduler, BullMQ and worker of the AUTO SYNC pipeline, across processes | rows of accounts and runs, row locks, jobs, leases, the place of each tick, request and worker in its code |
| `RunLedger` | what the pipeline promises about runs; abstract, maps to no code | open and closed runs |
| `SyncPipelineProofs` | theorems about `SyncPipeline`, with the refinement of `RunLedger` | |
| `SyncAttempt` | the attempts of one run, record by record: mapping, batches, `applyCommands`, draining, counters | run row, trip events, memory of `execute` |
| `SyncAttemptProofs` | theorems about `SyncAttempt` | |
| `TripTransitions` | the two tables of `TripStateTransitionService` | none |
| `TripEvents` | `createTrip`, `createEvent`, and the sync pipeline as another writer | trips, trip events, the place of each request |
| `TripEventsProofs` | theorems about `TripEvents` and `Pages` | |
| `TripOperations` | delays, exceptions, offered actions of `TripOperationsService`; the paged list and the browser that reads it | trip statuses and times, the loaded list |
| `TripOperationsProofs` | theorems about `TripOperations` | |
| `CuaKhauSoMapper` | `CuaKhauSoMapper`: what a declaration as the source shows it is turned into | none |
| `CuaKhauSo` | one synchronisation inside: scan, selection, details, events, statuses, reconciliation | declarations, trips, the place of each flow |
| `CuaKhauSoProofs` | theorems about `CuaKhauSo` | |
| `CuaKhauSoRuns` | who synchronises, and when: pollers, debounced queue, fallback timers, lock, lease, back-off | account row, BullMQ job, memory of each poller |
| `CuaKhauSoSessions` | `connect`, the session store, reads with a refreshed token | stored credentials, sessions of each process |
| `CuaKhauSoSessionsProofs` | theorems about `CuaKhauSoSessions` | |
| `Notifications` | orchestrator and external dispatcher, for one recipient and event | notification rows, jobs, the place of each flow |
| `OperationsCache` | `getOrSet` and invalidations of one key | copies in each process and in Redis |
| `Memberships` | invitations, acceptances, changes of roles and states | memberships, invitations, what each request has read |
| `MembershipsProofs` | theorems about `Memberships` | |
| `Fleet` | drivers, vehicles, the trips that refer to them, uploads of the drivers' portal | their rows, what each call has checked |
| `DeclarationsPage` | the page of the declarations in a browser: filters, pages, details, synchronising buttons | state of the component, calls under way |
| `Forms` | the forms of the trip page and the administration page | state of the component, what is recorded |
| `Services` | memberships, notifications, cache, Cua Khau So runs, sessions, trip list and fleet side by side | theirs, and which of them a behaviour is of |
| `ServicesProofs` | theorems about `Services` and so about each of them | |
| `Pages` | `TripEvents`, `DeclarationsPage` and `Forms` side by side | theirs, and which of them a behaviour is of |
| `MC...` | small instances for TLC | |

How they fit together.  `SyncPipeline` decides that an attempt runs,
`SyncAttempt` is what one does, `TripEvents` what happens to a trip it writes
to.  `CuaKhauSoRuns` decides that a run of the older Cua Khau So flow starts,
`CuaKhauSo` (which extends the mapper and the transition table) what it does.
Runs can overlap, as `CuaKhauSoRuns` shows, so `CuaKhauSo` lets them overlap
freely: it needs no lock to be right about what it promises.  In the same way
`CuaKhauSo` has `createEvent` as one step because `TripEvents` has its races.
The other services react to trip events but share no row with them; `Services`
composes them side by side, one per behaviour; `Pages` does the same for
`TripEvents` and the pages of the browser.  `MCServices` and `MCPages` are the
instances of the two that TLC checks.

### SyncPipeline

A *flow* is one activation of the scheduling code: a ticker (the cron handler of
a process; `tickInFlight` keeps it from overlapping with itself) or a manual
request.  It goes `idle -> scan -> begin -> locked -> inserted -> enqueued` and
back.  The boundaries are the awaits at which another actor can change what
comes next: the candidates are a snapshot (`Tick`), the row lock is taken later
(`LockRow`, `RowNotAcquired` for SKIP LOCKED), guards are read under the lock
(`Refused`), the run's row is invisible until `CommitRun`, but its job is in
Redis from `EnqueueJob` on.  `RollsBack` is any failure inside the transaction:
the row is gone, a job that was added stays.  `TickMiscounts` and `TickFails`
are the two failures of a tick itself: a queue that cannot be measured counts as
empty, and a failing `findMany` ends the tick.

A worker goes `idle -> taken -> running -> (requeue | alert) -> ack`.  It writes
`RETRYING` before it adds the next job, and `FAILED` before it emits the event,
in the order of the source.  BullMQ is external and modelled by what the source
relies on: ids are unique as long as a job is remembered (the model never
forgets one; the code keeps the last 1000), a job whose worker died or lost its
lease is redelivered at most `MaxStalls` times, a job that threw is not run
again.  A worker that lost its lease goes on, as it does in reality.

Time is the index of the latest cron occurrence.  `Provider` enters through the
queue names, which scheduler and worker build separately.  History variables
(`ended`, `missed`, `fires`, `alerted`) record what properties speak about; no
guard reads them.

### SyncAttempt

A record is its idempotency key, or `Bad` if `map()` rejects it, throws, or
returns a command of another tenant.  `BeginFlush` takes the batch out of
`pendingBatch` and does the lookups; `CommitBatch` inserts and counts in one
transaction; in between, `RivalInserts` may commit one of the keys.  The code
catches the violated unique index and means to skip the command
(`trips.service.ts:1145`), but PostgreSQL has aborted the transaction by then, so
the batch is rolled back (`BatchCollides`).  `Settle` replaces the row's
counters by the attempt's, as every `markRun...` does.

### TripEvents

A request goes `new -> begin -> validated -> committed -> answered`: the lookup
of its key, the read of the trip, the write, and the emission are separate
steps.  `CommitCollides` is the P2002 path, which here runs after the
transaction and works.  `LoseRequest` is a process that dies or an answer that
is lost; the caller repeats the call as another request.  `ApplyCommand` is the
pipeline, which inserts and commits events, corrections among them, without looking
at the trip's status.  Its announcement comes after the commit (`AnnounceCommand`),
passes over a correction, and is lost if the worker dies in between (`LoseCommand`):
the run that is delivered again finds the key.

### TripOperations

Pure parts are operators of the same names: `ArrivalDelay`, `StatusDelay` and
`PlannedStartDelay` are the three delays of `calculateDelayDetails`;
`exceptionCodes`, `priority`, `NextAction` and `availableManualActions` follow.
Around them trips get events (`createEvent`, through the transition table) and
time passes.  A browser (`reader`) opens a list, loads further pages, and
reloads it after a synchronisation, as `trips-client.tsx` does: the page that
was asked for before a reload may arrive after it.

A list is restricted by `where`, and its pages are cut by the database, or, with an
exception parameter, from all exceptions in memory (`CutByDatabase`).  The status
stands for every column of the `where` clause that changes while a list is read (the
gate, the window of planned starts, the driver): a trip that no longer meets the
filter leaves the list, one that comes to meet it joins it.

A list is a linear order: the pairs of its trips of which the second does not
come before the first.  `Listing` sorts as `sortTripsForOperations` and the
database do, by a tuple of numbers per trip (`OperationsKey`, `DatabaseKey`) whose
last is the order of creation: JavaScript's sort is stable, so trips it does not
tell apart stay as the database has them.  `Position` is a trip's place,
`StartIndex` that of the cursor in a list that is computed anew with every
request, and `Page` what is at the places after it.  When the cursor is not in the
list any more, the list of exceptions starts from 0; the database goes to the rows
that are not before the cursor's row in its order, whether or not the filter lets
that row through, and skips the first of them (`skip: 1`), which then is a trip that
was never shown.  (That Prisma positions a cursor whose row is outside the filter in
this way, by the values of its columns, is external.)  Of what the browser shows
(`reader.allTrips`) only the set and the last one matter, the next cursor.  The
fields `overtaken`, `list`, `stayed`, `reordered`, `joined`, `lost` and `inVain` are
history: which races have happened, and what was in every list so far.

### CuaKhauSoMapper and CuaKhauSo

A declaration's detail gives for each mark an authority may set the time it was
set at; everything else in it is copied.  The mapper's operators give the
declaration's status, the event candidates, the six procedure steps.  Candidates
are a set of places in the source's list, taken in the order `ComesFirst` gives:
by their times, and where they stand in the list if those are equal.

In `CuaKhauSo` the source changes by itself (`Declare`, `Mark`, `Delete`, `Age`), and
users make trips (`createTrip`), linked to a mirrored declaration or not.  A flow goes
`idle -> select -> batch -> base -> events` per declaration and, for a run,
`-> remove -> cancelTrips`.  `Fetch` keeps the detail; a user's call
(`syncDeclaration`) may ask for a trip of its own choice.  The base transaction links
a trip to the declaration as `resolveLinkedTrip` does: the trip asked for, else one
that is linked already, else the one that has the declaration's number as its code,
which is made if there is none.  It takes the trip whatever its status is and whatever
it was linked to, so a completed trip can come under a declaration that is under way,
and one declaration can have several trips (`link` is many to one; `linkedTo` is
history, all a trip was ever linked to).  A trip is named by its code: one whose code
is a declaration's number goes by that declaration, `OtherTrips` have codes of their
own.  A flow keeps the trip it has linked (`linked`) and its status then (`base`); the
events and the final `StatusFromDeclaration` use these and the detail, however old
they are by then and whatever the trip was relinked to meanwhile.  The key of an event
names its declaration, so a relinked trip's events may collide with those of the trip
before it: `createEvent` then throws a conflict (`KeyTaken`), which ends a declaration
of phase 3 or a user's call, and is taken for a removal by the reconciliation, as every
error but a BadRequest is (`Throws`).  The two places that write a trip's status
without the transition table (`cua-khau-so.service.ts:1154` to `:1165`, `:1272` to
`:1286`) are `FinishDetail` and `CancelTrips`.

### CuaKhauSoRuns

A flow is one call of `runAccountSync`.  Each process has a poller with its
circuit breaker and one worker; users' calls and fallback timers come on top.
`acquireSyncLock` is the conditional update of the source, re-entrant for the
process that holds the lock.  Leases, back-offs, throttles and the circuit's
rest end when they end, without numbers.  `Enqueue` adds a job under the one id
the organisation has, which BullMQ ignores while it remembers that id; `Crash`
empties a process and leaves lock and rows behind.  A process draws a new worker id
when it starts (`cua-khau-so.service.ts:140`), so a lock its predecessor left is
`Former`'s: no one re-enters or releases it, and it is free when its lease ends.

### CuaKhauSoSessions

A session is the credentials it was made with.  `connect` logs in, saves the session
and then upserts the account, so the session stays when the upsert fails;
`fetchDeclarationDetail` reads the account, takes a session or signs in, refreshes a
token once, and stores what it used.

### Notifications

A row per channel.  A call of `process` (the event or its replay) computes the
candidates its rules allow, inserts a row, publishes it or adds its job, and
writes the outcome.  A sender takes a job, loads the row, sends, records; its
job is retried, fails for good, or stalls and is delivered again.
`recoverPendingRows` and the recipient's `markRead`, `hide`, `markAllRead` write
rows at any time.

### OperationsCache

A value is the version of the database it was read at, so staleness is a
comparison.  `getOrSet` goes through Redis, the local copy, the factory and the
two stores; an invalidation deletes the local copy, scans, and deletes in Redis.
`WriteUncovered` is a write nobody invalidates for.

### Memberships

A request is authenticated (`actor`, `acting`), reads the member, counts other
owners, and then writes by id.  An acceptance reads the invitation, decides
whether the membership is kept, and writes both in one transaction that closes
the invitation only if it is still pending.

### Fleet

A call checks what it refers to and then writes by id; the check and the write
are two actions, also for `createTrip`, whose check is inside its transaction
but locks nothing.  Deletion sets a flag, so a row keeps its unique values: a
deleted driver's user and a deleted vehicle's plate stay taken.
`RecordUpload` and `AttachUpload` are the two writes of the drivers' portal.

### DeclarationsPage and Forms

A page's state is what its `useState` hooks hold; a handler is cut at its
awaits, so answers come in any order and handlers go on with what their closures
captured.  In `DeclarationsPage` the load of the effect is dropped when the
filters change (`isMounted`), so there is at most one that counts; details and
reloads are not, and are the calls of `clicked`.  An action that changes state an
effect depends on includes the effect: `ChangeFilters` resets page and selection,
`Shows` goes back to the last page there is.

`Forms` follows one thing a user wants to record.  `Record` is the API's commit,
`Succeeds` the answer and the reload after it, `SavedInVain` what happens when
either is missing.  A vehicle's plate is unique, an event's key is new with each
submission, drivers and invitations have nothing that tells a repetition.

## 3. Runs

| Run | Bounds | Shows |
| --- | --- | --- |
| `pipeline_safety` | 1 account, 1 ticker, 1 manual request, 2 workers, 3 runs, 1 retry, 1 redelivery per job, 1 fault, 1 edit | `SingleFlight`, `AutoRunRespectsSettings`, `NoOverlap`, `StrandedOnlyByEarlyDelivery`, `FailureAnnounced`, `ResurrectionOnlyByRedelivery`, the inductive invariant with the types in it, and the refinement of `RunLedger` |
| `pipeline_live` | 1 ticker, 1 worker, 2 cron occurrences, watermarks 1 and 0, 1 fault | `DueFires`, `RunEndsOrStrands` |
| `attempt` | 2 keys (one of a correction), feeds of up to 3 records, batches of 2, 1 retry, 1 crash, 1 fault, any rivals | `CountersBalance`, `NothingLost`, `AnnouncedAtMostOnce` |
| `trip_events` | 2 trips, 3 requests, 1 key or none, 4 event types, 1 pipeline event or correction, 1 fault; pages: 2 declarations, 2 choices of filters, 2 pages, 2 calls under way, 3 rows | `AnswersAreTruthful`, `StatusFollowsTimeline`, `IllegalOnlyByOverlap`, `DomainEventOnce`; `ShowsWhatWasAskedFor`, `RecordedOnceUnlessMisled` |
| `cks` | one run that is repeated and one user's call; either 1 declaration with 3 marks (arrival, border guard's check, finish) and 1 incident (a failure, a death, a user's event), or 2 declarations with their trips, of which the first may end, and a trip asked for | `RecordedIsOnSource`, `CompletedIsFounded`, `CancelledIsFinal`, `OnlyAStaleDetailReopens`, `FinishedTripsEnd` |
| `services` | see below | the other services' properties |

`services` (`MCServices`) checks seven services that share no variable, one per
behaviour, as `focus` says from the start:

| Service | Bounds | Shows |
| --- | --- | --- |
| memberships | 2 members, 2 requests, 2 acceptances, 1 invitation, 3 bodies | `OwnerLostOnlyByRace`, `UsedOnce` |
| notifications | 1 in-app and 1 external channel, 2 calls of `process`, 2 senders, 2 publications, 2 attempts, 1 loss; mandatory rule or not | `SentTwiceOnlyIfTorn`, `OutcomesAreAccountedFor`, `QueuedIsSettled` |
| cache | 2 processes with a load each, 2 writes, 1 error | `StaleOnlyByRace` |
| Cua Khau So runs | 1 poller and 1 user in one process, 1 worker in another, 1 counted failure, 1 fault | `ForeignRunsOverlapOnlyExposed`, `SyncsGoOn` |
| sessions | a user in each of 2 processes, 2 credentials, 2 calls at a time | `ConnectedReadsItsAccount` |
| trip operations | 3 trips, pages of 2, ticks of 120 minutes up to 240, 2 choices of events, 4 filters (all, attention, 2 by status) | `OfferedIsAccepted`, `ListGoesOn` |
| fleet | 2 drivers, 1 vehicle, 1 trip, 1 person, 1 file, 2 calls, 1 loss, 2 rosters of duties | `FleetHoldsTogether` |

What the properties allow is as telling as what they forbid.

* `OwnerLostOnlyByRace`: two owners who demote each other at once leave an
  organisation without an owner.
* `OutcomesAreAccountedFor`: an in-app row whose publisher dies stays
  PENDING_IN_APP for ever; only external rows are recovered.
* `StaleOnlyByRace`: a load that asked the database before a write stores the
  old value after the invalidation, and the memory of other processes is not
  invalidated at all.
* `ForeignRunsOverlapOnlyExposed`: a second run of the process that holds the
  lock gets it too and releases it under the first one.
* `SyncsGoOn`: synchronising goes on because the poller's timer does, after it has
  waited out the lease of a process that died.  A request that BullMQ ignores, or that
  a restart loses, is in the model, but nothing promises that it is served.
* `ConnectedReadsItsAccount`: a read that overlaps a `connect` brings the former
  credentials' session back.
* `OfferedIsAccepted`: two kinds of events are offered and then refused:
  WAITING_YARD_ENTRY at the border gate, YARD_ENTRY_CONFIRMED for a late trip
  whose status does not allow it.
* `ListGoesOn`: a list that is read to its end misses a trip only if two trips
  changed places between two pages, a trip that was shown left the list and came
  back, a page was overtaken by a reload, or the last trip shown had left a list the
  database cuts, which then skips one row too many: under a filter by status nothing
  else need happen for a trip never to be shown.  A full page brings nothing new only
  after one of these, or when the last trip shown had left the exceptions: the next
  page then starts from the beginning again, and a trip that is new at the top
  becomes the next cursor; or when a trip has joined a list the database cuts, whose
  pages are shown in another order.  (Some of these first showed with pages of one
  trip and more events; the property says so since.)
* `CompletedIsFounded`: a trip completed through one declaration and relinked to
  another that is under way may stay COMPLETED, so the property speaks of the
  declarations a trip was ever linked to.
* `FinishedTripsEnd` speaks of a declaration with one trip, whose events are its
  own: of two trips of one declaration a run follows whichever the database finds,
  and an event's key that belongs to the other trip ends each attempt with a conflict.
* `OnlyAStaleDetailReopens`: a detail fetched before the declaration was finished
  takes a completed trip back to IN_PROGRESS, until the next run.
* `FleetHoldsTogether`: a driver deleted between check and write becomes the
  driver of a vehicle; an upload cut off between its two writes leaves an event
  without a file.
* `ShowsWhatWasAskedFor`: a detail that arrives late, or one that cannot be
  loaded, leaves another declaration in the panel than the highlighted one, and
  the button synchronises that; a reload that was overtaken by a change of the
  filters, or a load that failed, leaves a list that is not the one asked for.
* `RecordedOnceUnlessMisled`: a submission that was saved but reported as failed
  is recorded again, and so is one whose button a deletion's end has enabled.

Six further runs each refute a sentence of a comment, a test or an audit entry
(`PROJECT.json`, "findings"): `single_fire`, `resolved_means_written`,
`queue_names`, `attempt_balanced`, `trip_terminal`, `cks_removed` (the
reconciliation takes a timeout for a removal and cancels the trip).  Their
instances are as small as the counterexample needs, and none but
`attempt_balanced` and `cks_removed` uses a fault.

Why the bounds are enough.  The guards of `SyncPipeline` speak of one account,
so accounts do not interact except through backpressure.  Two flows suffice for
a race on its row; three runs are one that ended, one in progress and one that
should not be; two workers are needed for an overlap, one redelivery for a
second execution of an attempt.  `MaxSlot` is 0 in the safety run because the
only thing a second occurrence adds, a second tick that is due, the manual
request and the retry already provide; the live run has two.  In `attempt` a
feed of three with batches of two has a full batch, a partial one, and a key
repeated within and across batches.  In `trip_events` three requests are an
original, its repetition and a rival; every kind of event type is there (a step,
a note, a terminal one, the refused one), and each of the tables' entries is
read from the source's table.  The type of the pipeline's event, which nothing looks
at, and the key of a call that is refused for its type are one value each
(`OneForAll` of `MCPages`); of three calls two at most are without a key, and nothing
fails in a behaviour with a correction, whose announcement cannot be lost.  In `cks`
two flows are what it takes for one to act on a detail the other has made old.
Declarations meet only where a trip is
linked to another one, and there two declarations and two trips are what it takes, so
`MCCuaKhauSo` has two kinds of behaviour: `One` declaration, with everything the
authorities, a user and a fault can do to it, or `Two`, with relinking in every state
of the two trips, but where the second declaration gets no mark, nothing fails and
users end no trip.  These bounds are on what comes from outside; a flow under way is
never held up, so that what `FinishedTripsEnd` says of it is the code's doing.
The three marks are the two an entry at the gate needs and the one that ends the
procedure; those in between add events in the same way.  In `services` every race is between two calls, or a call and
an event; a third would repeat it.  The times of its trips cross the thresholds
of 45, 120 and 180 minutes and a planned start and arrival; that of 240 minutes
is compared in the same way.

Of declarations, filters and pages two are what it takes for an answer to be of
the wrong one; three rows are one more than a repetition.

Symmetry: runs, tickers and workers in `pipeline_safety`, requests, trips and
keys in `trip_events`, where a declaration is named like the trip it becomes; no
property of those runs is a liveness property or names one of them.
`pipeline_live`, `cks` and `services` have liveness properties and use no
symmetry; in `pipeline_live` the action constraint `LeastFreshRun` draws the
least unused run identifier, which only names runs differently.  Its limit of
infrastructure tries is 1, so that giving up happens with one fault; in
`pipeline_safety` it is 2, so that trying again does.

Deadlock is checked in `cks` only: elsewhere requests are finite, counters are
bounded, and a finished trip or run is a legitimate end.

Fairness (`SyncPipeline!Fairness`): the cron fires again and again
(`TickerStep`), code that was entered goes on (`SchedulerStep`, `WorkerStep`),
BullMQ delivers jobs and runs its stalled check (`WorkerStep`, `RecoverJob`).
No fairness is assumed of the clock's bound, users, edits or faults; a provider
call that hangs for ever is outside the model (see the hazards).

`CuaKhauSo!Fairness`: runs begin again and go on.  That they begin again is what
`SyncsGoOn` shows of `CuaKhauSoRuns`; users' flows may stop for ever.
`CuaKhauSoRuns!Fairness`: the poller's `setInterval` fires, entered code goes on,
leases, back-offs and the circuit's rest end.  Nobody has to call or enqueue.
`Notifications!Fairness`: BullMQ hands out jobs, a sender goes on with its job,
the handler of a failed job runs.  Publishers may die where they are.  The other
modules assume no fairness.

## 4. Proofs

Every invariant and every action property of the passing runs is a theorem, for
all values of the constants.  What the theorems suppose of the constants is named
in the modules (`ConstantsAssumption`, `AttemptAssumption`, `TripEventsAssumption`,
`PagesAssumption`, `CuaKhauSoAssumption`, `MapperAssumption`,
`MembershipsAssumption`, and `ServicesAssumption`, which collects those of its
parts) and TLC evaluates it for every instance: bounds are numbers, `None` is
nothing that exists, a batch or a page is not empty, the sets of trips and
requests that are counted are finite.  Two theorems have a hypothesis of their
own, named below.  No other theorem supposes anything.

Each invariant below was first checked by TLC, in instances like those of section 3
(up to 6,840,430 states for that of the jobs, 2,317,778 for the
trips' events, 1,755,221 for the attempts, 1,087,915 for the services, 794,706 for the
Cua Khau So flows, 660,627 for the pages), then proved.

### SyncPipelineProofs

* `Invariance`: `SafeSpec => []IndInv`; `TypeCorrect`, `SingleFlightHolds`,
  `SettingsRespected` from it;
* `Refinement`: `SafeSpec => LedgerSpec`;
* `JobInvariance`: `SafeSpec => []JobInv`; `NoOverlapHolds`,
  `TerminalUnlessRedelivered`, `FailuresAnnounced`, `StrandedOnlyEarly` from it.

`SingleFlight` is not inductive: from a state with two flows inside their
transactions for one account both would commit.  `IndInv` adds what excludes
that.  `FlowInv`: a flow in its transaction holds the lock of its account's row,
so there is one of them; a flow that is creating a run has an identifier nobody
else uses, and its account has no run in progress.  It looked while holding the
lock, only lock holders commit runs, and a worker never makes a run live again:
`RunInv` says that a terminal run is in `ended`, for good, and `WorkerInv` that
a worker writes to committed runs only and that no job exceeds the retry limit.
The refinement uses the same invariant: `CommitRun` opens a run, the first
terminal status closes it, everything else stutters, including the redelivery
that takes a closed run's status back to RUNNING.  `IndInv` is also an invariant
of `pipeline_safety`, so a change of the model that breaks it shows in seconds.

The other four are about jobs and need more.  While no job of a run was
redelivered, `LeaseInv` says that a worker who is not idle has the lease of its
job and no other worker has that job, and `AttemptInv` that an attempt is added
only when the worker of the one before is through with it; together a busy worker
is alone with its run, which is `NoOverlap`.  `EndedInv` says that nobody works, or
will, on a run with a terminal status, so no worker takes it out of it
(`ResurrectionOnlyByRedelivery`).  `AlertInv`: the job of a FAILED run nobody was
told of stays active, with a worker about to announce it or with none, so BullMQ
will redeliver it.  `CalmInv`: as long as there was no fault, a run that is committed
or about to be and has not ended has a waiting job or a worker, unless its job was
delivered before the commit.  `JobOrder` is what all of them take for granted.

`FailuresAnnounced` supposes `MaxStalls > 0`: BullMQ redelivers a stalled job once
by default (`maxStalledCount`), and the code does not change that.  Otherwise the
worker that died with a FAILED run's job would have nobody to announce it.
`StrandedOnlyEarly` supposes `RedisConfigured`: without Redis no job is added and
every run is stranded, which is in section 5.

### SyncAttemptProofs

* `Invariance`, `TypeCorrect`, `Balances` (`CountersBalance`), `LosesNothing`
  (`NothingLost`), `AnnouncesOnce` (`AnnouncedAtMostOnce`).

`FetchedInv` is the balance while the attempt runs: what was fetched is what the
counters have, what is pending, and what is in the open batch, and no more than
that when a batch was rolled back, after which the attempt is drained.  `ReadInv`
says for every record read so far where its key is (persisted, pending, in the
batch), and that the counter of the rejected is zero exactly if there was none.
`EventsInv` says that the events a commit creates are new, and not yet announced.
A lemma counts the keys of a batch, which a commit divides into those it creates
and those it skips.

### TripEventsProofs

* about `TripEvents`: `Invariance`, `TypeCorrect`, `TellsTheTruth`
  (`AnswersAreTruthful`), `FollowsTimeline` (`StatusFollowsTimeline`), `EmitsOnce`
  (`DomainEventOnce`), `OverlapOnly` (`IllegalOnlyByOverlap`, an action property);
* about `Pages`: `AllTypesCorrect` (`TypesOK`), `ShownAsAskedFor`
  (`ShowsWhatWasAskedFor`), `RecordedOnce` (`RecordedOnceUnlessMisled`).

`CallInv` and `RowInv` tie a request to its row in both directions: a request that
has committed points at a row it wrote, a row belongs to a request that has
committed and is its only one.  `KeyInv` is the unique index.  `StatusInv` finds
for each trip the last of its rows that projects, `EmitInv` says where a
request is when its event was emitted and where a batch of the pipeline is with
each row it committed, `CountInv` that rows are at most as many as
trips, requests and automated events, which bounds the timeline.

`FormInv`: unless a deletion has freed the button, only one submission is under
way, and before it has recorded something nobody has.  `PageInv`: a call whose
answer would be of something else than what is asked for now is marked as
overtaken.  Both hold what a handler's closure captured against the state of the
page when the answer comes.

### CuaKhauSoProofs

* `Invariance`, `TypeCorrect`, `RecordsTheSource` (`RecordedIsOnSource`),
  `CompletesFounded` (`CompletedIsFounded`), and the action properties
  `CancelledStays` (`CancelledIsFinal`) and `ReopensStale`
  (`OnlyAStaleDetailReopens`).

A flow acts on a detail that may be old, so the properties follow from what even
an old detail is good for: `FlowInv` says that it shows no mark the source does
not have, since marks are never taken back, and that the candidates a flow still
has to record are candidates of that detail.  It also says that the declaration in
hand is among those the trip it has linked was ever linked to, which only grows
(`LinksStay`).  What a step may do to a trip's status is said once (`TripSteps`), and
so is what it may record (`RecordedSteps`).  The lemmas about the mapper say which
marks each candidate and each status needs.

### MembershipsProofs

* `Invariance`, `TypeCorrect`, `OwnerKept` (`OwnerLostOnlyByRace`),
  `InvitationUsedOnce` (`UsedOnce`).

A request acts on what it has read, so neither is inductive.  `FoundInv` says of
a call that no other one has overtaken since it began (it is not in `outrun`)
that what it found is still so: its actor is active in the role it was
authenticated with, may make this change, and, when it takes the role from an
owner, another owner is active.  Such a call therefore cannot remove the last
owner, and one that is overtaken sets `raced` when it writes.  `UsedInv` says
that an invitation that is still PENDING was not used, `WorkInv` that calls under
way have the actors, members and invitations their steps need.

### CuaKhauSoSessionsProofs

* `TypeCorrect`, and `LastConnectIsRead`: `Spec => []ConnectedReadsItsAccount`.

The property is about the store, but a call carries the session it will put
there later, so `SettledInv` is about both: while the last connect of a user is
settled, the store and all of that user's calls have the credentials that are
connected.  It begins to hold when a connect that was alone ends, which is what
`AloneInv` is for: no other call of that user is beside it, and its session is
the store's.  `CallInv` ties what is under way to its slot.

### TripOperationsProofs

* `ListsInvariance`, `GoesOn` (`ListGoesOn`), `OffersAreAccepted`
  (`OfferedIsAccepted`), from `OperationsAssumption`.

This one is mostly about the operators.  `LexOrders` says that tuples of one
length are ordered by `LexBefore`; since rows are created one after the other,
every `Listing` is a linear order (`ListingIsLinear`), positions follow it and are
dense (`PositionsAreDense`, an injection of what lies before a trip into the
numbers below its position), and a page that is not full ends the list while a
full one holds as many trips as asked for (`PagesAreCut`).  `ShownInv` is the
invariant: of what has been in the list all along, everything up to the last trip
shown is shown (`StayedInv`), and what is shown lies before that trip, or, where
the database cuts pages that are sorted afterwards, before the next page ends
(`AheadInv`).  Both hold as long as the list is `Undisturbed`: not reordered, not
overtaken, and, where the database cuts it, its cursor still there.  That a list has
not been reordered keeps them from one page to the
next.  Between pages time passes and events arrive, which does not touch what the
browser holds.  TLC checked `ShownInv` with pages of one trip in 710,018 states
(all trips and those that need attention) and 194,115 states (two filters by status
and the inspections).

`OffersAreAccepted` goes through the statuses: what `NextAction` suggests in each,
and that the transition table has it.

### ServicesProofs

Whoever is not in focus stutters (`EachAlone`), so a behaviour of `Services` is one
of each of its modules, and a theorem about one holds in the composition.

* `OverlapExposed` (`ForeignRunsOverlapOnlyExposed`).  `LockInv`: a flow in a run
  that was not exposed has the lock in its process' name, and only one process can.
* `FleetSound` (`FleetHoldsTogether`).  `CallsInv`: a driver a call has checked is
  still there, or the call was overtaken by the deletion.
* `OnceUnlessTorn` (`SentTwiceOnlyIfTorn`) and `Accounted`
  (`OutcomesAreAccountedFor`).  `HandsInv` says what a publisher has in hand,
  `JobsInv` that a job has an attempt left until it ends, `SendersInv` that a
  worker without its job's lock has torn the row, `AloneInv` that two workers share
  a job only then, `TakenInv` that a message the provider has taken is not waiting
  to be sent.
* `StaleCopiesExplained` and `StaleExplained` (`StaleOnlyByRace`): with the types
  the property of the cache is inductive.  A step that stores a value older than
  the database excuses the copy, a write excuses what its invalidation will not
  reach, and an invalidation that gives up excuses what it leaves.
* `LastConnectIsRead`, `ListsAreReadInFull`, `OffersAreAccepted`: the theorems of
  `CuaKhauSoSessionsProofs` and `TripOperationsProofs`, taken over with INSTANCE;
  the memberships' come with EXTENDS.
* `AllTypesCorrect` (`TypesOK`) for all seven.

### What stays with TLC

* Liveness: `DueFires` and `RunEndsOrStrands` (`pipeline_live`), `FinishedTripsEnd`
  (`cks`), `QueuedIsSettled` and `SyncsGoOn` (`services`).  They need fairness and
  with it ENABLED, which the provers have no rules for.
* The six refutations of section 3: a counterexample is a behaviour, and TLC shows
  it.

## 5. Not modelled

* The web application but for the trip list, the page of the declarations and
  the forms: screens over single calls, labels, view models that pick and format
  what the API returns.  Of the pages that are modelled: messages, the roles
  that hide buttons, an organisation that cannot be had (a failed load), forms
  that are closed and opened again, edits of rows (repeating one changes
  nothing).  Its offline queue is
  never filled.  The bell of the application shell
  (`components/notification-center.tsx`) filters the answer of
  `GET /notifications` as an array, but the answer is `{ data, nextCursor }`
  (`notifications.service.ts:151`), so it shows nothing and has no behaviour to
  model; the other notification centre and `useTripRealtime` are mounted
  nowhere.
* Reads and counts: detail views, searches, the dashboard (whose number of trips
  that need attention counts a list already cut to six,
  `dashboard.service.ts:251`, `:262`), listings of runs, logs and audit entries.
* Changes of single rows that nothing else reacts to: notification rules,
  preferences, names and plates, profiles; retention and deletion of old rows.
* Runs that the older Cua Khau So flow creates (`cua-khau-so.service.ts:758`)
  have no conflict guard: `SingleFlight` is about runs of the scheduler.
* Notifications that are not the orchestrator's.  Those of a Cua Khau So run
  (`createCuaKhauSoDocumentStaffNotifications`) and those `createEvent` inserts in its
  transaction (`createTripEventNotifications`) are rows with status PENDING and no
  event id, so the unique index does not bind them.  Nobody publishes the in-app ones;
  they are read in the inbox.  The external ones of `createEvent` are sent when
  `recoverPendingRows` finds them at the next start, as it does with the rows that
  `Notifications` has.
* Trips, declarations and accounts that are deleted: `deletedAt` takes them out of
  every query that is modelled.
* The limit of 50 declarations a reconciliation takes
  (`cua-khau-so.service.ts:1902`): those it leaves come with a later run.
* Time spans: back-off, jitter, rate limits, lease lengths.  A timeout may happen
  at any record, a lease may be lost at any time.  `TripOperations` does count
  minutes.
* `sync-scheduler.service.ts:418` mentions a "polling fallback" for runs created
  without Redis.  There is none in the repository; without Redis a run stays
  QUEUED.
* The rules of BullMQ about characters in queue names and job ids: ids such as
  `sync-run:<id>` and `notification:<id>` are taken to be accepted.
* The providers: GPS and yard adapters are stubs or demonstration data, the Cua
  Khau So site is whatever its marks say.
* The driver portal's access goes by rows alone: a participant row made with a
  trip stays when the driver is replaced.  `Fleet` has this, no property
  promises otherwise.

The mapped lines are a small share of the repository because most of it is what
this list names: about 15 000 lines of user interface, besides data transfer
objects, queries, tables of labels, migrations' tools and demonstration data,
which have no states for a model checker to explore.

## 6. What comes next

Proofs: what the abstract side of other modules would be, as `RunLedger` is of the
pipeline (a message is pending, sent, failed or read; an invitation is open or
closed), and their refinement; the mapper's six procedure steps as lemmas.

Models: the runs the older Cua Khau So flow records, the retention of
notifications.
