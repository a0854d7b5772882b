---------------------------- MODULE SyncPipeline ----------------------------
(***************************************************************************)
(* The AUTO SYNC pipeline: SyncSchedulerService creates IntegrationSyncRun *)
(* rows and BullMQ jobs, SyncWorkerService consumes the jobs and drives    *)
(* the rows to a terminal status.  Several API processes run both.         *)
(*                                                                         *)
(* A "flow" is one activation of the scheduling code: a ticker (the @Cron  *)
(* handler of a process, which never overlaps with itself) or a manual     *)
(* request (triggerManual, one shot).  Each await of the code at which     *)
(* another actor's step can change the outcome is a step boundary here.    *)
(*                                                                         *)
(* Time is the index of the latest cron occurrence.  What an attempt does  *)
(* with the provider's records is module SyncAttempt; here an attempt only *)
(* has an outcome.                                                         *)
(***************************************************************************)
EXTENDS Integers, FiniteSets

CONSTANTS
    Accounts,         \* integration accounts
    Provider,         \* Provider[a]: the provider of account a
    Runs,             \* identifiers of runs (UUIDs)
    Tickers,          \* processes whose cron fires the scheduler
    Requests,         \* calls of triggerManual
    Workers,          \* BullMQ worker slots
    None,             \* no account, run, flow or worker
    RedisConfigured,  \* REDIS_URL is set
    MaxRetries,       \* SYNC_RETRY_POLICY.maxRetries
    InfraRetryLimit,  \* attempts of scheduleRunWithInfraRetry
    HighWatermark,    \* SYNC_QUEUE_HIGH_WATERMARK
    LowWatermark,     \* SYNC_QUEUE_LOW_WATERMARK
    MaxStalls,        \* redeliveries of one BullMQ job
    MaxSlot,          \* bound: last cron occurrence
    MaxFaults,        \* bound: crashes, failed calls and lost leases
    MaxEdits          \* bound: edits of account settings

Flows == Tickers \union Requests
\* A job is a run and an attempt number; one number more than the policy allows,
\* so that TypeOK can say that no worker ever sees it.
Jobs == Runs \X (0..(MaxRetries + 1))
Never == -1

VARIABLES
    now,            \* index of the latest cron occurrence
    mode,           \* settings of each account
    lastFired,      \* IntegrationAccount.lastFiredAt, as an occurrence index
    rowLock,        \* holder of the FOR UPDATE lock on the account's row
    bp,             \* backpressureActive of each ticker
    pc,             \* where each scheduling flow is
    todo,           \* candidates the ticker has not visited yet
    cur,            \* account the flow is at
    newRun,         \* run the flow's transaction has inserted
    slot,           \* occurrence index when the flow began: `now` of the code
    tries,          \* failed tries of scheduleRunWithInfraRetry
    status,         \* IntegrationSyncRun.status, "ABSENT" before the commit
    account,        \* IntegrationSyncRun.integrationAccountId
    job,            \* state of each BullMQ job
    queue,          \* name of the queue the job was added to
    holder,         \* worker whose lease on the job is current
    stalls,         \* times the job was redelivered
    workerPc,       \* where each worker slot is
    workerRun,      \* run it executes
    workerAttempt,  \* attemptIndex of the job it holds
    faults,         \* faults so far
    edits,          \* account edits so far
    ended,          \* history: runs that reached a terminal status
    missed,         \* history: runs whose job was consumed before the commit
    fires,          \* history: fires[a][n], AUTO runs for occurrence n
    alerted         \* history: runs whose SYNC_RUN_FAILED_EVENT was emitted

budget == <<faults, edits>>
accountRow == <<mode, lastFired>>
scheduling == <<rowLock, bp, pc, todo, cur, newRun, slot, tries>>
runRow == <<status, account>>
queueing == <<job, queue, holder, stalls>>
working == <<workerPc, workerRun, workerAttempt>>
history == <<ended, missed, fires, alerted>>
vars == <<now, accountRow, scheduling, runRow, queueing, working, budget, history>>

-----------------------------------------------------------------------------
(* Queue names *)

\* sync-scheduler.service.ts, queueNameFor
SchedulerQueue ==
    [CUA_KHAU_SO |-> "sync-run:cua_khau_so", XUAN_CUONG |-> "sync-run:xuan_cuong",
     GPS_PROVIDER |-> "sync-run:gps_provider", MOCK |-> "sync-run:mock"]

\* sync-queue-names.ts, syncQueueNameForProvider
WorkerQueue ==
    [CUA_KHAU_SO |-> "sync-run:cks", XUAN_CUONG |-> "sync-run:yard",
     GPS_PROVIDER |-> "sync-run:gps", MOCK |-> "sync-run:mock"]

Providers == {"CUA_KHAU_SO", "XUAN_CUONG", "GPS_PROVIDER", "MOCK"}

\* Mutant: the list falls behind the providers that have an adapter.
SyncWorkerProvidersWithoutMock == {"CUA_KHAU_SO", "XUAN_CUONG", "GPS_PROVIDER"}

SyncWorkerProviders == {"CUA_KHAU_SO", "XUAN_CUONG", "GPS_PROVIDER", "MOCK"}

MeasuredQueues == {SchedulerQueue[p] : p \in Providers}
ConsumedQueues == {WorkerQueue[p] : p \in SyncWorkerProviders}
QueueNames == MeasuredQueues \union {WorkerQueue[p] : p \in Providers}

ASSUME ConstantsAssumption ==
    /\ Provider \in [Accounts -> Providers]
    /\ MaxRetries \in Nat
    /\ InfraRetryLimit \in Nat \ {0}
    /\ HighWatermark \in Nat \ {0}
    /\ LowWatermark \in Nat
    /\ MaxStalls \in Nat
    /\ MaxSlot \in Nat
    /\ MaxFaults \in Nat
    /\ MaxEdits \in Nat
    /\ None \notin Accounts \union Runs \union Flows \union Workers
    /\ Tickers \intersect Requests = {}

-----------------------------------------------------------------------------
(* Types *)

ActiveStatuses == {"QUEUED", "RUNNING", "RETRYING"}
TerminalStatuses == {"SUCCEEDED", "PARTIAL", "FAILED", "TIMEOUT"}
Statuses == ActiveStatuses \union TerminalStatuses \union {"ABSENT"}

\* status, deletedAt and manualOnly of an account, as far as the scheduler tells
\* them apart.  (Inactive and manualOnly at once is left out: both entry points
\* refuse such an account, as they refuse INACTIVE and DELETED.)
AccountModes == {"AUTO", "MANUAL_ONLY", "INACTIVE", "DELETED"}

FlowPcs == {"idle", "scan", "begin", "locked", "inserted", "enqueued", "done"}
WorkerPcs == {"idle", "taken", "running", "requeue", "alert", "ack"}
JobStates == {"absent", "waiting", "active", "finished"}

TypeOK ==
    /\ now \in 0..MaxSlot
    /\ mode \in [Accounts -> AccountModes]
    /\ lastFired \in [Accounts -> Never..MaxSlot]
    /\ rowLock \in [Accounts -> Flows \union {None}]
    /\ bp \in [Tickers -> BOOLEAN]
    /\ pc \in [Flows -> FlowPcs]
    /\ todo \in [Flows -> SUBSET Accounts]
    /\ cur \in [Flows -> Accounts \union {None}]
    /\ newRun \in [Flows -> Runs \union {None}]
    /\ slot \in [Flows -> 0..MaxSlot]
    /\ tries \in [Flows -> 0..(InfraRetryLimit - 1)]
    /\ status \in [Runs -> Statuses]
    /\ account \in [Runs -> Accounts \union {None}]
    /\ job \in [Jobs -> JobStates]
    /\ queue \in [Jobs -> QueueNames \union {None}]
    /\ holder \in [Jobs -> Workers \union {None}]
    /\ stalls \in [Jobs -> 0..MaxStalls]
    /\ workerPc \in [Workers -> WorkerPcs]
    /\ workerRun \in [Workers -> Runs \union {None}]
    /\ workerAttempt \in [Workers -> 0..MaxRetries]
    /\ faults \in 0..MaxFaults
    /\ edits \in 0..MaxEdits
    /\ ended \in SUBSET Runs
    /\ missed \in SUBSET Runs
    /\ fires \in [Accounts -> [0..MaxSlot -> Nat]]
    /\ alerted \in SUBSET Runs

Init ==
    /\ now = 0
    /\ mode \in [Accounts -> {"AUTO", "MANUAL_ONLY"}]
    /\ lastFired = [a \in Accounts |-> Never]
    /\ rowLock = [a \in Accounts |-> None]
    /\ bp = [t \in Tickers |-> FALSE]
    /\ pc = [f \in Flows |-> "idle"]
    /\ todo = [f \in Flows |-> {}]
    /\ cur = [f \in Flows |-> None]
    /\ newRun = [f \in Flows |-> None]
    /\ slot = [f \in Flows |-> 0]
    /\ tries = [f \in Flows |-> 0]
    /\ status = [r \in Runs |-> "ABSENT"]
    /\ account = [r \in Runs |-> None]
    /\ job = [j \in Jobs |-> "absent"]
    /\ queue = [j \in Jobs |-> None]
    /\ holder = [j \in Jobs |-> None]
    /\ stalls = [j \in Jobs |-> 0]
    /\ workerPc = [w \in Workers |-> "idle"]
    /\ workerRun = [w \in Workers |-> None]
    /\ workerAttempt = [w \in Workers |-> 0]
    /\ faults = 0
    /\ edits = 0
    /\ ended = {}
    /\ missed = {}
    /\ fires = [a \in Accounts |-> [n \in 0..MaxSlot |-> 0]]
    /\ alerted = {}

-----------------------------------------------------------------------------
(* SyncSchedulerService *)

Active(r) == status[r] \in ActiveStatuses
HasActiveRun(a) == \E r \in Runs : account[r] = a /\ Active(r)

\* estimateAggregateQueueDepth counts the jobs of the queues it knows by its own
\* names for them.
QueueDepth ==
    Cardinality({j \in Jobs : job[j] \in {"waiting", "active"}
                              /\ queue[j] \in MeasuredQueues})

\* Mutant: below instead of at or below the low watermark, which may be 0.
BackpressureOffByOne(t) ==
    IF bp[t] THEN QueueDepth >= LowWatermark ELSE QueueDepth >= HighWatermark

\* Hysteresis: on at the high watermark, off at the low one.
BackpressureAfter(t) ==
    IF bp[t] THEN QueueDepth > LowWatermark ELSE QueueDepth >= HighWatermark

\* evaluateDue on an account as the tick's findMany returned it
Due(a) == mode[a] = "AUTO" /\ lastFired[a] < now

\* A run id nothing refers to: a rolled-back row leaves none behind.
Fresh(r) ==
    /\ status[r] = "ABSENT"
    /\ \A f \in Flows : newRun[f] # r
    /\ job[<<r, 0>>] = "absent"

FlowGoes(f, p) == pc' = [pc EXCEPT ![f] = p]
Unlock(f) == rowLock' = [a \in Accounts |-> IF rowLock[a] = f THEN None ELSE rowLock[a]]

\* scheduleRunWithInfraRetry is done with the flow's account.
Leave(f) ==
    /\ FlowGoes(f, IF f \in Tickers THEN "scan" ELSE "done")
    /\ cur' = [cur EXCEPT ![f] = None]
    /\ newRun' = [newRun EXCEPT ![f] = None]
    /\ tries' = [tries EXCEPT ![f] = 0]
    /\ Unlock(f)
    /\ UNCHANGED <<todo, slot>>

\* runTick/tick under backpressure: nothing is scanned.
TickHeldBack(t) ==
    /\ pc[t] = "idle"
    /\ BackpressureAfter(t)
    /\ bp' = [bp EXCEPT ![t] = TRUE]
    /\ UNCHANGED <<now, accountRow, rowLock, pc, todo, cur, newRun, slot, tries,
                   runRow, queueing, working, budget, history>>

\* findMany is the snapshot that the candidate loop works from.
ScanAccounts(t) ==
    /\ pc[t] = "idle"
    /\ bp' = [bp EXCEPT ![t] = FALSE]
    /\ FlowGoes(t, "scan")
    /\ slot' = [slot EXCEPT ![t] = now]
    /\ todo' = [todo EXCEPT ![t] = {a \in Accounts : Due(a)}]
    /\ UNCHANGED <<now, accountRow, rowLock, cur, newRun, tries, runRow, queueing,
                   working, edits, history>>

\* runTick/tick up to the candidate loop
Tick(t) ==
    /\ ~ BackpressureAfter(t)
    /\ ScanAccounts(t)
    /\ UNCHANGED faults

\* getJobCounts fails for the queues that matter: their jobs are not counted.
TickMiscounts(t) ==
    /\ BackpressureAfter(t)
    /\ faults < MaxFaults
    /\ faults' = faults + 1
    /\ ScanAccounts(t)

\* findMany fails: the tick is over.
TickFails(t) ==
    /\ pc[t] = "idle"
    /\ ~ BackpressureAfter(t)
    /\ faults < MaxFaults
    /\ faults' = faults + 1
    /\ bp' = [bp EXCEPT ![t] = FALSE]
    /\ UNCHANGED <<now, accountRow, rowLock, pc, todo, cur, newRun, slot, tries,
                   runRow, queueing, working, edits, history>>

\* The loop takes the next candidate of the snapshot.
NextCandidate(t, a) ==
    /\ pc[t] = "scan"
    /\ a \in todo[t]
    /\ FlowGoes(t, "begin")
    /\ cur' = [cur EXCEPT ![t] = a]
    /\ todo' = [todo EXCEPT ![t] = @ \ {a}]
    /\ UNCHANGED <<now, accountRow, rowLock, bp, newRun, slot, tries, runRow,
                   queueing, working, budget, history>>

TickEnd(t) ==
    /\ pc[t] = "scan"
    /\ todo[t] = {}
    /\ FlowGoes(t, "idle")
    /\ UNCHANGED <<now, accountRow, rowLock, bp, todo, cur, newRun, slot, tries,
                   runRow, queueing, working, budget, history>>

\* triggerManual: the account must exist and be ACTIVE.
TriggerManual(q, a) ==
    /\ pc[q] = "idle"
    /\ mode[a] \in {"AUTO", "MANUAL_ONLY"}
    /\ FlowGoes(q, "begin")
    /\ cur' = [cur EXCEPT ![q] = a]
    /\ slot' = [slot EXCEPT ![q] = now]
    /\ UNCHANGED <<now, accountRow, rowLock, bp, todo, newRun, tries, runRow,
                   queueing, working, budget, history>>

\* Mutant: a plain SELECT, which does not mind the lock of another flow.
LockRowUnlocked(f) ==
    /\ pc[f] = "begin"
    /\ mode[cur[f]] # "DELETED"
    /\ FlowGoes(f, "locked")
    /\ rowLock' = [rowLock EXCEPT ![cur[f]] = f]
    /\ UNCHANGED <<now, accountRow, bp, todo, cur, newRun, slot, tries, runRow,
                   queueing, working, budget, history>>

\* scheduleRunOnce: SELECT ... FOR UPDATE SKIP LOCKED returns the row ...
LockRow(f) ==
    /\ pc[f] = "begin"
    /\ mode[cur[f]] # "DELETED"
    /\ rowLock[cur[f]] = None
    /\ FlowGoes(f, "locked")
    /\ rowLock' = [rowLock EXCEPT ![cur[f]] = f]
    /\ UNCHANGED <<now, accountRow, bp, todo, cur, newRun, slot, tries, runRow,
                   queueing, working, budget, history>>

\* ... or none: LOCK_NOT_ACQUIRED.
RowNotAcquired(f) ==
    /\ pc[f] = "begin"
    /\ mode[cur[f]] = "DELETED" \/ rowLock[cur[f]] # None
    /\ Leave(f)
    /\ UNCHANGED <<now, accountRow, bp, runRow, queueing, working, budget, history>>

\* Mutant: the conflict guard is missing.
RefusedIfManualOnly(f) == mode[cur[f]] = "MANUAL_ONLY" /\ f \in Tickers

\* Mutant: manualOnly is not looked at again under the lock.
RefusedOnConflict(f) == HasActiveRun(cur[f])

\* The guards re-checked under the lock refuse: MANUAL_ONLY or CONFLICT.
Refused(f) ==
    \/ mode[cur[f]] = "MANUAL_ONLY" /\ f \in Tickers
    \/ HasActiveRun(cur[f])

SkipRun(f) ==
    /\ pc[f] = "locked"
    /\ Refused(f)
    /\ Leave(f)
    /\ UNCHANGED <<now, accountRow, bp, runRow, queueing, working, budget, history>>

\* integrationSyncRun.create, visible to others only from the commit on
InsertRun(f, r) ==
    /\ pc[f] = "locked"
    /\ ~ Refused(f)
    /\ Fresh(r)
    /\ FlowGoes(f, "inserted")
    /\ newRun' = [newRun EXCEPT ![f] = r]
    /\ UNCHANGED <<now, accountRow, rowLock, bp, todo, cur, slot, tries, runRow,
                   queueing, working, budget, history>>

\* queue.add of the first attempt
AddFirstJob(f) ==
    /\ job' = [job EXCEPT ![<<newRun[f], 0>>] = "waiting"]
    /\ queue' = [queue EXCEPT ![<<newRun[f], 0>>] = SchedulerQueue[Provider[cur[f]]]]

\* enqueueBullJob, still inside the transaction
EnqueueJob(f) ==
    /\ pc[f] = "inserted"
    /\ FlowGoes(f, "enqueued")
    /\ IF RedisConfigured THEN AddFirstJob(f) ELSE UNCHANGED <<job, queue>>
    /\ UNCHANGED <<now, accountRow, rowLock, bp, todo, cur, newRun, slot, tries,
                   runRow, holder, stalls, working, budget, history>>

CommitRun(f) ==
    /\ pc[f] = "enqueued"
    /\ status' = [status EXCEPT ![newRun[f]] = "QUEUED"]
    /\ account' = [account EXCEPT ![newRun[f]] = cur[f]]
    /\ lastFired' = [lastFired EXCEPT ![cur[f]] = slot[f]]
    /\ fires' = IF f \in Tickers
                  THEN [fires EXCEPT ![cur[f]][slot[f]] = @ + 1]
                  ELSE fires
    /\ Leave(f)
    /\ UNCHANGED <<now, mode, bp, queueing, working, budget, ended, missed, alerted>>

\* A database or Redis call of scheduleRunOnce fails and the transaction is
\* rolled back.  A queue.add that failed may still have added the job.
RollsBack(f) ==
    /\ faults < MaxFaults
    /\ faults' = faults + 1
    /\ pc[f] \in {"begin", "locked", "inserted", "enqueued"}
    /\ \/ UNCHANGED <<job, queue>>
       \/ pc[f] = "inserted" /\ RedisConfigured /\ AddFirstJob(f)
    /\ UNCHANGED <<now, accountRow, bp, runRow, holder, stalls, working, edits, history>>

\* scheduleRunWithInfraRetry tries again after a pause ...
RetrySchedule(f) ==
    /\ RollsBack(f)
    /\ tries[f] + 1 < InfraRetryLimit
    /\ FlowGoes(f, "begin")
    /\ newRun' = [newRun EXCEPT ![f] = None]
    /\ tries' = [tries EXCEPT ![f] = @ + 1]
    /\ Unlock(f)
    /\ UNCHANGED <<todo, cur, slot>>

\* ... or gives the account up: INFRA_ERROR.
GiveUpSchedule(f) ==
    /\ RollsBack(f)
    /\ tries[f] + 1 = InfraRetryLimit
    /\ Leave(f)

\* The process dies: PostgreSQL rolls its transaction back; memory is lost.
ProcessCrash(f) ==
    /\ faults < MaxFaults
    /\ faults' = faults + 1
    /\ pc[f] \notin {"idle", "done"}
    /\ FlowGoes(f, IF f \in Tickers THEN "idle" ELSE "done")
    /\ todo' = [todo EXCEPT ![f] = {}]
    /\ cur' = [cur EXCEPT ![f] = None]
    /\ newRun' = [newRun EXCEPT ![f] = None]
    /\ tries' = [tries EXCEPT ![f] = 0]
    /\ Unlock(f)
    /\ bp' = [t \in Tickers |-> IF t = f THEN FALSE ELSE bp[t]]
    /\ UNCHANGED <<now, accountRow, slot, runRow, queueing, working, edits, history>>

-----------------------------------------------------------------------------
(* SyncWorkerService; BullMQ delivers, redelivers and forgets jobs *)

WorkerGoes(w, p) ==
    /\ workerPc' = [workerPc EXCEPT ![w] = p]
    /\ UNCHANGED <<workerRun, workerAttempt>>

\* A worker slot receives a waiting (or no longer delayed) job of one of the
\* queues a worker was started for.
TakeJob(w, j) ==
    /\ workerPc[w] = "idle"
    /\ job[j] = "waiting"
    /\ queue[j] \in ConsumedQueues
    /\ job' = [job EXCEPT ![j] = "active"]
    /\ holder' = [holder EXCEPT ![j] = w]
    /\ workerPc' = [workerPc EXCEPT ![w] = "taken"]
    /\ workerRun' = [workerRun EXCEPT ![w] = j[1]]
    /\ workerAttempt' = [workerAttempt EXCEPT ![w] = j[2]]
    /\ UNCHANGED <<now, accountRow, scheduling, runRow, queue, stalls, budget, history>>

\* loadRun then markRunRunning, whatever the status was
StartAttempt(w) ==
    /\ workerPc[w] = "taken"
    /\ status[workerRun[w]] # "ABSENT"
    /\ status' = [status EXCEPT ![workerRun[w]] = "RUNNING"]
    /\ WorkerGoes(w, "running")
    /\ UNCHANGED <<now, accountRow, scheduling, account, queueing, budget, history>>

\* loadRun finds no row: FAILED is returned and nothing is written.
RunNotFound(w) ==
    /\ workerPc[w] = "taken"
    /\ status[workerRun[w]] = "ABSENT"
    /\ missed' = missed \union {workerRun[w]}
    /\ WorkerGoes(w, "ack")
    /\ UNCHANGED <<now, accountRow, scheduling, runRow, queueing, budget, ended,
                   fires, alerted>>

\* The attempt ends in SUCCEEDED or PARTIAL, or in TIMEOUT once no retry is
\* left (attempts used up or the 30-minute window over).
EndRun(w, s) ==
    /\ workerPc[w] = "running"
    /\ s \in {"SUCCEEDED", "PARTIAL", "TIMEOUT"}
    /\ status' = [status EXCEPT ![workerRun[w]] = s]
    /\ ended' = ended \union {workerRun[w]}
    /\ WorkerGoes(w, "ack")
    /\ UNCHANGED <<now, accountRow, scheduling, account, queueing, budget, missed,
                   fires, alerted>>

\* Mutant: a failed run is queued for a retry as well.
FailRunAndRetry(w) ==
    /\ workerPc[w] = "running"
    /\ status' = [status EXCEPT ![workerRun[w]] = "FAILED"]
    /\ ended' = ended \union {workerRun[w]}
    /\ WorkerGoes(w, IF workerAttempt[w] < MaxRetries THEN "requeue" ELSE "alert")
    /\ UNCHANGED <<now, accountRow, scheduling, account, queueing, budget, missed,
                   fires, alerted>>

\* Mutant: the event is not emitted.
FailRunSilently(w) ==
    /\ workerPc[w] = "running"
    /\ status' = [status EXCEPT ![workerRun[w]] = "FAILED"]
    /\ ended' = ended \union {workerRun[w]}
    /\ WorkerGoes(w, "ack")
    /\ UNCHANGED <<now, accountRow, scheduling, account, queueing, budget, missed,
                   fires, alerted>>

\* handleFailure/markRunFailed: not retryable, or no retry left
FailRun(w) ==
    /\ workerPc[w] = "running"
    /\ status' = [status EXCEPT ![workerRun[w]] = "FAILED"]
    /\ ended' = ended \union {workerRun[w]}
    /\ WorkerGoes(w, "alert")
    /\ UNCHANGED <<now, accountRow, scheduling, account, queueing, budget, missed,
                   fires, alerted>>

\* markRunFailed emits SYNC_RUN_FAILED_EVENT after the row is written.
EmitFailure(w) ==
    /\ workerPc[w] = "alert"
    /\ alerted' = alerted \union {workerRun[w]}
    /\ WorkerGoes(w, "ack")
    /\ UNCHANGED <<now, accountRow, scheduling, runRow, queueing, budget, ended,
                   missed, fires>>

\* The job of the worker's next attempt, and its queue.add; BullMQ ignores an
\* id it already knows.
NextJob(w) == <<workerRun[w], workerAttempt[w] + 1>>
AddNextJob(w) ==
    IF job[NextJob(w)] = "absent"
      THEN /\ job' = [job EXCEPT ![NextJob(w)] = "waiting"]
           /\ queue' = [queue EXCEPT ![NextJob(w)] =
                            WorkerQueue[Provider[account[workerRun[w]]]]]
      ELSE UNCHANGED <<job, queue>>

\* Mutant: shouldRetry allows one attempt too many.
ScheduleRetryOffByOne(w) ==
    /\ workerPc[w] = "running"
    /\ workerAttempt[w] <= MaxRetries
    /\ status' = [status EXCEPT ![workerRun[w]] = "RETRYING"]
    /\ WorkerGoes(w, "requeue")
    /\ UNCHANGED <<now, accountRow, scheduling, account, queueing, budget, history>>

\* Mutant: the job is added before the row says RETRYING.
ScheduleRetryJobFirst(w) ==
    /\ workerPc[w] = "running"
    /\ workerAttempt[w] < MaxRetries
    /\ AddNextJob(w)
    /\ WorkerGoes(w, "requeue")
    /\ UNCHANGED <<now, accountRow, scheduling, runRow, holder, stalls, budget, history>>

\* handleFailure/scheduleRetry: the row first ...
ScheduleRetry(w) ==
    /\ workerPc[w] = "running"
    /\ workerAttempt[w] < MaxRetries
    /\ status' = [status EXCEPT ![workerRun[w]] = "RETRYING"]
    /\ WorkerGoes(w, "requeue")
    /\ UNCHANGED <<now, accountRow, scheduling, account, queueing, budget, history>>

\* Mutant: the retry's jobId lacks the attempt, so BullMQ ignores it.
RequeueSameJobId(w) ==
    /\ workerPc[w] = "requeue"
    /\ WorkerGoes(w, "ack")
    /\ UNCHANGED <<now, accountRow, scheduling, runRow, queueing, budget, history>>

\* ... then the delayed job.
RequeueJob(w) ==
    /\ workerPc[w] = "requeue"
    /\ AddNextJob(w)
    /\ WorkerGoes(w, "ack")
    /\ UNCHANGED <<now, accountRow, scheduling, runRow, holder, stalls, budget, history>>

\* queue.add throws: logged as INTEGRATION_FAILED, nothing else happens.
RequeueFails(w) ==
    /\ workerPc[w] = "requeue"
    /\ faults < MaxFaults
    /\ faults' = faults + 1
    /\ WorkerGoes(w, "ack")
    /\ UNCHANGED <<now, accountRow, scheduling, runRow, queueing, edits, history>>

\* The processor returned: the job completes if the lease is still this one.
AckJob(w) ==
    LET j == <<workerRun[w], workerAttempt[w]>> IN
    /\ workerPc[w] = "ack"
    /\ IF holder[j] = w
         THEN /\ job' = [job EXCEPT ![j] = "finished"]
              /\ holder' = [holder EXCEPT ![j] = None]
         ELSE UNCHANGED <<job, holder>>
    /\ WorkerGoes(w, "idle")
    /\ UNCHANGED <<now, accountRow, scheduling, runRow, queue, stalls, budget, history>>

\* A database write of execute throws: the job fails, and BullMQ's default of
\* one attempt never runs it again; the row keeps its status.
ProcessorThrows(w) ==
    /\ workerPc[w] \in {"taken", "running"}
    /\ faults < MaxFaults
    /\ faults' = faults + 1
    /\ WorkerGoes(w, "ack")
    /\ UNCHANGED <<now, accountRow, scheduling, runRow, queueing, edits, history>>

\* The process dies with the job leased to it.
WorkerCrash(w) ==
    /\ workerPc[w] # "idle"
    /\ faults < MaxFaults
    /\ faults' = faults + 1
    /\ WorkerGoes(w, "idle")
    /\ UNCHANGED <<now, accountRow, scheduling, runRow, queueing, edits, history>>

Abandoned(j) ==
    /\ job[j] = "active"
    /\ \A w \in Workers :
          workerPc[w] = "idle" \/ <<workerRun[w], workerAttempt[w]>> # j

\* BullMQ moves a stalled job back, and fails it once it stalled too often.
Redeliver(j) ==
    /\ job' = [job EXCEPT ![j] = IF stalls[j] < MaxStalls THEN "waiting" ELSE "finished"]
    /\ stalls' = [stalls EXCEPT ![j] = IF @ < MaxStalls THEN @ + 1 ELSE @]
    /\ holder' = [holder EXCEPT ![j] = None]
    /\ UNCHANGED <<now, accountRow, scheduling, runRow, queue, working, edits, history>>

\* The stalled check finds a job whose worker died ...
RecoverJob(j) ==
    /\ Abandoned(j)
    /\ Redeliver(j)
    /\ UNCHANGED faults

\* ... or one whose worker is alive but failed to renew its lease in time.
LeaseLost(j) ==
    /\ job[j] = "active"
    /\ ~ Abandoned(j)
    /\ faults < MaxFaults
    /\ faults' = faults + 1
    /\ Redeliver(j)

-----------------------------------------------------------------------------
(* The environment *)

CronOccurrence ==
    /\ now < MaxSlot
    /\ now' = now + 1
    /\ UNCHANGED <<accountRow, scheduling, runRow, queueing, working, budget, history>>

\* Settings are edited by statements that wait for the row lock.
EditAccount(a, m) ==
    /\ edits < MaxEdits
    /\ edits' = edits + 1
    /\ rowLock[a] = None
    /\ mode[a] \notin {m, "DELETED"}
    /\ mode' = [mode EXCEPT ![a] = m]
    /\ UNCHANGED <<now, lastFired, scheduling, runRow, queueing, working, faults, history>>

SchedulerStep(f) ==
    \/ LockRow(f)
    \/ RowNotAcquired(f)
    \/ SkipRun(f)
    \/ \E r \in Runs : InsertRun(f, r)
    \/ EnqueueJob(f)
    \/ CommitRun(f)

TickerStep(t) ==
    \/ TickHeldBack(t)
    \/ Tick(t)
    \/ \E a \in Accounts : NextCandidate(t, a)
    \/ TickEnd(t)

WorkerStep(w) ==
    \/ \E j \in Jobs : TakeJob(w, j)
    \/ StartAttempt(w)
    \/ RunNotFound(w)
    \/ \E s \in {"SUCCEEDED", "PARTIAL", "TIMEOUT"} : EndRun(w, s)
    \/ FailRun(w)
    \/ EmitFailure(w)
    \/ ScheduleRetry(w)
    \/ RequeueJob(w)
    \/ AckJob(w)

Fault ==
    \/ \E t \in Tickers : TickMiscounts(t) \/ TickFails(t)
    \/ \E f \in Flows : RetrySchedule(f) \/ GiveUpSchedule(f) \/ ProcessCrash(f)
    \/ \E w \in Workers : RequeueFails(w) \/ ProcessorThrows(w) \/ WorkerCrash(w)
    \/ \E j \in Jobs : LeaseLost(j)

Environment ==
    \/ CronOccurrence
    \/ \E a \in Accounts, m \in AccountModes : EditAccount(a, m)
    \/ \E q \in Requests, a \in Accounts : TriggerManual(q, a)

Next ==
    \/ \E t \in Tickers : TickerStep(t)
    \/ \E f \in Flows : SchedulerStep(f)
    \/ \E w \in Workers : WorkerStep(w)
    \/ \E j \in Jobs : RecoverJob(j)
    \/ Fault
    \/ Environment

\* The cron keeps ticking, code that was started goes on, BullMQ delivers jobs
\* and runs its stalled check.  Nothing makes a user, a fault or an edit happen.
Fairness ==
    /\ \A t \in Tickers : WF_vars(TickerStep(t))
    /\ \A f \in Flows : WF_vars(SchedulerStep(f))
    /\ \A w \in Workers : WF_vars(WorkerStep(w))
    /\ \A j \in Jobs : WF_vars(RecoverJob(j))

SafeSpec == Init /\ [][Next]_vars
Spec == SafeSpec /\ Fairness

-----------------------------------------------------------------------------
(* Properties *)

\* A run that the account is still waiting for.  A redelivered job can take a
\* run that ended through its statuses once more; that is not a new run.
Live(a) == {r \in Runs : account[r] = a /\ Active(r) /\ r \notin ended}

\* Single flight (Requirement 1.3): however ticks of several processes, manual
\* requests, rollbacks, worker crashes and redeliveries interleave, an account
\* has at most one run that has been committed and has not ended.
SingleFlight ==
    \A a \in Accounts : \A r, s \in Live(a) : r = s

\* manualOnly is re-checked under the lock (Requirement 1.4): a ticker that is
\* about to commit a run does so for an account that is not manual-only or
\* deleted now, although it was chosen from an older snapshot.
AutoRunRespectsSettings ==
    \A t \in Tickers :
        pc[t] \in {"inserted", "enqueued"} =>
            mode[cur[t]] \in {"AUTO", "INACTIVE"}

Redelivered(r) == \E n \in 0..MaxRetries : stalls[<<r, n>>] > 0
Executing(w) == workerPc[w] \in {"running", "requeue"}

\* Two workers execute one run at the same time only after BullMQ redelivered
\* one of its jobs: scheduleRetry enqueues the next attempt last.
NoOverlap ==
    \A v, w \in Workers :
        /\ v # w
        /\ Executing(v) /\ Executing(w)
        /\ workerRun[v] = workerRun[w]
        => Redelivered(workerRun[v])

\* A run leaves a terminal status only if BullMQ redelivered one of its jobs:
\* markRunRunning does not look at the status it overwrites.
ResurrectionOnlyByRedelivery ==
    [][\A r \in Runs :
          status[r] \in TerminalStatuses /\ status'[r] # status[r]
              => Redelivered(r)']_vars

\* Nobody will ever work on the run again, and its status is not terminal: its
\* account answers CONFLICT to every later tick and request.
Stranded(r) ==
    /\ Active(r)
    /\ \A n \in 0..MaxRetries : job[<<r, n>>] \in {"absent", "finished"}
    /\ \A w \in Workers : workerRun[w] = r => workerPc[w] \in {"idle", "ack"}

\* Without a fault a run is stranded only by the worker that took its job
\* before the scheduler's transaction had committed the row.
StrandedOnlyByEarlyDelivery ==
    \A r \in Runs : Stranded(r) => r \in missed \/ faults > 0

\* A FAILED run has been announced on the event bus, or its worker is about to,
\* or the worker died first and the job will be, or was, redelivered.
FailureAnnounced ==
    \A r \in Runs :
        status[r] = "FAILED" /\ r \notin alerted =>
            \/ \E w \in Workers : workerRun[w] = r /\ workerPc[w] = "alert"
            \/ \E n \in 0..MaxRetries : job[<<r, n>>] \in {"waiting", "active"}
            \/ Redelivered(r)

-----------------------------------------------------------------------------
(* The inductive invariant behind SingleFlight and the refinement *)

Holding(f) == pc[f] \in {"locked", "inserted", "enqueued"}
Creating(f) == pc[f] \in {"inserted", "enqueued"}

\* A flow inside a transaction works on an account whose row it has locked and
\* which nobody has deleted; a flow that is creating a run has an identifier of
\* its own for it, and the account waits for no other run.
FlowInv ==
    \A f \in Flows :
        /\ pc[f] = "begin" \/ Holding(f) => cur[f] \in Accounts
        /\ Holding(f) =>
              rowLock[cur[f]] = f /\ mode[cur[f]] # "DELETED"
        /\ (newRun[f] # None) <=> Creating(f)
        /\ Creating(f) =>
              /\ status[newRun[f]] = "ABSENT"
              /\ \A g \in Flows \ {f} : newRun[g] # newRun[f]
              /\ Live(cur[f]) = {}

\* A committed run has an account; the runs in ended were committed, and a run
\* whose status is terminal is one of them.
RunInv ==
    \A r \in Runs :
        /\ status[r] # "ABSENT" => account[r] \in Accounts
        /\ r \in ended => status[r] # "ABSENT"
        /\ status[r] \in TerminalStatuses => r \in ended

\* A worker that is past loadRun works on a committed run, and no job is added
\* for an attempt the retry policy does not allow.
WorkerInv ==
    /\ \A w \in Workers :
          /\ workerPc[w] # "idle" => workerRun[w] \in Runs
          /\ workerPc[w] \in {"running", "requeue", "alert"} =>
                status[workerRun[w]] # "ABSENT"
          /\ workerPc[w] = "requeue" => workerAttempt[w] < MaxRetries
    /\ \A r \in Runs : job[<<r, MaxRetries + 1>>] = "absent"

\* Types, locks, runs and workers are consistent, and no account has two runs
\* in progress: what every step of scheduler, worker and fault preserves.
IndInv == TypeOK /\ FlowInv /\ RunInv /\ WorkerInv /\ SingleFlight

-----------------------------------------------------------------------------
(* Refinement and liveness *)

\* The pipeline keeps a ledger of runs: opened one at a time for an account by
\* the commit, closed by the first terminal status, never opened again.
Ledger == INSTANCE RunLedger
            WITH open <- [a \in Accounts |-> Live(a)], closed <- ended
LedgerSpec == Ledger!Spec

\* An account that is due is not forgotten: a tick fires it, or it has a run
\* in progress, or it stops being AUTO.  (Backpressure must end for that.)
DueFires ==
    \A a \in Accounts :
        mode[a] = "AUTO" /\ lastFired[a] < now ~>
            lastFired[a] >= now \/ HasActiveRun(a) \/ mode[a] # "AUTO"

\* A run in progress ends, after retries and redeliveries, unless it is
\* stranded.
RunEndsOrStrands ==
    \A r \in Runs : Active(r) ~> ~ Active(r) \/ Stranded(r)

-----------------------------------------------------------------------------
(* What comments in the code say and the code does not do *)

\* sync-scheduler.service.ts:14-16: lastFiredAt and the row lock "avoid
\* duplicate fires".  The lock is taken after the snapshot was read, and
\* lastFiredAt is not read again under it.
SingleFire ==
    \A a \in Accounts : \A n \in 0..MaxSlot : fires[a][n] <= 1

\* sync-worker.service.ts:171-173: when execute resolves, the run's status has
\* been written.  A job added before the commit of its row may find no row.
ResolvedMeansWritten ==
    \A w \in Workers :
        workerPc[w] = "ack" => status[workerRun[w]] \notin {"ABSENT", "QUEUED"}

\* sync-queue-names.ts:5-8: scheduler and worker agree on the queue names.  The
\* scheduler builds its own.
SomeoneConsumesTheQueue ==
    \A j \in Jobs : job[j] # "absent" => queue[j] \in ConsumedQueues
=============================================================================
