---------------------------- MODULE SyncAttempt ----------------------------
(***************************************************************************)
(* The attempts of one synchronisation run: SyncWorkerService.execute pulls *)
(* records from the provider, maps them, and applies them in batches with  *)
(* TripsService.applyCommands, which inserts a trip event per new           *)
(* idempotency key.  Other writers of the same organisation insert events  *)
(* with the same keys at the same time, attempts fail and are repeated, and *)
(* the process may die between any two steps.                               *)
(*                                                                         *)
(* A record is reduced to what the code tells apart: the idempotency key of *)
(* the command it maps to, or Bad, which stands for a record that map()     *)
(* rejects, that makes map() throw, or that belongs to another tenant.      *)
(***************************************************************************)
EXTENDS Integers, Sequences, FiniteSets

CONSTANTS
    Keys,        \* idempotency keys
    Corrections, \* keys whose commands are corrections
    Bad,         \* a record that yields no command
    Feeds,       \* what a fetch may return: sequences of keys and Bad
    BatchSize,   \* DEFAULT_BATCH_SIZE
    MaxRetries,  \* SYNC_RETRY_POLICY.maxRetries
    MaxCrashes,  \* bound: deaths of the worker's process
    MaxFaults    \* bound: transactions that fail for another reason

ASSUME AttemptAssumption ==
    /\ Bad \notin Keys
    /\ Corrections \subseteq Keys
    /\ Feeds \subseteq Seq(Keys \union {Bad})
    /\ BatchSize \in Nat \ {0}
    /\ MaxRetries \in Nat
    /\ MaxCrashes \in Nat
    /\ MaxFaults \in Nat

VARIABLES
    events,     \* keys of the persisted trip events
    announced,  \* announced[k]: TripDomainEvents emitted for key k
    status,     \* IntegrationSyncRun.status
    row,        \* the counters in the IntegrationSyncRun row
    attempt,    \* attemptIndex
    pc,         \* where execute is
    phase,      \* what follows the batch: more records, the end, or the error
    error,      \* class of the error being handled
    feed,       \* what this attempt's fetch returns
    pos,        \* next record of feed
    n,          \* the counters of this attempt
    pending,    \* pendingBatch: keys of commands not applied yet
    batch,      \* keys of the batch whose transaction is open
    seen,       \* keys its lookups found
    fresh,      \* keys it has created
    crashes,    \* process deaths so far
    faults      \* other failed transactions so far

database == <<events, announced, status, row>>
fetching == <<feed, pos>>
transaction == <<batch, seen, fresh>>
bounds == <<crashes, faults>>
vars == <<database, attempt, pc, phase, error, fetching, n, pending,
          transaction, bounds>>

Records == Keys \union {Bad}
Counters == [fetched : Nat, created : Nat, skipped : Nat, rejected : Nat]
Zero == [fetched |-> 0, created |-> 0, skipped |-> 0, rejected |-> 0]
Count(c, f, cr, sk, rj) ==
    [fetched |-> c.fetched + f, created |-> c.created + cr,
     skipped |-> c.skipped + sk, rejected |-> c.rejected + rj]

Terminal == {"SUCCEEDED", "PARTIAL", "FAILED", "TIMEOUT"}
Pcs == {"idle", "reading", "applying", "announcing", "over"}
Phases == {"fetching", "finishing", "draining"}

\* What classifySyncError and shouldRetry make of an error: TIMEOUT, another
\* retryable code, or a code that is never retried.
Errors == {"none", "timeout", "transient", "permanent"}

TypeOK ==
    /\ events \subseteq Keys
    /\ announced \in [Keys -> Nat]
    /\ status \in {"QUEUED", "RUNNING", "RETRYING"} \union Terminal
    /\ row \in Counters
    /\ attempt \in 0..MaxRetries
    /\ pc \in Pcs
    /\ phase \in Phases
    /\ error \in Errors
    /\ feed \in Seq(Records)
    /\ pos \in Nat
    /\ n \in Counters
    /\ pending \in Seq(Keys)
    /\ batch \in Seq(Keys)
    /\ seen \subseteq Keys
    /\ fresh \subseteq Keys
    /\ crashes \in 0..MaxCrashes
    /\ faults \in 0..MaxFaults

Init ==
    /\ events \in SUBSET Keys
    /\ announced = [k \in Keys |-> 0]
    /\ status = "QUEUED"
    /\ row = Zero
    /\ attempt = 0
    /\ pc = "idle"
    /\ phase = "fetching"
    /\ error = "none"
    /\ feed = << >>
    /\ pos = 1
    /\ n = Zero
    /\ pending = << >>
    /\ batch = << >>
    /\ seen = {}
    /\ fresh = {}
    /\ crashes = 0
    /\ faults = 0

-----------------------------------------------------------------------------
(* execute *)

\* Mutant: the attempt's counters go on from those of the one before.
StartAttemptKeepsCounters ==
    /\ pc = "idle"
    /\ status' = "RUNNING"
    /\ feed' \in Feeds
    /\ pos' = 1
    /\ pending' = << >>
    /\ error' = "none"
    /\ phase' = "fetching"
    /\ pc' = "reading"
    /\ UNCHANGED <<events, announced, row, n, attempt, transaction, bounds>>

\* A job starts or repeats an attempt: the row says RUNNING, its counters stay;
\* the fetch starts over, for the cursor is always empty.
StartAttempt ==
    /\ pc = "idle"
    /\ status' = "RUNNING"
    /\ feed' \in Feeds
    /\ pos' = 1
    /\ n' = Zero
    /\ pending' = << >>
    /\ error' = "none"
    /\ phase' = "fetching"
    /\ pc' = "reading"
    /\ UNCHANGED <<events, announced, row, attempt, transaction, bounds>>

Receives == pc = "reading" /\ phase = "fetching" /\ Len(pending) < BatchSize

\* A record that yields no command is counted and logged.
RejectRecord ==
    /\ Receives
    /\ pos <= Len(feed) /\ feed[pos] = Bad
    /\ pos' = pos + 1
    /\ n' = Count(n, 1, 0, 0, 1)
    /\ UNCHANGED <<database, attempt, pc, phase, error, feed, pending,
                   transaction, bounds>>

\* A record that yields a command joins the pending batch.
MapRecord ==
    /\ Receives
    /\ pos <= Len(feed) /\ feed[pos] # Bad
    /\ pos' = pos + 1
    /\ n' = Count(n, 1, 0, 0, 0)
    /\ pending' = Append(pending, feed[pos])
    /\ UNCHANGED <<database, attempt, pc, phase, error, feed, transaction, bounds>>

FeedEnds ==
    /\ Receives
    /\ pos > Len(feed)
    /\ phase' = "finishing"
    /\ UNCHANGED <<database, attempt, pc, error, fetching, n, pending,
                   transaction, bounds>>

\* The fetch throws, or the deadline has passed when the next record arrives:
\* what was mapped so far is still applied before the error is handled.
FeedFails(e) ==
    /\ Receives
    /\ error' = e
    /\ phase' = "draining"
    /\ UNCHANGED <<database, attempt, pc, fetching, n, pending, transaction, bounds>>

-----------------------------------------------------------------------------
(* flushBatch and applyCommands *)

KeysOf(s) == {s[i] : i \in 1..Len(s)}

\* The batch leaves pendingBatch before its transaction begins with the lookups.
BeginFlush ==
    /\ pc = "reading"
    /\ pending # << >>
    /\ Len(pending) >= BatchSize \/ phase # "fetching"
    /\ batch' = pending
    /\ pending' = << >>
    /\ seen' = events
    /\ pc' = "applying"
    /\ UNCHANGED <<database, attempt, phase, error, fetching, n, fresh, bounds>>

\* Another writer committed one of the keys after it was looked up.
Collision == \E k \in KeysOf(batch) : k \notin seen /\ k \in events

\* Mutant: the events of skipped commands are announced too.
CommitBatchAnnouncesAll ==
    /\ pc = "applying"
    /\ ~ Collision
    /\ fresh' = KeysOf(batch)
    /\ events' = events \union fresh'
    /\ row' = Count(row, 0, Cardinality(fresh' \ seen), Len(batch) - Cardinality(fresh' \ seen), 0)
    /\ n' = Count(n, 0, Cardinality(fresh' \ seen), Len(batch) - Cardinality(fresh' \ seen), 0)
    /\ batch' = << >>
    /\ pc' = "announcing"
    /\ UNCHANGED <<announced, status, attempt, phase, error, fetching, pending,
                   seen, bounds>>

\* New keys become events, known ones (also earlier in the batch) are skipped;
\* the row's counters grow in the same transaction, the attempt's after it.
CommitBatch ==
    /\ pc = "applying"
    /\ ~ Collision
    /\ fresh' = KeysOf(batch) \ seen
    /\ events' = events \union fresh'
    /\ row' = Count(row, 0, Cardinality(fresh'), Len(batch) - Cardinality(fresh'), 0)
    /\ n' = Count(n, 0, Cardinality(fresh'), Len(batch) - Cardinality(fresh'), 0)
    /\ batch' = << >>
    /\ pc' = "announcing"
    /\ UNCHANGED <<announced, status, attempt, phase, error, fetching, pending,
                   seen, bounds>>

\* After the commit: a TripDomainEvent for each created event that is no
\* correction.
Announce ==
    /\ pc = "announcing"
    /\ announced' = [k \in Keys |-> announced[k] + IF k \in fresh \ Corrections THEN 1 ELSE 0]
    /\ fresh' = {}
    /\ pc' = "reading"
    /\ UNCHANGED <<events, status, row, attempt, phase, error, fetching, n,
                   pending, batch, seen, bounds>>

\* The transaction is rolled back and its batch is gone.  While draining, the
\* error being handled stays; otherwise this one, no provider error, takes over.
LoseBatch ==
    /\ pc = "applying"
    /\ batch' = << >>
    /\ pc' = "reading"
    /\ phase' = "draining"
    /\ error' = IF phase = "draining" THEN error ELSE "permanent"
    /\ UNCHANGED <<database, attempt, fetching, n, pending, seen, fresh, crashes>>

\* The insert of a colliding key violates the unique index.  The code catches
\* P2002, but PostgreSQL has aborted the transaction: its next statement fails.
BatchCollides ==
    /\ Collision
    /\ LoseBatch
    /\ UNCHANGED faults

BatchFails ==
    /\ faults < MaxFaults
    /\ faults' = faults + 1
    /\ LoseBatch

-----------------------------------------------------------------------------
(* The end of an attempt *)

\* Mutant: the last, partial batch is not flushed before the run is settled.
AtEndUnflushed(p) == pc = "reading" /\ phase = p

AtEnd(p) == pc = "reading" /\ phase = p /\ pending = << >>

\* Every status write replaces the row's counters by the attempt's.
Settle(s) ==
    /\ status' = s
    /\ row' = n
    /\ UNCHANGED <<events, announced, phase, error, fetching, n, pending,
                   transaction, bounds>>

\* No throw: PARTIAL if a record was rejected, else SUCCEEDED.
Finish ==
    /\ AtEnd("finishing")
    /\ Settle(IF n.fetched > 0 /\ n.rejected > 0 THEN "PARTIAL" ELSE "SUCCEEDED")
    /\ pc' = "over"
    /\ UNCHANGED attempt

\* Mutant: one attempt more than the policy allows.
RetryOffByOne ==
    /\ AtEnd("draining")
    /\ error \in {"timeout", "transient"}
    /\ attempt <= MaxRetries
    /\ Settle("RETRYING")
    /\ attempt' = attempt + 1
    /\ pc' = "idle"

\* handleFailure, scheduleRetry: another attempt is queued.
Retry ==
    /\ AtEnd("draining")
    /\ error \in {"timeout", "transient"}
    /\ attempt < MaxRetries
    /\ Settle("RETRYING")
    /\ attempt' = attempt + 1
    /\ pc' = "idle"

\* handleFailure: the error is not retried, or the attempts are used up, or the
\* 30-minute window is over, which can be so at any attempt.
GiveUp ==
    /\ AtEnd("draining")
    /\ Settle(IF error = "timeout" THEN "TIMEOUT" ELSE "FAILED")
    /\ pc' = "over"
    /\ UNCHANGED attempt

\* The worker's process dies; BullMQ redelivers the job of the same attempt.
Crash ==
    /\ pc \in {"reading", "applying", "announcing"}
    /\ crashes < MaxCrashes
    /\ crashes' = crashes + 1
    /\ pc' = "idle"
    /\ n' = Zero
    /\ pending' = << >>
    /\ batch' = << >>
    /\ fresh' = {}
    /\ UNCHANGED <<database, attempt, phase, error, fetching, seen, faults>>

\* Another writer of the organisation, for example the run of another account
\* of the same provider, persists an event; it announces it itself.
RivalInserts(k) ==
    /\ k \notin events
    /\ events' = events \union {k}
    /\ UNCHANGED <<announced, status, row, attempt, pc, phase, error, fetching, n,
                   pending, transaction, bounds>>

Next ==
    \/ StartAttempt
    \/ RejectRecord
    \/ MapRecord
    \/ FeedEnds
    \/ \E e \in Errors \ {"none"} : FeedFails(e)
    \/ BeginFlush
    \/ CommitBatch
    \/ Announce
    \/ BatchCollides
    \/ BatchFails
    \/ Finish
    \/ Retry
    \/ GiveUp
    \/ Crash
    \/ \E k \in Keys : RivalInserts(k)

Spec == Init /\ [][Next]_vars

-----------------------------------------------------------------------------
(* Properties *)

Sum(c) == c.created + c.skipped + c.rejected

\* Requirement 2.7: a run that ends without an error has accounted for every
\* record of its last fetch, whatever earlier attempts, rivals and crashes did; and
\* no status write claims more outcomes than records were fetched.  (While the run
\* is RUNNING the row mixes the last write with the batches since.)
CountersBalance ==
    /\ status \in {"SUCCEEDED", "PARTIAL"} =>
          row.fetched = Sum(row) /\ row.fetched = Len(feed)
    /\ status \in Terminal \union {"RETRYING"} => Sum(row) <= row.fetched

\* A run that ends without an error has not lost a command: each record that
\* maps to one has its event; and it is SUCCEEDED exactly if all records do.
NothingLost ==
    status \in {"SUCCEEDED", "PARTIAL"} =>
        /\ KeysOf(feed) \ {Bad} \subseteq events
        /\ status = "PARTIAL" <=> Bad \in KeysOf(feed)

\* At most one TripDomainEvent is emitted for an event, and only for one that
\* is persisted: repeating an attempt does not notify anybody again.
AnnouncedAtMostOnce ==
    \A k \in Keys : announced[k] <= 1 /\ (announced[k] = 1 => k \in events)

-----------------------------------------------------------------------------
(* What a comment says and the code does not do *)

\* trips.service.ts:1002-1003: the run's counters satisfy recordsFetched =
\* eventsCreated + eventsSkipped + recordsRejected.  A batch that is rolled back
\* was fetched but is in no other counter.
BalancedWhenWritten ==
    status \in Terminal \union {"RETRYING"} => row.fetched = Sum(row)
=============================================================================
