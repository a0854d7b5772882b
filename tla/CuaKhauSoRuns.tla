---------------------------- MODULE CuaKhauSoRuns ----------------------------
(***************************************************************************)
(* Who synchronises an organisation's Cua Khau So account, and when: the    *)
(* pollers with their circuit breakers, the debounced queue, users' calls,  *)
(* and around every run its lock, its lease and the account's backoff.      *)
(* What a run does inside is CuaKhauSo.                                     *)
(*                                                                         *)
(* A flow is a call of runAccountSync.  A process has one poller            *)
(* (isRunning), one BullMQ worker of concurrency 1, and calls of users and  *)
(* of its fallback timer.  Times are events: the lease, the backoff, the    *)
(* throttle and the circuit's rest end when they end.  The run row and the  *)
(* account's status (ACTIVE or ERROR) are written along the way and decide  *)
(* nothing here.                                                            *)
(***************************************************************************)
EXTENDS Integers, FiniteSets

CONSTANTS
    Pollers,      \* flows of the polling timers, at most one per process
    Workers,      \* flows of the BullMQ workers, at most one per process
    Callers,      \* flows of users and of fallback timers
    Host,         \* the process of each flow
    NoOne,        \* no process
    Former,       \* the workerId of a process that is no more
    MaxFailures,  \* bound: consecutiveFailures counts up to it
    MaxFaults     \* bound: failed calls and deaths of processes

VARIABLES
    failures,     \* consecutiveFailures of the account
    backoff,      \* does its nextRetryAt lie ahead?
    owner, live,  \* syncLockOwner, and does syncLockExpiresAt lie ahead?
    recent,       \* has a run started within CUA_KHAU_SO_REFRESH_THROTTLE_MS?
    at,           \* where each flow is
    readFailures, \* consecutiveFailures as a flow has read it
    circuit,      \* circuitState of each poller; "RESTED" is OPEN long enough
    misses,       \* globalConsecutiveFailures of each, up to the threshold
    job,          \* the organisation's BullMQ job, by its id
    timers,       \* processes whose fallback timer is set
    exposed,      \* history: runs left without the lock they had taken
    faults

account == <<failures, backoff>>
lock == <<owner, live>>
callers == <<circuit, misses, job, timers>>
vars == <<account, lock, recent, at, readFailures, callers, exposed, faults>>

Flows == Pollers \union Workers \union Callers
Processes == {Host[f] : f \in Flows}

RunsAssumption ==
    /\ {NoOne, Former} \intersect Processes = {}
    /\ MaxFailures \in Nat /\ MaxFaults \in Nat

\* CuaKhauSoPollingService's circuitFailureThreshold.
circuitFailureThreshold == 3

\* Past acquireSyncLock and before releaseSyncLock.
InRun(f) == at[f] \notin {"idle", "acquire"}

TypeOK ==
    /\ failures \in 0..MaxFailures /\ backoff \in BOOLEAN
    /\ owner \in Processes \union {NoOne, Former} /\ live \in BOOLEAN /\ recent \in BOOLEAN
    /\ at \in [Flows -> {"idle", "acquire", "create", "work", "success", "read",
                         "write", "release", "releaseFailed"}]
    /\ readFailures \in [Flows -> 0..MaxFailures]
    /\ circuit \in [Pollers -> {"CLOSED", "OPEN", "RESTED", "HALF_OPEN"}]
    /\ misses \in [Pollers -> 0..circuitFailureThreshold]
    /\ job \in {"none", "waiting", "active", "remembered"}
    /\ timers \subseteq Processes
    /\ exposed \subseteq Flows
    /\ faults \in 0..MaxFaults

Init ==
    /\ failures = 0 /\ backoff = FALSE
    /\ owner = NoOne /\ live = FALSE
    /\ recent = FALSE
    /\ at = [f \in Flows |-> "idle"]
    /\ readFailures = [f \in Flows |-> 0]
    /\ circuit = [f \in Pollers |-> "CLOSED"]
    /\ misses = [f \in Pollers |-> 0]
    /\ job = "none"
    /\ timers = {}
    /\ exposed = {}
    /\ faults = 0

-----------------------------------------------------------------------------
(***************************************************************************)
(* Time, and the account reset by a user.                                  *)
(***************************************************************************)

\* CUA_KHAU_SO_SYNC_LEASE_MS are over; nothing renews the lease of a run.
LeaseExpires ==
    /\ live
    /\ live' = FALSE
    /\ exposed' = exposed \union {f \in Flows : InRun(f) /\ Host[f] = owner}
    /\ UNCHANGED <<account, owner, recent, at, readFailures, callers, faults>>

BackoffEnds ==
    /\ backoff /\ backoff' = FALSE
    /\ UNCHANGED <<failures, lock, recent, at, readFailures, callers, exposed, faults>>

ThrottleEnds ==
    /\ recent /\ recent' = FALSE
    /\ UNCHANGED <<account, lock, at, readFailures, callers, exposed, faults>>

\* circuitResetMs have passed since the circuit was opened.
CircuitRests(f) ==
    /\ circuit[f] = "OPEN"
    /\ circuit' = [circuit EXCEPT ![f] = "RESTED"]
    /\ UNCHANGED <<account, lock, recent, at, readFailures, misses, job, timers,
                   exposed, faults>>

\* upsertIntegrationAccount, for connect and for every declaration a user has
\* synchronised.
upsertIntegrationAccount ==
    /\ failures # 0 \/ backoff
    /\ failures' = 0 /\ backoff' = FALSE
    /\ UNCHANGED <<lock, recent, at, readFailures, callers, exposed, faults>>

-----------------------------------------------------------------------------
(***************************************************************************)
(* How a run begins and how its caller takes its end.                      *)
(***************************************************************************)

Goes(f, place) == at' = [at EXCEPT ![f] = place]

onPollSuccess(f) ==
    /\ circuit' = [circuit EXCEPT ![f] = "CLOSED"]
    /\ misses' = [misses EXCEPT ![f] = 0]

onPollFailure(f) ==
    LET n == misses[f] + 1
    IN  /\ misses' = [misses EXCEPT ![f] =
                        IF n > circuitFailureThreshold THEN @ ELSE n]
        /\ circuit' = [circuit EXCEPT ![f] =
                        IF n >= circuitFailureThreshold THEN "OPEN" ELSE @]

\* runOnce and pollActiveAccounts: an account that backs off is not among those
\* processed, and a poll of no accounts is a success.
Poll(f) ==
    /\ at[f] = "idle" /\ circuit[f] # "OPEN"
    /\ IF backoff
         THEN onPollSuccess(f) /\ UNCHANGED at
         ELSE /\ circuit' = [circuit EXCEPT ![f] =
                               IF @ = "RESTED" THEN "HALF_OPEN" ELSE @]
              /\ Goes(f, "acquire")
              /\ UNCHANGED misses
    /\ UNCHANGED <<account, lock, recent, readFailures, job, timers, exposed, faults>>

\* runSyncNow and refreshOnOpenIfStale, unless a run has started lately.
UserCalls(f) ==
    /\ at[f] = "idle" /\ ~ recent
    /\ Goes(f, "acquire")
    /\ UNCHANGED <<account, lock, recent, readFailures, callers, exposed, faults>>

\* enqueueCuaKhauSoOrganization after a trip event: with one job id for the
\* organisation, an add is ignored while Redis knows the job, be it finished.
Enqueue ==
    /\ job = "none" /\ job' = "waiting"
    /\ UNCHANGED <<account, lock, recent, at, readFailures, circuit, misses, timers,
                   exposed, faults>>

\* Redis refuses the add: a timer of the process stands in.
EnqueueFails(p) ==
    /\ faults < MaxFaults /\ faults' = faults + 1
    /\ p \notin timers /\ timers' = timers \union {p}
    /\ UNCHANGED <<account, lock, recent, at, readFailures, circuit, misses, job,
                   exposed>>

\* removeOnComplete: 1000 other jobs have been completed since.
Forget ==
    /\ job = "remembered" /\ job' = "none"
    /\ UNCHANGED <<account, lock, recent, at, readFailures, circuit, misses, timers,
                   exposed, faults>>

\* syncOrganizationFromQueue: an account that backs off is left out, and the
\* job is complete.
Deliver(f) ==
    /\ at[f] = "idle" /\ job = "waiting"
    /\ IF backoff THEN job' = "remembered" /\ UNCHANGED at
                  ELSE job' = "active" /\ Goes(f, "acquire")
    /\ UNCHANGED <<account, lock, recent, readFailures, circuit, misses, timers,
                   exposed, faults>>

\* The same call by the fallback timer.
TimerFires(f) ==
    /\ at[f] = "idle" /\ Host[f] \in timers
    /\ timers' = timers \ {Host[f]}
    /\ IF backoff THEN UNCHANGED at ELSE Goes(f, "acquire")
    /\ UNCHANGED <<account, lock, recent, readFailures, circuit, misses, job,
                   exposed, faults>>

\* The call returns or throws.  A poll whose only account was skipped or failed
\* is a failure; the worker's job is complete in any case, since
\* runCuaKhauSoSync catches what is thrown.
Ends(f, ok) ==
    /\ Goes(f, "idle")
    /\ readFailures' = [readFailures EXCEPT ![f] = 0]
    /\ IF f \in Pollers THEN IF ok THEN onPollSuccess(f) ELSE onPollFailure(f)
                        ELSE UNCHANGED <<circuit, misses>>
    /\ job' = IF f \in Workers THEN "remembered" ELSE job
    /\ UNCHANGED timers

-----------------------------------------------------------------------------
(***************************************************************************)
(* runAccountSync.                                                         *)
(***************************************************************************)

\* Mutant: a lease never ends.
LockFreeOnceReleased(p) == owner \in {NoOne, p}

\* The condition of acquireSyncLock's updateMany.
LockFree(p) == ~ live \/ owner = p

acquireSyncLock(f) ==
    /\ at[f] = "acquire"
    /\ IF LockFree(Host[f])
         THEN /\ owner' = Host[f] /\ live' = TRUE
              /\ Goes(f, "create")
              /\ UNCHANGED <<readFailures, callers>>
         ELSE Ends(f, FALSE) /\ UNCHANGED lock
    /\ UNCHANGED <<account, recent, exposed, faults>>

CreateRow(f) ==
    /\ at[f] = "create"
    /\ recent' = TRUE
    /\ Goes(f, "work")
    /\ UNCHANGED <<account, lock, readFailures, callers, exposed, faults>>

\* syncOrganizationAccount and the update of the row.
Work(f) ==
    /\ at[f] = "work"
    /\ Goes(f, "success")
    /\ UNCHANGED <<account, lock, recent, readFailures, callers, exposed, faults>>

markAccountSyncSuccess(f) ==
    /\ at[f] = "success"
    /\ failures' = 0 /\ backoff' = FALSE
    /\ Goes(f, "release")
    /\ UNCHANGED <<lock, recent, readFailures, callers, exposed, faults>>

\* markAccountSyncFailure reads consecutiveFailures ...
ReadFailures(f) ==
    /\ at[f] = "read"
    /\ readFailures' = [readFailures EXCEPT ![f] = failures]
    /\ Goes(f, "write")
    /\ UNCHANGED <<account, lock, recent, callers, exposed, faults>>

\* ... and writes one more than it has read, with a nextRetryAt ahead.
WriteFailure(f) ==
    /\ at[f] = "write"
    /\ failures' = IF readFailures[f] < MaxFailures THEN readFailures[f] + 1
                                                    ELSE MaxFailures
    /\ backoff' = TRUE
    /\ Goes(f, "releaseFailed")
    /\ UNCHANGED <<lock, recent, readFailures, callers, exposed, faults>>

\* Mutant: the lock is cleared whoever owns it.
ReleaseAny(f) ==
    /\ at[f] \in {"release", "releaseFailed"}
    /\ owner' = NoOne /\ live' = FALSE
    /\ exposed' = exposed \ {f}
    /\ Ends(f, at[f] = "release")
    /\ UNCHANGED <<account, recent, faults>>

\* releaseSyncLock, where the owner is still this process.  Another run of the
\* same process goes on without a lock.
releaseSyncLock(f) ==
    /\ at[f] \in {"release", "releaseFailed"}
    /\ IF owner = Host[f]
         THEN /\ owner' = NoOne /\ live' = FALSE
              /\ exposed' = (exposed \union
                               {g \in Flows : InRun(g) /\ Host[g] = Host[f]}) \ {f}
         ELSE /\ exposed' = exposed \ {f}
              /\ UNCHANGED lock
    /\ Ends(f, at[f] = "release")
    /\ UNCHANGED <<account, recent, faults>>

\* A call of the flow to the source or to the database fails.
CallFails(f) ==
    /\ faults < MaxFaults /\ faults' = faults + 1
    /\ \/ \* creating the run row is not within try, and the release itself may
          \* fail: nobody clears the lock
          /\ at[f] \in {"create", "release", "releaseFailed"}
          /\ exposed' = exposed \ {f}
          /\ Ends(f, FALSE)
       \/ /\ at[f] \in {"work", "success"}
          /\ Goes(f, "read")
          /\ UNCHANGED <<readFailures, callers, exposed>>
       \/ \* the row's or the account's failure cannot be written
          /\ at[f] \in {"read", "write"}
          /\ Goes(f, "releaseFailed")
          /\ UNCHANGED <<readFailures, callers, exposed>>
    /\ UNCHANGED <<account, lock, recent>>

\* A process dies and is started again under a new workerId: its lock stays, no
\* longer its own, until the lease ends; its timer is lost, its circuit is CLOSED,
\* and an active job goes to a worker again.
Crash(p) ==
    LET gone == {f \in Flows : Host[f] = p}
        fresh(v, init) == [f \in DOMAIN v |-> IF f \in gone THEN init ELSE v[f]]
    IN  /\ faults < MaxFaults /\ faults' = faults + 1
        /\ at' = fresh(at, "idle")
        /\ readFailures' = fresh(readFailures, 0)
        /\ circuit' = fresh(circuit, "CLOSED")
        /\ misses' = fresh(misses, 0)
        /\ job' = IF \E f \in gone \intersect Workers : at[f] # "idle"
                    THEN "waiting" ELSE job
        /\ timers' = timers \ {p}
        /\ exposed' = exposed \ gone
        /\ owner' = IF owner = p THEN Former ELSE owner
        /\ UNCHANGED <<account, live, recent>>

-----------------------------------------------------------------------------

Step(f) ==
    \/ acquireSyncLock(f) \/ CreateRow(f) \/ Work(f) \/ markAccountSyncSuccess(f)
    \/ ReadFailures(f) \/ WriteFailure(f) \/ releaseSyncLock(f)

Next ==
    \/ LeaseExpires \/ BackoffEnds \/ ThrottleEnds \/ upsertIntegrationAccount
    \/ Enqueue \/ Forget
    \/ \E f \in Pollers : Poll(f) \/ CircuitRests(f)
    \/ \E f \in Workers : Deliver(f)
    \/ \E f \in Callers : UserCalls(f) \/ TimerFires(f)
    \/ \E f \in Flows : Step(f) \/ CallFails(f)
    \/ \E p \in Processes : Crash(p) \/ EnqueueFails(p)

\* A process that lives goes on with its flows, its poller's timer goes off
\* again and again (setInterval), and leases, backoffs and rests end.
Fairness ==
    /\ \A f \in Flows : WF_vars(Step(f))
    /\ \A f \in Pollers : WF_vars(Poll(f)) /\ WF_vars(CircuitRests(f))
    /\ WF_vars(LeaseExpires) /\ WF_vars(BackoffEnds)

Spec == Init /\ [][Next]_vars /\ Fairness

-----------------------------------------------------------------------------
(***************************************************************************)
(* Properties                                                              *)
(***************************************************************************)

\* Two processes synchronise the account at once only if one of the runs has
\* outlived its lease or lost its lock to another run of its own process, which
\* acquireSyncLock lets in and whose releaseSyncLock takes the lock away.
ForeignRunsOverlapOnlyExposed ==
    \A f, g \in Flows :
        InRun(f) /\ InRun(g) /\ Host[f] # Host[g] => {f, g} \intersect exposed # {}

\* The account is synchronised again and again, whatever locks are left behind,
\* circuits open and backoffs are set, as long as a poller is there.
SyncsGoOn == []<>(\E f \in Flows : at[f] = "work")
=============================================================================
