------------------------------- MODULE Services -------------------------------
(***************************************************************************)
(* The services around the pipelines, side by side: memberships,            *)
(* notifications, the operations cache, the callers of the Cua Khau So      *)
(* synchronisation, the sessions users read it with, the trip list, and the *)
(* drivers and vehicles of an organisation.  They share no row.  A behaviour *)
(* is of one of them, as focus says from the start.                         *)
(***************************************************************************)
EXTENDS Memberships

CONSTANTS
    InApp, External, RuleSets, NoticeCalls, Senders,      \* notifications
    MaxPublishes, MaxAttempts, MaxTears,
    Hosts, Loads, LoadHost, MaxWrites, MaxErrors,         \* the cache
    Pollers, Workers, Callers, Host, NoOne, Former,       \* the callers
    MaxFailures, MaxFaults,
    Slots, Machine, Credentials, Fetches,                 \* the sessions
    Trips, PlannedStart, PlannedArrival, Created, Kinds,  \* the trip list
    Filters, PageSize, Tick, MaxTime,
    Drivers, Vehicles, Journeys, People, Files, Errands,  \* drivers and vehicles
    Rosters, MaxMedia, MaxLosses

VARIABLES
    rules, rowStatus, call, todo, hand, tries, job, attempts, stalled, sender, task,
    holds, marks, taken, torn, byUser, tears,
    version, copy, load, value, inval, errors, excused,
    failures, backoff, owner, live, recent, at, readFailures, circuit, misses,
    orgJob, timers, exposed, faults,
    connected, sessions, act, lastBy, outrunSlots,
    kinds, clock, tripStatus, since, latest, reader,
    duties, driver, linked, vehicle, default, trip, refs, crew, event, media, errand,
    strayed, cut, losses,
    focus

Notices == INSTANCE Notifications
             WITH status <- rowStatus, accepted <- taken, Calls <- NoticeCalls
Cache == INSTANCE OperationsCache
Syncs == INSTANCE CuaKhauSoRuns WITH job <- orgJob
Sessions == INSTANCE CuaKhauSoSessions WITH None <- NoOne, outrun <- outrunSlots
Operations == INSTANCE TripOperations WITH status <- tripStatus
Organisation == INSTANCE Fleet
                  WITH Trips <- Journeys, Calls <- Errands, Nobody <- NoOne, call <- errand

\* What the proofs suppose of the constants.
ASSUME ServicesAssumption ==
    /\ Notices!NotificationsAssumption
    /\ Cache!CacheAssumption
    /\ Syncs!RunsAssumption
    /\ Sessions!SessionsAssumption
    /\ Organisation!FleetAssumption
    /\ Operations!OperationsAssumption

-----------------------------------------------------------------------------

noticeVars == <<rules, rowStatus, call, todo, hand, tries, job, attempts, stalled,
                sender, task, holds, marks, taken, torn, byUser, tears>>
cacheVars == <<version, copy, load, value, inval, errors, excused>>
syncVars == <<failures, backoff, owner, live, recent, at, readFailures, circuit,
              misses, orgJob, timers, exposed, faults>>
sessionVars == <<connected, sessions, act, lastBy, outrunSlots>>
tripVars == <<kinds, clock, tripStatus, since, latest, reader>>
fleetVars == <<duties, driver, linked, vehicle, default, trip, refs, crew, event, media,
               errand, strayed, cut, losses>>
allVars == <<vars, noticeVars, cacheVars, syncVars, sessionVars, tripVars, fleetVars, focus>>

InMemberships ==
    /\ focus = "memberships"
    /\ UNCHANGED <<noticeVars, cacheVars, syncVars, sessionVars, tripVars, fleetVars, focus>>
InNotices ==
    /\ focus = "notices"
    /\ UNCHANGED <<vars, cacheVars, syncVars, sessionVars, tripVars, fleetVars, focus>>
InCache ==
    /\ focus = "cache"
    /\ UNCHANGED <<vars, noticeVars, syncVars, sessionVars, tripVars, fleetVars, focus>>
InSyncs ==
    /\ focus = "syncs"
    /\ UNCHANGED <<vars, noticeVars, cacheVars, sessionVars, tripVars, fleetVars, focus>>
InSessions ==
    /\ focus = "sessions"
    /\ UNCHANGED <<vars, noticeVars, cacheVars, syncVars, tripVars, fleetVars, focus>>
InOperations ==
    /\ focus = "operations"
    /\ UNCHANGED <<vars, noticeVars, cacheVars, syncVars, sessionVars, fleetVars, focus>>
InFleet ==
    /\ focus = "fleet"
    /\ UNCHANGED <<vars, noticeVars, cacheVars, syncVars, sessionVars, tripVars, focus>>

ServicesInit ==
    /\ Init /\ Notices!Init /\ Cache!Init /\ Syncs!Init /\ Sessions!Init /\ Operations!Init
    /\ Organisation!Init
    /\ focus \in {"memberships", "notices", "cache", "syncs", "sessions", "operations",
                  "fleet"}

ServicesNext ==
    \/ InMemberships /\ Next
    \/ InNotices /\ Notices!Next
    \/ InCache /\ Cache!Next
    \/ InSyncs /\ Syncs!Next
    \/ InSessions /\ Sessions!Next
    \/ InOperations /\ Operations!Next
    \/ InFleet /\ Organisation!Next

\* The others assume no fairness.
ServicesFairness ==
    \/ focus \in {"memberships", "cache", "sessions", "operations", "fleet"}
    \/ focus = "notices" /\ Notices!Fairness
    \/ focus = "syncs" /\ Syncs!Fairness

\* Safety needs no fairness.
ServicesSafety == ServicesInit /\ [][ServicesNext]_allVars
ServicesSpec == ServicesSafety /\ ServicesFairness

-----------------------------------------------------------------------------

\* The variables of every service have their types.
TypesOK ==
    /\ TypeOK /\ Notices!TypeOK /\ Cache!TypeOK /\ Syncs!TypeOK
    /\ Sessions!TypeOK /\ Operations!TypeOK /\ Organisation!TypeOK

\* A provider takes a message twice only if the first outcome was lost: the
\* update failed, or the worker died or lost its job's lock on the way.
SentTwiceOnlyIfTorn == Notices!SentTwiceOnlyIfTorn

\* A row tells what has come of its message: a job that has ended has said so,
\* unless the recipient has read or hidden the row, the mark is still on its way or
\* was lost; and a row stays PENDING_IN_APP only while its publisher is at work or
\* if it has died or could not write the outcome.
OutcomesAreAccountedFor == Notices!EndedJobIsAccountedFor /\ Notices!InAppIsSettled

\* A message in the queue is sent, given up or read, whatever the provider
\* answers, unless its outcome is lost.
QueuedIsSettled == focus = "notices" => Notices!QueuedIsSettled

\* A stale copy that no invalidation will delete was brought back by a load, is
\* in another process' memory, or its deletion was never tried or failed.
StaleOnlyByRace == Cache!StaleOnlyByRace

\* Two processes synchronise the account at once only if a run has outlived its
\* lease or lost its lock to another run of its process, which acquireSyncLock
\* lets in and whose releaseSyncLock takes the lock away.
ForeignRunsOverlapOnlyExposed == Syncs!ForeignRunsOverlapOnlyExposed

\* The account is synchronised again and again, whatever locks are left behind,
\* circuits open and backoffs are set.
SyncsGoOn == focus = "syncs" => Syncs!SyncsGoOn

\* The user who connected the organisation last reads from the account that is
\* connected, unless another call of that user overlapped the connect or the
\* account could not be saved.
ConnectedReadsItsAccount == Sessions!ConnectedReadsItsAccount

\* The events a trip's page offers are accepted, but for WAITING_YARD_ENTRY at the
\* border gate and YARD_ENTRY_CONFIRMED for a late trip.
OfferedIsAccepted == Operations!OfferedIsAccepted

\* A trip list is read to its end in full, and brings something new with every full
\* page, but for trips that change places or leave and come back, a cursor that has
\* left (which costs exceptions no trip), a trip that joins a list the database cuts
\* (which can only leave a page without anything new), and a page that the list is
\* loaded anew before.
ListGoesOn == Operations!ListGoesOn

\* A vehicle in use has no deleted driver unless the deletion overtook the call that
\* set it, and an upload's event has its media row unless the call was cut off.
FleetHoldsTogether == Organisation!FleetHoldsTogether
=============================================================================
