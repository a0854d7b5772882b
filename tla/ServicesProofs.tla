---------------------------- MODULE ServicesProofs ----------------------------
(***************************************************************************)
(* Theorems about Services, for any rules, rows, workers, callers, slots,   *)
(* calls about drivers and vehicles and any number of incidents: a provider *)
(* takes a message twice only where an outcome was lost, rows account for   *)
(* their jobs, runs of two processes overlap only where one has lost its    *)
(* lock, copies in the cache are out of date only where a write and a load  *)
(* have raced, drivers and vehicles hold together, and the theorems of the  *)
(* sessions, the memberships and the trip list carry over.                  *)
(***************************************************************************)
EXTENDS Services, MembershipsProofs

\* A behaviour of the composition is one of each service: whoever is not in focus
\* stutters.
LEMMA EachAlone ==
    ServicesSafety =>
        /\ Init /\ [][Next]_vars
        /\ Notices!Init /\ [][Notices!Next]_noticeVars
        /\ Cache!Init /\ [][Cache!Next]_cacheVars
        /\ Syncs!Init /\ [][Syncs!Next]_syncVars
        /\ Sessions!Init /\ [][Sessions!Next]_sessionVars
        /\ Operations!Init /\ [][Operations!Next]_tripVars
        /\ Organisation!Init /\ [][Organisation!Next]_fleetVars
<1>1. ServicesInit => /\ Init /\ Notices!Init /\ Cache!Init /\ Syncs!Init
                      /\ Sessions!Init /\ Operations!Init /\ Organisation!Init
  BY DEF ServicesInit
<1>2. [ServicesNext]_allVars =>
         /\ [Next]_vars
         /\ [Notices!Next]_noticeVars
         /\ [Cache!Next]_cacheVars
         /\ [Syncs!Next]_syncVars
         /\ [Sessions!Next]_sessionVars
         /\ [Operations!Next]_tripVars
         /\ [Organisation!Next]_fleetVars
  BY DEF ServicesNext, allVars, InMemberships, InNotices, InCache, InSyncs, InSessions,
         InOperations, InFleet
<1> QED
  BY <1>1, <1>2, PTL DEF ServicesSafety
-----------------------------------------------------------------------------
(* The callers of the Cua Khau So synchronisation *)

\* A run that is not exposed has the lock for its process.
LockInv ==
    \A f \in Syncs!Flows : Syncs!InRun(f) /\ f \notin exposed => live /\ owner = Host[f]

SyncInv == Syncs!TypeOK /\ LockInv

\* A caller that ends keeps the types of its circuit and its job.
LEMMA SyncEnds ==
    ASSUME Syncs!TypeOK, NEW f \in Syncs!Flows, NEW ok \in BOOLEAN, Syncs!Ends(f, ok)
    PROVE  /\ circuit' \in [Pollers -> {"CLOSED", "OPEN", "RESTED", "HALF_OPEN"}]
           /\ misses' \in [Pollers -> 0..Syncs!circuitFailureThreshold]
           /\ orgJob' \in {"none", "waiting", "active", "remembered"}
           /\ timers' \subseteq Syncs!Processes
           /\ readFailures' \in [Syncs!Flows -> 0..MaxFailures]
           /\ at' = [at EXCEPT ![f] = "idle"]
<1> USE DEF Syncs!TypeOK, Syncs!Ends
<1>1. MaxFailures \in Nat
  BY ServicesAssumption DEF Syncs!RunsAssumption
<1>2. CASE f \in Pollers
  BY <1>1, <1>2 DEF Syncs!onPollSuccess, Syncs!onPollFailure, Syncs!Goes,
     Syncs!circuitFailureThreshold
<1>3. CASE f \notin Pollers
  BY <1>1, <1>3 DEF Syncs!Goes
<1> QED
  BY <1>2, <1>3

LEMMA SyncTypeStep ==
    ASSUME Syncs!TypeOK, [Syncs!Next]_syncVars
    PROVE  Syncs!TypeOK'
<1> USE DEF Syncs!account, Syncs!lock, Syncs!callers, Syncs!Goes
<1>0. /\ MaxFailures \in Nat /\ MaxFaults \in Nat
      /\ 0 \in 0..MaxFailures /\ MaxFailures \in 0..MaxFailures
  BY ServicesAssumption DEF Syncs!RunsAssumption
<1>a. Pollers \union Workers \union Callers = Syncs!Flows
      /\ \A f \in Syncs!Flows : Host[f] \in Syncs!Processes
  BY DEF Syncs!Flows, Syncs!Processes
<1>1. CASE \/ Syncs!LeaseExpires \/ Syncs!BackoffEnds \/ Syncs!ThrottleEnds
           \/ Syncs!upsertIntegrationAccount \/ Syncs!Enqueue \/ Syncs!Forget
  <2>1. CASE Syncs!LeaseExpires
    BY <2>1 DEF Syncs!TypeOK, Syncs!LeaseExpires
  <2>2. CASE Syncs!BackoffEnds
    BY <2>2 DEF Syncs!TypeOK, Syncs!BackoffEnds
  <2>3. CASE Syncs!ThrottleEnds
    BY <2>3 DEF Syncs!TypeOK, Syncs!ThrottleEnds
  <2>4. CASE Syncs!upsertIntegrationAccount
    BY <1>0, <2>4 DEF Syncs!TypeOK, Syncs!upsertIntegrationAccount
  <2>5. CASE Syncs!Enqueue \/ Syncs!Forget
    BY <2>5 DEF Syncs!TypeOK, Syncs!Enqueue, Syncs!Forget
  <2> QED
    BY <1>1, <2>1, <2>2, <2>3, <2>4, <2>5
<1>2. ASSUME NEW f \in Pollers, Syncs!Poll(f) \/ Syncs!CircuitRests(f)
      PROVE  Syncs!TypeOK'
  BY <1>0, <1>a, <1>2 DEF Syncs!TypeOK, Syncs!Poll, Syncs!CircuitRests, Syncs!onPollSuccess,
     Syncs!circuitFailureThreshold
<1>3. ASSUME NEW f \in Syncs!Flows,
             Syncs!Deliver(f) \/ Syncs!UserCalls(f) \/ Syncs!TimerFires(f)
      PROVE  Syncs!TypeOK'
  BY <1>0, <1>3 DEF Syncs!TypeOK, Syncs!Deliver, Syncs!UserCalls, Syncs!TimerFires
<1>4. ASSUME NEW f \in Syncs!Flows, Syncs!Step(f)
      PROVE  Syncs!TypeOK'
  <2>1. CASE Syncs!acquireSyncLock(f)
    BY <1>0, <1>a, <2>1, SyncEnds DEF Syncs!TypeOK, Syncs!acquireSyncLock
  <2>2. CASE \/ Syncs!CreateRow(f) \/ Syncs!Work(f) \/ Syncs!markAccountSyncSuccess(f)
             \/ Syncs!ReadFailures(f) \/ Syncs!WriteFailure(f)
    <3>1. CASE Syncs!CreateRow(f) \/ Syncs!Work(f)
      BY <3>1 DEF Syncs!TypeOK, Syncs!CreateRow, Syncs!Work
    <3>2. CASE Syncs!markAccountSyncSuccess(f)
      BY <1>0, <3>2 DEF Syncs!TypeOK, Syncs!markAccountSyncSuccess
    <3>3. CASE Syncs!ReadFailures(f)
      BY <3>3 DEF Syncs!TypeOK, Syncs!ReadFailures
    <3>4. CASE Syncs!WriteFailure(f)
      BY <1>0, <3>4 DEF Syncs!TypeOK, Syncs!WriteFailure
    <3> QED
      BY <2>2, <3>1, <3>2, <3>3, <3>4
  <2>3. CASE Syncs!releaseSyncLock(f)
    <3>1. Syncs!Ends(f, at[f] = "release") /\ (at[f] = "release") \in BOOLEAN
      BY <2>3 DEF Syncs!releaseSyncLock
    <3>2. owner' \in Syncs!Processes \union {NoOne, Former} /\ live' \in BOOLEAN
          /\ exposed' \subseteq Syncs!Flows
      BY <2>3 DEF Syncs!releaseSyncLock, Syncs!TypeOK
    <3> QED
      BY <2>3, <3>1, <3>2, SyncEnds DEF Syncs!TypeOK, Syncs!releaseSyncLock
  <2> QED
    BY <1>4, <2>1, <2>2, <2>3 DEF Syncs!Step
<1>5. ASSUME NEW f \in Syncs!Flows, Syncs!CallFails(f)
      PROVE  Syncs!TypeOK'
  <2>0. /\ faults < MaxFaults /\ faults' = faults + 1
        /\ exposed' = exposed \ {f} \/ exposed' = exposed
        /\ UNCHANGED <<failures, backoff, owner, live, recent>>
    BY <1>5 DEF Syncs!CallFails
  <2>1. /\ faults' \in 0..MaxFaults /\ exposed' \subseteq Syncs!Flows
        /\ UNCHANGED <<failures, backoff, owner, live, recent>>
    <3>1. faults' \in 0..MaxFaults
      BY <1>0, <2>0 DEF Syncs!TypeOK
    <3> QED
      BY <2>0, <3>1 DEF Syncs!TypeOK
  <2>2. CASE Syncs!Ends(f, FALSE)
    BY <2>1, <2>2, SyncEnds DEF Syncs!TypeOK
  <2>3. CASE ~ Syncs!Ends(f, FALSE)
    <3>1. /\ at' = [at EXCEPT ![f] = "read"] \/ at' = [at EXCEPT ![f] = "releaseFailed"]
          /\ UNCHANGED <<readFailures, circuit, misses, orgJob, timers>>
      BY <1>5, <2>3 DEF Syncs!CallFails
    <3> QED
      BY <2>1, <3>1 DEF Syncs!TypeOK
  <2> QED
    BY <2>2, <2>3
<1>6. ASSUME NEW p \in Syncs!Processes, Syncs!Crash(p) \/ Syncs!EnqueueFails(p)
      PROVE  Syncs!TypeOK'
  BY <1>0, <1>6 DEF Syncs!TypeOK, Syncs!Crash, Syncs!EnqueueFails, Syncs!circuitFailureThreshold
<1>7. CASE UNCHANGED syncVars
  BY <1>7 DEF Syncs!TypeOK, syncVars, Syncs!InRun
<1> QED
  <2>1. CASE Syncs!Next
    <3>1. Pollers \subseteq Syncs!Flows /\ Workers \subseteq Syncs!Flows
          /\ Callers \subseteq Syncs!Flows
      BY <1>a
    <3>2. CASE \/ Syncs!LeaseExpires \/ Syncs!BackoffEnds \/ Syncs!ThrottleEnds
               \/ Syncs!upsertIntegrationAccount \/ Syncs!Enqueue \/ Syncs!Forget
      BY <1>1, <3>2
    <3>3. CASE \E f \in Pollers : Syncs!Poll(f) \/ Syncs!CircuitRests(f)
      BY <1>2, <3>3
    <3>4. CASE \/ \E f \in Workers : Syncs!Deliver(f)
               \/ \E f \in Callers : Syncs!UserCalls(f) \/ Syncs!TimerFires(f)
      BY <1>3, <3>1, <3>4
    <3>5. CASE \/ \E f \in Syncs!Flows : Syncs!Step(f) \/ Syncs!CallFails(f)
               \/ \E p \in Syncs!Processes : Syncs!Crash(p) \/ Syncs!EnqueueFails(p)
      BY <1>4, <1>5, <1>6, <3>5
    <3> QED
      BY <2>1, <3>2, <3>3, <3>4, <3>5 DEF Syncs!Next
  <2> QED
    BY <1>7, <2>1

\* What a step does to the runs and to the lock.
LEMMA LockStep ==
    ASSUME Syncs!TypeOK, LockInv, [Syncs!Next]_syncVars
    PROVE  LockInv'
<1> USE DEF Syncs!account, Syncs!lock, Syncs!callers, Syncs!Goes, Syncs!InRun
<1>0. at \in [Syncs!Flows -> {"idle", "acquire", "create", "work", "success", "read",
                             "write", "release", "releaseFailed"}]
  BY DEF Syncs!TypeOK
<1>a. Pollers \union Workers \union Callers = Syncs!Flows
  BY DEF Syncs!Flows
<1> SUFFICES ASSUME NEW g \in Syncs!Flows, Syncs!InRun(g)', g \notin exposed'
             PROVE  live' /\ owner' = Host[g]
  BY DEF LockInv
<1>b. Syncs!InRun(g) /\ g \notin exposed => live /\ owner = Host[g]
  BY DEF LockInv
<1>1. CASE \/ Syncs!LeaseExpires \/ Syncs!BackoffEnds \/ Syncs!ThrottleEnds
           \/ Syncs!upsertIntegrationAccount \/ Syncs!Enqueue \/ Syncs!Forget
  BY <1>b, <1>1 DEF Syncs!LeaseExpires, Syncs!BackoffEnds, Syncs!ThrottleEnds,
     Syncs!upsertIntegrationAccount, Syncs!Enqueue, Syncs!Forget
<1>2. ASSUME NEW f \in Syncs!Flows,
             \/ Syncs!Poll(f) \/ Syncs!CircuitRests(f) \/ Syncs!Deliver(f)
             \/ Syncs!UserCalls(f) \/ Syncs!TimerFires(f)
      PROVE  live' /\ owner' = Host[g]
  BY <1>0, <1>b, <1>2 DEF Syncs!Poll, Syncs!CircuitRests, Syncs!Deliver, Syncs!UserCalls,
     Syncs!TimerFires
<1>3. ASSUME NEW f \in Syncs!Flows, Syncs!Step(f)
      PROVE  live' /\ owner' = Host[g]
  <2>1. CASE Syncs!acquireSyncLock(f)
    <3>1. CASE Syncs!LockFree(Host[f])
      BY <1>0, <1>b, <2>1, <3>1 DEF Syncs!acquireSyncLock, Syncs!LockFree
    <3>2. CASE ~ Syncs!LockFree(Host[f])
      BY <1>0, <1>b, <2>1, <3>2 DEF Syncs!acquireSyncLock, Syncs!Ends
    <3> QED
      BY <3>1, <3>2
  <2>2. CASE \/ Syncs!CreateRow(f) \/ Syncs!Work(f) \/ Syncs!markAccountSyncSuccess(f)
             \/ Syncs!ReadFailures(f) \/ Syncs!WriteFailure(f)
    BY <1>0, <1>b, <2>2 DEF Syncs!CreateRow, Syncs!Work, Syncs!markAccountSyncSuccess,
       Syncs!ReadFailures, Syncs!WriteFailure
  <2>3. CASE Syncs!releaseSyncLock(f)
    <3>1. g # f /\ Syncs!InRun(g)
      BY <1>0, <2>3 DEF Syncs!releaseSyncLock, Syncs!Ends
    <3> QED
      BY <1>b, <2>3, <3>1 DEF Syncs!releaseSyncLock
  <2> QED
    BY <1>3, <2>1, <2>2, <2>3 DEF Syncs!Step
<1>4. ASSUME NEW f \in Syncs!Flows, Syncs!CallFails(f)
      PROVE  live' /\ owner' = Host[g]
  BY <1>0, <1>b, <1>4 DEF Syncs!CallFails, Syncs!Ends
<1>5. ASSUME NEW p \in Syncs!Processes, Syncs!Crash(p) \/ Syncs!EnqueueFails(p)
      PROVE  live' /\ owner' = Host[g]
  BY <1>0, <1>b, <1>5 DEF Syncs!Crash, Syncs!EnqueueFails
<1>6. CASE UNCHANGED syncVars
  BY <1>b, <1>6 DEF syncVars
<1> QED
  BY <1>a, <1>1, <1>2, <1>3, <1>4, <1>5, <1>6 DEF Syncs!Next

LEMMA SyncInvariance == ServicesSafety => []SyncInv
<1>1. Syncs!Init => SyncInv
  <2> SUFFICES ASSUME Syncs!Init PROVE Syncs!TypeOK /\ LockInv
    BY DEF SyncInv
  <2>1. 0 \in 0..MaxFailures /\ 0 \in 0..MaxFaults /\ 0 \in 0..3
    BY ServicesAssumption DEF Syncs!RunsAssumption
  <2>2. Syncs!TypeOK
    BY <2>1 DEF Syncs!Init, Syncs!TypeOK, Syncs!circuitFailureThreshold
  <2> QED
    BY <2>2 DEF Syncs!Init, LockInv, Syncs!InRun
<1>2. SyncInv /\ [Syncs!Next]_syncVars => SyncInv'
  BY SyncTypeStep, LockStep DEF SyncInv
<1> QED
  BY <1>1, <1>2, EachAlone, PTL

\* Two processes synchronise the account at once only if a run has outlived the
\* lease that acquireSyncLock took, or another run of its process, which
\* acquireSyncLock lets in, has released the lock for both
\* (cua-khau-so.service.ts:819-858).
THEOREM OverlapExposed == ServicesSafety => []ForeignRunsOverlapOnlyExposed
<1>1. SyncInv => ForeignRunsOverlapOnlyExposed
  BY DEF SyncInv, LockInv, ForeignRunsOverlapOnlyExposed, Syncs!ForeignRunsOverlapOnlyExposed
<1> QED
  BY <1>1, SyncInvariance, PTL
-----------------------------------------------------------------------------
(* Drivers and vehicles *)

\* A call about to set a default driver has checked that it is there, unless a
\* deletion has come in between; one about to attach an upload has its event.
CallsInv ==
    /\ errand \in [Errands -> Organisation!Pending]
    /\ \A c \in Errands :
          /\ errand[c].does \in {"createVehicle", "updateVehicle"} =>
                errand[c].driver = NoOne \/ driver[errand[c].driver] = "live"
                  \/ errand[c].overtaken
          /\ Organisation!Does(c, "createMedia") => event[errand[c].upload]

FleetInv == Organisation!TypeOK /\ CallsInv /\ Organisation!FleetHoldsTogether

\* The fields of a request.
LEMMA RequestFields ==
    ASSUME NEW r \in Organisation!Pending
    PROVE  /\ r.does \in {"createDriver", "updateDriver"} => r.user \in People \union {NoOne}
           /\ r.does \in {"updateDriver", "deleteDriver"} => r.driver \in Drivers
           /\ r.does \in {"createVehicle", "updateVehicle"} =>
                 /\ r.driver \in Drivers \union {NoOne} /\ r.overtaken \in BOOLEAN
                 /\ [r EXCEPT !.overtaken = TRUE] \in Organisation!Pending
                 /\ [r EXCEPT !.overtaken = TRUE].does = r.does
                 /\ [r EXCEPT !.overtaken = TRUE].driver = r.driver
                 /\ [r EXCEPT !.overtaken = TRUE].overtaken
           /\ r.does \in {"createVehicle", "updateVehicle", "deleteVehicle"} =>
                 r.vehicle \in Vehicles
           /\ r.does = "createTrip" =>
                 r.trip \in Journeys /\ r.refs \in Organisation!Refs /\ r.crew \in SUBSET People
           /\ r.does \in {"createEvent", "createMedia"} =>
                 r.upload \in Organisation!Uploads
           /\ r.does = "createEvent" =>
                 /\ [r EXCEPT !.does = "createMedia"] \in Organisation!Pending
                 /\ [r EXCEPT !.does = "createMedia"].does = "createMedia"
                 /\ [r EXCEPT !.does = "createMedia"].upload = r.upload
<1>1. CASE r.does \in {"createVehicle", "updateVehicle"}
  <2>1. r \in [does : {"createVehicle", "updateVehicle"}, vehicle : Vehicles,
               driver : Drivers \union {NoOne}, overtaken : BOOLEAN]
    BY <1>1 DEF Organisation!Pending, Organisation!Idle
  <2>2. [r EXCEPT !.overtaken = TRUE]
          \in [does : {"createVehicle", "updateVehicle"}, vehicle : Vehicles,
               driver : Drivers \union {NoOne}, overtaken : BOOLEAN]
    BY <2>1
  <2> QED
    BY <1>1, <2>1, <2>2 DEF Organisation!Pending
<1>2. CASE r.does \in {"createEvent", "createMedia"}
  <2>1. r \in [does : {"createEvent", "createMedia"}, upload : Organisation!Uploads]
    BY <1>2 DEF Organisation!Pending, Organisation!Idle
  <2>2. [r EXCEPT !.does = "createMedia"]
          \in [does : {"createEvent", "createMedia"}, upload : Organisation!Uploads]
    BY <2>1
  <2> QED
    BY <1>2, <2>1, <2>2 DEF Organisation!Pending
<1>3. CASE r.does \notin {"createVehicle", "updateVehicle", "createEvent", "createMedia"}
  BY <1>3 DEF Organisation!Pending, Organisation!Idle
<1> QED
  BY <1>1, <1>2, <1>3

\* A call that begins with a request of its own, and one that ends without a write.
LEMMA AskedOrEnded ==
    ASSUME FleetInv, NEW c \in Errands, NEW request \in Organisation!Pending,
           errand' = [errand EXCEPT ![c] = request], Organisation!rows' = Organisation!rows,
           ~ Organisation!Does(c, "createMedia"), request.does # "createMedia",
           request.does \in {"createVehicle", "updateVehicle"} =>
              request.driver = NoOne \/ driver[request.driver] = "live"
    PROVE  FleetInv'
<1> USE DEF FleetInv
<1>1. \A x \in Errands : errand'[x] = IF x = c THEN request ELSE errand[x]
  BY DEF CallsInv
<1>2. UNCHANGED <<duties, driver, linked, vehicle, default, trip, refs, crew, event, media,
                  strayed, cut, losses>>
  BY DEF Organisation!rows, Organisation!drivers, Organisation!vehicles,
     Organisation!trips, Organisation!uploads
<1>3. Organisation!TypeOK'
  BY <1>1, <1>2 DEF Organisation!TypeOK
<1>4. CallsInv'
  BY <1>1, <1>2 DEF CallsInv, Organisation!Does
<1>5. Organisation!FleetHoldsTogether'
  BY <1>1, <1>2 DEF Organisation!FleetHoldsTogether, Organisation!DanglingOnlyByRace,
     Organisation!UploadsAreAttached, Organisation!Does
<1> QED
  BY <1>3, <1>4, <1>5

LEMMA FleetChecks ==
    ASSUME FleetInv, NEW c \in Errands,
           \/ Organisation!CheckDriver(c) \/ Organisation!CheckDeleteDriver(c)
           \/ Organisation!CheckVehicle(c) \/ Organisation!CheckDeleteVehicle(c)
           \/ Organisation!CheckTrip(c) \/ Organisation!CheckUpload(c)
           \/ Organisation!DriverConflicts(c) \/ Organisation!VehicleConflicts(c)
           \/ Organisation!TripConflicts(c)
    PROVE  FleetInv'
<1> USE DEF Organisation!Asks, Organisation!Pending
<1>0. Organisation!Does(c, "nothing") => ~ Organisation!Does(c, "createMedia")
  BY DEF Organisation!Does
<1>1. CASE Organisation!CheckDriver(c)
  <2>1. PICK u \in People \union {NoOne} :
           \/ Organisation!Asks(c, [does |-> "createDriver", user |-> u])
           \/ \E d \in Organisation!LiveDrivers :
                 Organisation!Asks(c, [does |-> "updateDriver", driver |-> d, user |-> u])
    BY <1>1 DEF Organisation!CheckDriver
  <2>2. CASE Organisation!Asks(c, [does |-> "createDriver", user |-> u])
    <3>1. [does |-> "createDriver", user |-> u] \in Organisation!Pending
      OBVIOUS
    <3> HIDE DEF Organisation!Pending
    <3> QED
      BY <1>0, <1>1, <2>2, <3>1, AskedOrEnded DEF Organisation!CheckDriver
  <2>3. CASE \E d \in Organisation!LiveDrivers :
                Organisation!Asks(c, [does |-> "updateDriver", driver |-> d, user |-> u])
    <3>1. PICK d \in Drivers :
             Organisation!Asks(c, [does |-> "updateDriver", driver |-> d, user |-> u])
      BY <2>3 DEF Organisation!LiveDrivers
    <3>2. [does |-> "updateDriver", driver |-> d, user |-> u] \in Organisation!Pending
      OBVIOUS
    <3> HIDE DEF Organisation!Pending
    <3> QED
      BY <1>0, <1>1, <3>1, <3>2, AskedOrEnded DEF Organisation!CheckDriver
  <2> QED
    BY <2>1, <2>2, <2>3
<1>2. CASE Organisation!CheckDeleteDriver(c) \/ Organisation!CheckDeleteVehicle(c)
  <2>1. /\ \A d \in Drivers :
              [does |-> "deleteDriver", driver |-> d] \in Organisation!Pending
        /\ \A v \in Vehicles :
              [does |-> "deleteVehicle", vehicle |-> v] \in Organisation!Pending
    OBVIOUS
  <2> HIDE DEF Organisation!Pending
  <2>2. CASE Organisation!CheckDeleteDriver(c)
    BY <1>0, <2>1, <2>2, AskedOrEnded DEF Organisation!CheckDeleteDriver,
       Organisation!LiveDrivers
  <2>3. CASE Organisation!CheckDeleteVehicle(c)
    BY <1>0, <2>1, <2>3, AskedOrEnded DEF Organisation!CheckDeleteVehicle,
       Organisation!LiveVehicles
  <2> QED
    BY <1>2, <2>2, <2>3
<1>3. CASE Organisation!CheckVehicle(c)
  <2>1. PICK v \in Vehicles, d \in Organisation!LiveDrivers \union {NoOne},
             does \in {"createVehicle", "updateVehicle"} :
           Organisation!Asks(c, [does |-> does, vehicle |-> v, driver |-> d,
                                 overtaken |-> FALSE])
    BY <1>3 DEF Organisation!CheckVehicle
  <2>2. d \in Drivers \union {NoOne} /\ (d = NoOne \/ driver[d] = "live")
    BY DEF Organisation!LiveDrivers
  <2>3. [does |-> does, vehicle |-> v, driver |-> d, overtaken |-> FALSE]
          \in Organisation!Pending
    BY <2>2
  <2> QED
    BY <1>0, <1>3, <2>1, <2>2, <2>3, AskedOrEnded DEF Organisation!CheckVehicle
<1>4. CASE Organisation!CheckTrip(c)
  <2>1. PICK t \in Journeys, v \in Organisation!LiveVehicles \union {NoOne},
             d \in Organisation!LiveDrivers \union {NoOne} :
           Organisation!Asks(c, [does |-> "createTrip", trip |-> t,
                                 refs |-> [vehicle |-> v, driver |-> d],
                                 crew |-> IF d = NoOne THEN {} ELSE {linked[d]} \ {NoOne}])
    BY <1>4 DEF Organisation!CheckTrip
  <2>2. /\ v \in Vehicles \union {NoOne} /\ d \in Drivers \union {NoOne}
        /\ (IF d = NoOne THEN {} ELSE {linked[d]} \ {NoOne}) \in SUBSET People
    BY DEF Organisation!LiveDrivers, Organisation!LiveVehicles, FleetInv, Organisation!TypeOK
  <2>3. [does |-> "createTrip", trip |-> t, refs |-> [vehicle |-> v, driver |-> d],
         crew |-> IF d = NoOne THEN {} ELSE {linked[d]} \ {NoOne}] \in Organisation!Pending
    BY <2>2 DEF Organisation!Refs
  <2> QED
    BY <1>0, <1>4, <2>1, <2>3, AskedOrEnded DEF Organisation!CheckTrip
<1>5. CASE Organisation!CheckUpload(c)
  <2>1. PICK t \in Journeys, f \in Files :
           Organisation!Asks(c, [does |-> "createEvent", upload |-> <<t, f>>])
    BY <1>5 DEF Organisation!CheckUpload
  <2>2. [does |-> "createEvent", upload |-> <<t, f>>] \in Organisation!Pending
    BY DEF Organisation!Uploads
  <2> HIDE DEF Organisation!Pending
  <2> QED
    BY <1>0, <1>5, <2>1, <2>2, AskedOrEnded DEF Organisation!CheckUpload
<1>6. CASE \/ Organisation!DriverConflicts(c) \/ Organisation!VehicleConflicts(c)
           \/ Organisation!TripConflicts(c)
  BY <1>6, AskedOrEnded DEF Organisation!DriverConflicts, Organisation!VehicleConflicts,
     Organisation!TripConflicts, Organisation!Ends, Organisation!Does, Organisation!Idle
<1> QED
  BY <1>1, <1>2, <1>3, <1>4, <1>5, <1>6

LEMMA DriverWrites ==
    ASSUME FleetInv, NEW c \in Errands,
           Organisation!WriteDriver(c) \/ Organisation!DeleteDriver(c)
    PROVE  FleetInv'
<1> USE DEF FleetInv, Organisation!Does
<1>0. errand[c] \in Organisation!Pending /\ Organisation!Idle \in Organisation!Pending
  BY DEF CallsInv, Organisation!Pending
<1>1. CASE Organisation!WriteDriver(c)
  <2>1. \A x \in Errands :
           errand'[x] = IF x = c THEN Organisation!Idle ELSE errand[x]
    BY <1>1 DEF Organisation!WriteDriver, Organisation!Ends, CallsInv
  <2>2. errand' \in [Errands -> Organisation!Pending] /\ errand[c].does # "createMedia"
    BY <1>0, <1>1 DEF Organisation!WriteDriver, Organisation!Ends, CallsInv
  <2>3. /\ driver' \in [Drivers -> Organisation!Rows]
        /\ linked' \in [Drivers -> People \union {NoOne}]
        /\ \A d \in Drivers : driver[d] = "live" => driver'[d] = "live"
    <3>1. /\ errand[c].does \in {"createDriver", "updateDriver"} =>
                errand[c].user \in People \union {NoOne}
          /\ errand[c].does = "updateDriver" => errand[c].driver \in Drivers
      BY <1>0, RequestFields
    <3> QED
      BY <1>1, <3>1 DEF Organisation!WriteDriver, Organisation!TypeOK, Organisation!Rows
  <2>4. UNCHANGED <<duties, vehicle, default, trip, refs, crew, event, media, strayed, cut,
                    losses>>
    BY <1>1 DEF Organisation!WriteDriver, Organisation!vehicles, Organisation!trips,
       Organisation!uploads
  <2>5. Organisation!TypeOK'
    BY <2>2, <2>3, <2>4 DEF Organisation!TypeOK
  <2>6. CallsInv'
    <3>1. \A x \in Errands : errand[x].does \in {"createVehicle", "updateVehicle"} =>
             errand[x].driver \in Drivers \union {NoOne}
      BY RequestFields DEF CallsInv
    <3> QED
      BY <2>1, <2>2, <2>3, <2>4, <3>1 DEF CallsInv, Organisation!Idle
  <2>7. Organisation!FleetHoldsTogether'
    BY <2>1, <2>2, <2>3, <2>4 DEF Organisation!FleetHoldsTogether, Organisation!TypeOK,
       Organisation!DanglingOnlyByRace, Organisation!UploadsAreAttached
  <2> QED
    BY <2>5, <2>6, <2>7
<1>2. CASE Organisation!DeleteDriver(c)
  <2> DEFINE d == errand[c].driver
  <2>0. errand[c].does = "deleteDriver" /\ d \in Drivers
    BY <1>0, <1>2, RequestFields DEF Organisation!DeleteDriver
  <2>1. \A x \in Errands :
           errand'[x] = IF x = c THEN Organisation!Idle
                        ELSE IF errand[x].does \in {"createVehicle", "updateVehicle"}
                                  /\ errand[x].driver = d
                               THEN [errand[x] EXCEPT !.overtaken = TRUE]
                               ELSE errand[x]
    BY <1>2 DEF Organisation!DeleteDriver, Organisation!Overtake
  <2> DEFINE marked(x) == [errand[x] EXCEPT !.overtaken = TRUE]
  <2>a. \A x \in Errands :
           /\ errand[x] \in Organisation!Pending
           /\ errand[x].does \in {"createVehicle", "updateVehicle"} =>
                 /\ errand[x].driver \in Drivers \union {NoOne}
                 /\ marked(x) \in Organisation!Pending /\ marked(x).does = errand[x].does
                 /\ marked(x).overtaken
    BY RequestFields DEF CallsInv
  <2>b. \A x \in Errands :
           errand'[x] = IF x = c THEN Organisation!Idle
                        ELSE IF errand[x].does \in {"createVehicle", "updateVehicle"}
                                  /\ errand[x].driver = d
                               THEN marked(x) ELSE errand[x]
    BY <2>1
  <2> HIDE DEF marked
  <2>c. Organisation!Idle.does = "nothing"
    BY DEF Organisation!Idle
  <2>2. errand' \in [Errands -> Organisation!Pending]
    <3>1. \A x \in Errands : errand'[x] \in Organisation!Pending
      BY <1>0, <2>a, <2>b
    <3>2. \E f : errand' = [x \in Errands |-> f[x]]
      <4> DEFINE g == Organisation!Overtake(errand, d)
      <4>1. g = [x \in Errands |-> g[x]]
        BY DEF Organisation!Overtake
      <4>2. errand' = [g EXCEPT ![c] = Organisation!Idle]
        BY <1>2 DEF Organisation!DeleteDriver
      <4> HIDE DEF g
      <4> DEFINE h == [g EXCEPT ![c] = Organisation!Idle]
      <4>3. h = [x \in Errands |-> h[x]]
        BY <4>1
      <4> QED
        BY <4>2, <4>3
    <3> QED
      BY <3>1, <3>2
  <2>3. /\ driver' \in [Drivers -> Organisation!Rows]
        /\ \A e \in Drivers : driver'[e] = IF e = d THEN "deleted" ELSE driver[e]
    BY <1>2, <2>0 DEF Organisation!DeleteDriver, Organisation!TypeOK, Organisation!Rows
  <2>4. /\ default' \in [Vehicles -> Drivers \union {NoOne}]
        /\ \A v \in Vehicles : default'[v] = IF default[v] = d /\ vehicle[v] = "live"
                                               THEN NoOne ELSE default[v]
        /\ strayed' = strayed \ {v \in Vehicles : default'[v] = NoOne}
    BY <1>2 DEF Organisation!DeleteDriver, Organisation!TypeOK
  <2>5. UNCHANGED <<duties, linked, vehicle, trip, refs, crew, event, media, cut, losses>>
    BY <1>2 DEF Organisation!DeleteDriver, Organisation!trips, Organisation!uploads
  <2>6. Organisation!TypeOK'
    BY <2>2, <2>3, <2>4, <2>5 DEF Organisation!TypeOK
  <2>7. \A x \in Errands :
           /\ Organisation!Does(x, "createMedia")' <=> Organisation!Does(x, "createMedia")
           /\ Organisation!Does(x, "createMedia") => errand'[x] = errand[x]
    BY <2>0, <2>a, <2>b, <2>c
  <2>8. CallsInv'
    <3>1. ASSUME NEW x \in Errands,
                 errand'[x].does \in {"createVehicle", "updateVehicle"}
          PROVE  errand'[x].driver = NoOne \/ driver'[errand'[x].driver] = "live"
                    \/ errand'[x].overtaken
      <4>1. x # c
        BY <2>b, <2>c, <3>1
      <4>2. CASE errand[x].does \in {"createVehicle", "updateVehicle"} /\ errand[x].driver = d
        BY <2>a, <2>b, <4>1, <4>2
      <4>3. CASE ~ (errand[x].does \in {"createVehicle", "updateVehicle"}
                      /\ errand[x].driver = d)
        <5>1. errand'[x] = errand[x]
          BY <2>b, <4>1, <4>3
        <5>2. errand[x].driver \in Drivers \union {NoOne} /\ errand[x].driver # d
          BY <2>a, <3>1, <4>3, <5>1
        <5> QED
          BY <2>3, <3>1, <5>1, <5>2 DEF CallsInv
      <4> QED
        BY <4>2, <4>3
    <3> QED
      BY <2>2, <2>5, <2>7, <3>1 DEF CallsInv
  <2>9. Organisation!DanglingOnlyByRace'
    BY <2>3, <2>4, <2>5 DEF Organisation!FleetHoldsTogether, Organisation!TypeOK,
       Organisation!DanglingOnlyByRace
  <2>10. Organisation!UploadsAreAttached'
    BY <2>5, <2>7 DEF Organisation!FleetHoldsTogether, Organisation!UploadsAreAttached
  <2> QED
    BY <2>6, <2>8, <2>9, <2>10 DEF Organisation!FleetHoldsTogether
<1> QED
  BY <1>1, <1>2

LEMMA VehicleWrites ==
    ASSUME FleetInv, NEW c \in Errands,
           Organisation!WriteVehicle(c) \/ Organisation!DeleteVehicle(c)
    PROVE  FleetInv'
<1> DEFINE w == errand[c].vehicle
<1> USE DEF FleetInv, Organisation!Does
<1>0. errand[c] \in Organisation!Pending /\ Organisation!Idle \in Organisation!Pending
  BY DEF CallsInv, Organisation!Pending
<1>1. w \in Vehicles
  BY <1>0, RequestFields DEF Organisation!WriteVehicle, Organisation!DeleteVehicle
<1>2. /\ errand' = [errand EXCEPT ![c] = Organisation!Idle]
      /\ errand[c].does # "createMedia"
      /\ UNCHANGED <<duties, driver, linked, trip, refs, crew, event, media, cut, losses>>
  BY DEF Organisation!WriteVehicle, Organisation!DeleteVehicle, Organisation!Ends,
     Organisation!drivers, Organisation!trips, Organisation!uploads
<1>3. \A x \in Errands : errand'[x] = IF x = c THEN Organisation!Idle ELSE errand[x]
  BY <1>2 DEF CallsInv
<1>4. CallsInv'
  BY <1>0, <1>2, <1>3 DEF CallsInv, Organisation!Idle
<1>5. Organisation!UploadsAreAttached'
  BY <1>2, <1>3 DEF Organisation!FleetHoldsTogether, Organisation!UploadsAreAttached
<1>6. CASE Organisation!WriteVehicle(c)
  <2>1. /\ errand[c].does \in {"createVehicle", "updateVehicle"}
        /\ errand[c].driver \in Drivers \union {NoOne}
        /\ errand[c].overtaken \in BOOLEAN
    BY <1>0, <1>6, RequestFields DEF Organisation!WriteVehicle
  <2>2. /\ default' \in [Vehicles -> Drivers \union {NoOne}]
        /\ \A v \in Vehicles : default'[v] = IF v = w THEN errand[c].driver ELSE default[v]
        /\ strayed' = (strayed \ {w}) \union (IF errand[c].overtaken THEN {w} ELSE {})
        /\ strayed' \subseteq Vehicles
    BY <1>1, <1>6, <2>1 DEF Organisation!WriteVehicle, Organisation!TypeOK
  <2>3. /\ vehicle' \in [Vehicles -> Organisation!Rows]
        /\ \A v \in Vehicles : v # w => vehicle'[v] = vehicle[v]
    BY <1>1, <1>6 DEF Organisation!WriteVehicle, Organisation!TypeOK, Organisation!Rows
  <2>4. Organisation!TypeOK'
    BY <1>2, <1>4, <2>2, <2>3 DEF Organisation!TypeOK, CallsInv
  <2>5. Organisation!DanglingOnlyByRace'
    BY <1>2, <2>1, <2>2, <2>3 DEF Organisation!FleetHoldsTogether, CallsInv,
       Organisation!DanglingOnlyByRace
  <2> QED
    BY <1>4, <1>5, <2>4, <2>5 DEF Organisation!FleetHoldsTogether
<1>7. CASE Organisation!DeleteVehicle(c)
  <2>1. /\ vehicle' \in [Vehicles -> Organisation!Rows]
        /\ \A v \in Vehicles : vehicle'[v] = IF v = w THEN "deleted" ELSE vehicle[v]
        /\ UNCHANGED <<default, strayed>>
    BY <1>1, <1>7 DEF Organisation!DeleteVehicle, Organisation!TypeOK, Organisation!Rows
  <2>2. Organisation!TypeOK'
    BY <1>2, <1>4, <2>1 DEF Organisation!TypeOK, CallsInv
  <2>3. Organisation!DanglingOnlyByRace'
    BY <1>2, <2>1 DEF Organisation!FleetHoldsTogether, Organisation!DanglingOnlyByRace
  <2> QED
    BY <1>4, <1>5, <2>2, <2>3 DEF Organisation!FleetHoldsTogether
<1> QED
  BY <1>6, <1>7

LEMMA TripWrites ==
    ASSUME FleetInv,
           \/ \E c \in Errands : Organisation!WriteTrip(c)
           \/ \E t \in Journeys : Organisation!TripMoves(t)
    PROVE  FleetInv'
<1> USE DEF FleetInv, Organisation!Does
<1>1. CASE \E c \in Errands : Organisation!WriteTrip(c)
  <2>1. PICK c \in Errands : Organisation!WriteTrip(c)
    BY <1>1
  <2>2. errand[c] \in Organisation!Pending /\ Organisation!Idle \in Organisation!Pending
    BY DEF CallsInv, Organisation!Pending
  <2>3. /\ errand[c].trip \in Journeys /\ errand[c].refs \in Organisation!Refs
        /\ errand[c].crew \in SUBSET People /\ errand[c].does # "createMedia"
    BY <2>1, <2>2, RequestFields DEF Organisation!WriteTrip
  <2>4. /\ errand' = [errand EXCEPT ![c] = Organisation!Idle]
        /\ UNCHANGED <<duties, driver, linked, vehicle, default, event, media, strayed, cut,
                       losses>>
    BY <2>1 DEF Organisation!WriteTrip, Organisation!Ends, Organisation!drivers,
       Organisation!vehicles, Organisation!uploads
  <2>5. \A x \in Errands : errand'[x] = IF x = c THEN Organisation!Idle ELSE errand[x]
    BY <2>4 DEF CallsInv
  <2>6. CallsInv'
    BY <2>2, <2>4, <2>5 DEF CallsInv, Organisation!Idle
  <2>7. Organisation!TypeOK'
    <3>1. /\ trip' \in [Journeys -> {"none", "shown", "hidden"}]
          /\ refs' \in [Journeys -> Organisation!Refs]
          /\ crew' \in [Journeys -> SUBSET People]
      BY <2>1, <2>3 DEF Organisation!WriteTrip, Organisation!TypeOK
    <3> QED
      BY <2>4, <2>6, <3>1 DEF Organisation!TypeOK, CallsInv
  <2>8. Organisation!FleetHoldsTogether'
    BY <2>3, <2>4, <2>5 DEF Organisation!FleetHoldsTogether,
       Organisation!DanglingOnlyByRace, Organisation!UploadsAreAttached
  <2> QED
    BY <2>6, <2>7, <2>8
<1>2. CASE \E t \in Journeys : Organisation!TripMoves(t)
  <2>1. /\ trip' \in [Journeys -> {"none", "shown", "hidden"}]
        /\ UNCHANGED <<duties, driver, linked, vehicle, default, refs, crew, event, media,
                       errand, strayed, cut, losses>>
    BY <1>2 DEF Organisation!TripMoves, Organisation!TypeOK, Organisation!drivers,
       Organisation!vehicles, Organisation!uploads
  <2> QED
    BY <2>1 DEF CallsInv, Organisation!TypeOK, Organisation!FleetHoldsTogether,
       Organisation!DanglingOnlyByRace, Organisation!UploadsAreAttached
<1> QED
  BY <1>1, <1>2

LEMMA UploadWrites ==
    ASSUME FleetInv, NEW c \in Errands,
           \/ Organisation!RecordUpload(c) \/ Organisation!AttachUpload(c)
           \/ Organisation!Lose(c)
    PROVE  FleetInv'
<1> DEFINE u == errand[c].upload
<1> USE DEF FleetInv, Organisation!Does
<1>0. errand[c] \in Organisation!Pending /\ Organisation!Idle \in Organisation!Pending
      /\ MaxLosses \in Nat
  BY ServicesAssumption DEF CallsInv, Organisation!Pending, Organisation!FleetAssumption
<1>a. errand[c].does \in {"createEvent", "createMedia"} => u \in Organisation!Uploads
  BY <1>0, RequestFields
<1>b. /\ event \in [Organisation!Uploads -> BOOLEAN]
      /\ media \in [Organisation!Uploads -> 0..MaxMedia]
      /\ cut \subseteq Organisation!Uploads /\ losses \in 0..MaxLosses
  BY DEF Organisation!TypeOK
<1>c. UNCHANGED <<duties, driver, linked, vehicle, default, trip, refs, crew, strayed>>
  BY DEF Organisation!RecordUpload, Organisation!AttachUpload, Organisation!Lose,
     Organisation!drivers, Organisation!vehicles, Organisation!trips
<1>d. Organisation!DanglingOnlyByRace'
  BY <1>c DEF Organisation!FleetHoldsTogether, Organisation!DanglingOnlyByRace
<1>1. CASE Organisation!RecordUpload(c)
  <2> DEFINE next == [errand[c] EXCEPT !.does = "createMedia"]
  <2>1. /\ next \in Organisation!Pending /\ next.does = "createMedia" /\ next.upload = u
        /\ u \in Organisation!Uploads
    BY <1>0, <1>1, RequestFields DEF Organisation!RecordUpload
  <2>2. errand' = [errand EXCEPT ![c] = next]
    BY <1>1 DEF Organisation!RecordUpload
  <2> HIDE DEF next
  <2>3. /\ errand' \in [Errands -> Organisation!Pending]
        /\ \A x \in Errands : errand'[x] = IF x = c THEN next ELSE errand[x]
    BY <2>1, <2>2 DEF CallsInv
  <2>4. /\ event' \in [Organisation!Uploads -> BOOLEAN]
        /\ \A v \in Organisation!Uploads : event'[v] = IF v = u THEN TRUE ELSE event[v]
        /\ errand[c].does # "createMedia"
        /\ UNCHANGED <<media, cut, losses>>
    BY <1>1, <1>b, <2>1 DEF Organisation!RecordUpload
  <2>5. Organisation!TypeOK'
    BY <1>c, <2>3, <2>4 DEF Organisation!TypeOK
  <2>a. \A x \in Errands : Organisation!Does(x, "createMedia") =>
           errand[x].upload \in Organisation!Uploads
    BY RequestFields DEF CallsInv
  <2>6. CallsInv'
    BY <1>c, <2>1, <2>3, <2>4, <2>a DEF CallsInv
  <2>7. Organisation!UploadsAreAttached'
    <3>1. ASSUME NEW v \in Organisation!Uploads, event'[v], media'[v] = 0, v \notin cut'
          PROVE  \E x \in Errands : Organisation!Does(x, "createMedia")'
                                     /\ errand'[x].upload = v
      <4>1. CASE v = u
        BY <2>1, <2>3, <4>1
      <4>2. CASE v # u
        <5>1. PICK x \in Errands : errand[x].does = "createMedia" /\ errand[x].upload = v
          BY <2>4, <3>1, <4>2 DEF Organisation!FleetHoldsTogether,
             Organisation!UploadsAreAttached
        <5>2. errand'[x] = errand[x]
          BY <2>3, <2>4, <5>1
        <5> QED
          BY <5>1, <5>2
      <4> QED
        BY <4>1, <4>2
    <3>2. \A v \in Organisation!Uploads : media'[v] > 0 => event'[v]
      BY <2>4 DEF Organisation!FleetHoldsTogether, Organisation!UploadsAreAttached
    <3> QED
      BY <3>1, <3>2 DEF Organisation!UploadsAreAttached
  <2> QED
    BY <1>d, <2>5, <2>6, <2>7 DEF Organisation!FleetHoldsTogether
<1>2. CASE Organisation!AttachUpload(c) \/ Organisation!Lose(c)
  <2>1. /\ errand' = [errand EXCEPT ![c] = Organisation!Idle]
        /\ UNCHANGED event
    BY <1>2 DEF Organisation!AttachUpload, Organisation!Lose, Organisation!Ends,
       Organisation!uploads
  <2>2. /\ errand' \in [Errands -> Organisation!Pending]
        /\ \A x \in Errands : errand'[x] = IF x = c THEN Organisation!Idle ELSE errand[x]
    BY <1>0, <2>1 DEF CallsInv
  <2>3. CallsInv'
    BY <1>c, <2>1, <2>2 DEF CallsInv, Organisation!Idle
  <2>4. CASE Organisation!AttachUpload(c)
    <3>1. /\ errand[c].does = "createMedia" /\ u \in Organisation!Uploads /\ event[u]
          /\ media' = [media EXCEPT ![u] = @ + 1] /\ media[u] < MaxMedia
          /\ cut' = cut \ {u} /\ UNCHANGED losses
      BY <1>a, <2>4 DEF Organisation!AttachUpload, CallsInv
    <3>2. /\ media' \in [Organisation!Uploads -> 0..MaxMedia]
          /\ \A v \in Organisation!Uploads : v # u => media'[v] = media[v]
          /\ media'[u] > 0
      <4>1. MaxMedia \in Nat
        BY ServicesAssumption DEF Organisation!FleetAssumption
      <4> QED
        BY <1>b, <3>1, <4>1
    <3>3. Organisation!TypeOK'
      BY <1>c, <2>1, <2>2, <3>1, <3>2 DEF Organisation!TypeOK
    <3>4. Organisation!UploadsAreAttached'
      BY <1>b, <2>1, <2>2, <3>1, <3>2 DEF Organisation!FleetHoldsTogether,
         Organisation!UploadsAreAttached
    <3> QED
      BY <1>d, <2>3, <3>3, <3>4 DEF Organisation!FleetHoldsTogether
  <2>5. CASE Organisation!Lose(c)
    <3>1. /\ losses' \in 0..MaxLosses /\ UNCHANGED media
          /\ cut' = IF errand[c].does = "createMedia" /\ media[u] = 0
                      THEN cut \union {u} ELSE cut
      BY <1>0, <1>b, <2>5 DEF Organisation!Lose, Organisation!uploads
    <3>2. cut' \subseteq Organisation!Uploads
      BY <1>a, <1>b, <3>1
    <3>3. Organisation!TypeOK'
      BY <1>c, <2>1, <2>2, <3>1, <3>2 DEF Organisation!TypeOK
    <3>4. Organisation!UploadsAreAttached'
      BY <1>b, <2>1, <2>2, <3>1 DEF Organisation!FleetHoldsTogether,
         Organisation!UploadsAreAttached
    <3> QED
      BY <1>d, <2>3, <3>3, <3>4 DEF Organisation!FleetHoldsTogether
  <2> QED
    BY <1>2, <2>4, <2>5
<1> QED
  BY <1>1, <1>2

LEMMA FleetInvariance == ServicesSafety => []FleetInv
<1>1. Organisation!Init => FleetInv
  <2> SUFFICES ASSUME Organisation!Init PROVE FleetInv
    OBVIOUS
  <2> USE DEF Organisation!Init
  <2>1. MaxMedia \in Nat /\ MaxLosses \in Nat
    BY ServicesAssumption DEF Organisation!FleetAssumption
  <2>2. Organisation!Idle \in Organisation!Pending
    BY DEF Organisation!Pending
  <2>3. \A c \in Errands : errand[c] = Organisation!Idle /\ errand[c].does = "nothing"
    BY DEF Organisation!Idle
  <2>4. CallsInv
    BY <2>2, <2>3 DEF CallsInv, Organisation!Does
  <2>5. Organisation!TypeOK
    BY <2>1, <2>2 DEF Organisation!TypeOK, Organisation!Rows, Organisation!Refs
  <2>6. Organisation!FleetHoldsTogether
    BY <2>1 DEF Organisation!FleetHoldsTogether, Organisation!DanglingOnlyByRace,
       Organisation!UploadsAreAttached
  <2> QED
    BY <2>4, <2>5, <2>6 DEF FleetInv
<1>2. FleetInv /\ [Organisation!Next]_fleetVars => FleetInv'
  <2> SUFFICES ASSUME FleetInv, [Organisation!Next]_fleetVars PROVE FleetInv'
    OBVIOUS
  <2>1. CASE Organisation!Next
    <3>1. CASE \E c \in Errands :
                  \/ Organisation!CheckDriver(c) \/ Organisation!CheckDeleteDriver(c)
                  \/ Organisation!CheckVehicle(c) \/ Organisation!CheckDeleteVehicle(c)
                  \/ Organisation!CheckTrip(c) \/ Organisation!CheckUpload(c)
                  \/ Organisation!DriverConflicts(c) \/ Organisation!VehicleConflicts(c)
                  \/ Organisation!TripConflicts(c)
      BY <3>1, FleetChecks
    <3>2. CASE \E c \in Errands :
                  \/ Organisation!WriteDriver(c) \/ Organisation!DeleteDriver(c)
                  \/ Organisation!WriteVehicle(c) \/ Organisation!DeleteVehicle(c)
      BY <3>2, DriverWrites, VehicleWrites
    <3>3. CASE \/ \E c \in Errands : Organisation!WriteTrip(c)
               \/ \E t \in Journeys : Organisation!TripMoves(t)
      BY <3>3, TripWrites
    <3>4. CASE \E c \in Errands : \/ Organisation!RecordUpload(c)
                                  \/ Organisation!AttachUpload(c) \/ Organisation!Lose(c)
      BY <3>4, UploadWrites
    <3> QED
      BY <2>1, <3>1, <3>2, <3>3, <3>4 DEF Organisation!Next
  <2>2. CASE UNCHANGED fleetVars
    BY <2>2 DEF fleetVars, FleetInv, CallsInv, Organisation!TypeOK, Organisation!Does,
       Organisation!FleetHoldsTogether, Organisation!DanglingOnlyByRace,
       Organisation!UploadsAreAttached
  <2> QED
    BY <2>1, <2>2
<1> QED
  BY <1>1, <1>2, EachAlone, PTL

\* A vehicle in use has no deleted driver unless deleteDriver overtook the call that
\* had checked the driver and then set it, and an event that names an uploaded file has
\* its media row unless the upload was cut off between the two writes
\* (drivers.service.ts:414-456).
THEOREM FleetSound == ServicesSafety => []FleetHoldsTogether
<1>1. FleetInv => FleetHoldsTogether
  BY DEF FleetInv, FleetHoldsTogether
<1> QED
  BY <1>1, FleetInvariance, PTL
-----------------------------------------------------------------------------
(* Notifications *)

\* A call has a row in hand from its insertion to its outcome.
HandsInv ==
    \A c \in NoticeCalls :
        /\ call[c] \in {"new", "next", "done"} => hand[c] = Notices!NoRow
        /\ call[c] \in {"publish", "sent", "failed"} => hand[c] \in InApp
        /\ call[c] = "enqueue" => hand[c] \in External /\ rowStatus[hand[c]] # "NONE"
        /\ call[c] = "publish" => tries[c] < MaxPublishes

\* A job is of a row that was inserted, and has an attempt left until it ends; what
\* the row says is so.
JobsInv ==
    \A r \in External :
        /\ job[r] \in {"waiting", "active"} => attempts[r] < MaxAttempts
        /\ job[r] # "none" \/ taken[r] > 0 => rowStatus[r] # "NONE"
        /\ rowStatus[r] # "PENDING_IN_APP"
        /\ rowStatus[r] = "SENT" => taken[r] > 0
        /\ rowStatus[r] \in {"READ", "HIDDEN"} => r \in byUser

\* A worker that has lost its job's lock has torn the row; else it is alone with it.
SendersInv ==
    \A w \in Senders :
        /\ holds[w] => sender[w] # "idle" /\ job[task[w]] = "active"
        /\ sender[w] # "idle" =>
              /\ task[w] \in External /\ rowStatus[task[w]] # "NONE"
              /\ holds[w] \/ task[w] \in torn
        /\ sender[w] = "sent" => taken[task[w]] > 0
        /\ sender[w] = "send" => taken[task[w]] = 0 \/ task[w] \in torn

AloneInv ==
    \A w, v \in Senders :
        w # v /\ sender[w] # "idle" /\ sender[v] # "idle" /\ task[w] = task[v] =>
            /\ ~ (holds[w] /\ holds[v])
            /\ task[w] \in torn

\* A message the provider has taken does not wait to be sent, but for its outcome.
TakenInv ==
    \A r \in External :
        taken[r] > 0 /\ r \notin torn /\ rowStatus[r] = "PENDING" =>
            \E w \in Senders : sender[w] = "sent" /\ task[w] = r

NoticeInv ==
    /\ Notices!TypeOK /\ HandsInv /\ JobsInv /\ SendersInv /\ AloneInv /\ TakenInv
    /\ Notices!SentTwiceOnlyIfTorn /\ Notices!EndedJobIsAccountedFor
    /\ Notices!InAppIsSettled

\* What SMT needs of the constants.
LEMMA NoticeConstants ==
    /\ InApp \subseteq Notices!Rows /\ External \subseteq Notices!Rows
    /\ InApp \intersect External = {} /\ Notices!NoRow \notin Notices!Rows
    /\ Notices!Rows = InApp \union External
    /\ MaxPublishes \in Nat \ {0} /\ MaxAttempts \in Nat \ {0} /\ MaxTears \in Nat
  BY ServicesAssumption DEF Notices!NotificationsAssumption, Notices!Rows

\* A step outside the workers: rows are inserted, marked or get an outcome in the
\* app, jobs are added or forgotten, outcomes are lost.
LEMMA OutsideWorkers ==
    ASSUME NoticeInv, UNCHANGED <<sender, task, holds, taken, byUser>>,
           torn \subseteq torn', torn' \subseteq Notices!Rows,
           rowStatus' \in [Notices!Rows ->
              {"NONE", "PENDING_IN_APP", "PENDING", "SENT", "FAILED", "READ", "HIDDEN"}],
           marks' \subseteq marks,
           \A r \in marks \ marks' : r \in torn' \/ rowStatus'[r] = "FAILED",
           job' \in [External -> {"none", "waiting", "active", "completed", "failed"}],
           \A r \in External :
              \/ rowStatus'[r] \in {rowStatus[r], "FAILED"}
              \/ rowStatus[r] = "NONE" /\ rowStatus'[r] = "PENDING",
           \A r \in External :
              \/ job'[r] = job[r] /\ attempts'[r] = attempts[r]
              \/ job[r] \in {"completed", "failed"} /\ job'[r] = "none"
              \/ /\ job[r] = "none" /\ job'[r] = "waiting" /\ attempts'[r] = 0
                 /\ rowStatus[r] # "NONE"
    PROVE  /\ JobsInv' /\ SendersInv' /\ AloneInv' /\ TakenInv'
           /\ Notices!SentTwiceOnlyIfTorn' /\ Notices!EndedJobIsAccountedFor'
<1> USE DEF NoticeInv
<1>1. JobsInv'
  BY NoticeConstants DEF JobsInv
<1>2. SendersInv'
  BY DEF SendersInv
<1>3. AloneInv'
  BY DEF AloneInv
<1>4. TakenInv'
  BY DEF TakenInv, JobsInv
<1>5. Notices!SentTwiceOnlyIfTorn'
  BY DEF Notices!SentTwiceOnlyIfTorn
<1>6. Notices!EndedJobIsAccountedFor'
  BY DEF Notices!EndedJobIsAccountedFor, JobsInv
<1> QED
  BY <1>1, <1>2, <1>3, <1>4, <1>5, <1>6

\* queue.add.
LEMMA Added ==
    ASSUME Notices!TypeOK, NEW r \in External, Notices!Add(r)
    PROVE  /\ job' \in [External -> {"none", "waiting", "active", "completed", "failed"}]
           /\ attempts' \in [External -> 0..MaxAttempts]
           /\ stalled' \in [External -> BOOLEAN]
           /\ \A s \in External :
                 \/ job'[s] = job[s] /\ attempts'[s] = attempts[s]
                 \/ s = r /\ job[s] = "none" /\ job'[s] = "waiting" /\ attempts'[s] = 0
<1>1. 0 \in 0..MaxAttempts
  BY NoticeConstants
<1> QED
  BY <1>1 DEF Notices!TypeOK, Notices!Add, Notices!jobs

LEMMA Torn ==
    ASSUME Notices!TypeOK, NEW r, Notices!Tear(r)
    PROVE  /\ tears' \in 0..MaxTears /\ torn \subseteq torn' /\ torn' \subseteq Notices!Rows
           /\ r \in Notices!Rows => r \in torn'
           /\ UNCHANGED <<taken, byUser>>
<1>1. tears \in 0..MaxTears /\ MaxTears \in Nat
  BY NoticeConstants DEF Notices!TypeOK
<1>2. tears' \in 0..MaxTears
  BY <1>1 DEF Notices!Tear
<1> QED
  BY <1>2 DEF Notices!TypeOK, Notices!Tear

\* A call turns to a row.
LEMMA Turned ==
    ASSUME Notices!TypeOK, NEW c \in NoticeCalls, NEW place, NEW r,
           Notices!Turns(c, place, r)
    PROVE  /\ place \in {"new", "next", "publish", "sent", "failed", "enqueue", "done"} =>
                 call' \in [NoticeCalls -> {"new", "next", "publish", "sent", "failed",
                                            "enqueue", "done"}]
           /\ r \in Notices!Rows \union {Notices!NoRow} =>
                 hand' \in [NoticeCalls -> Notices!Rows \union {Notices!NoRow}]
           /\ tries' \in [NoticeCalls -> 0..MaxPublishes]
           /\ \A d \in NoticeCalls :
                 /\ call'[d] = IF d = c THEN place ELSE call[d]
                 /\ hand'[d] = IF d = c THEN r ELSE hand[d]
                 /\ tries'[d] = IF d = c THEN 0 ELSE tries[d]
<1>1. 0 \in 0..MaxPublishes
  BY NoticeConstants
<1> QED
  BY <1>1 DEF Notices!TypeOK, Notices!Turns

LEMMA OrchestratorSteps ==
    ASSUME NoticeInv, NEW c \in NoticeCalls,
           Notices!CallStep(c) \/ Notices!DispatchFails(c) \/ Notices!CallDies(c)
    PROVE  NoticeInv'
<1> USE DEF NoticeInv
<1>0. UNCHANGED <<rules, sender, task, holds, marks, taken, byUser>>
  BY DEF Notices!CallStep, Notices!DispatchFails, Notices!CallDies, Notices!process,
     Notices!publishWithRetry, Notices!RecordPublication, Notices!enqueue,
     Notices!ProcessEnds, Notices!Skip, Notices!dispatchOne, Notices!Tear,
     Notices!senders, Notices!seen
<1>a. /\ rules \in RuleSets
      /\ rowStatus \in [Notices!Rows -> {"NONE", "PENDING_IN_APP", "PENDING", "SENT", "FAILED",
                                         "READ", "HIDDEN"}]
      /\ call \in [NoticeCalls -> {"new", "next", "publish", "sent", "failed", "enqueue",
                                   "done"}]
      /\ todo \in [NoticeCalls -> SUBSET Notices!Rows]
      /\ hand \in [NoticeCalls -> Notices!Rows \union {Notices!NoRow}]
      /\ tries \in [NoticeCalls -> 0..MaxPublishes]
      /\ torn \subseteq Notices!Rows
      /\ job \in [External -> {"none", "waiting", "active", "completed", "failed"}]
      /\ attempts \in [External -> 0..MaxAttempts]
      /\ stalled \in [External -> BOOLEAN]
      /\ tears \in 0..MaxTears
  BY DEF Notices!TypeOK
\* The parts that a step of the orchestrator has a say in.
<1>b. SUFFICES
        /\ call' \in [NoticeCalls -> {"new", "next", "publish", "sent", "failed", "enqueue",
                                      "done"}]
        /\ todo' \in [NoticeCalls -> SUBSET Notices!Rows]
        /\ hand' \in [NoticeCalls -> Notices!Rows \union {Notices!NoRow}]
        /\ tries' \in [NoticeCalls -> 0..MaxPublishes]
        /\ rowStatus' \in [Notices!Rows ->
              {"NONE", "PENDING_IN_APP", "PENDING", "SENT", "FAILED", "READ", "HIDDEN"}]
        /\ torn \subseteq torn' /\ torn' \subseteq Notices!Rows
        /\ job' \in [External -> {"none", "waiting", "active", "completed", "failed"}]
        /\ attempts' \in [External -> 0..MaxAttempts]
        /\ stalled' \in [External -> BOOLEAN]
        /\ tears' \in 0..MaxTears
        /\ \A r \in External :
              \/ rowStatus'[r] \in {rowStatus[r], "FAILED"}
              \/ rowStatus[r] = "NONE" /\ rowStatus'[r] = "PENDING"
        /\ \A r \in External :
              \/ job'[r] = job[r] /\ attempts'[r] = attempts[r]
              \/ /\ job[r] = "none" /\ job'[r] = "waiting" /\ attempts'[r] = 0
                 /\ rowStatus[r] # "NONE"
        /\ HandsInv'
        /\ Notices!InAppIsSettled'
  <2>1. Notices!TypeOK'
    BY <1>0, <1>b DEF Notices!TypeOK
  <2>2. /\ JobsInv' /\ SendersInv' /\ AloneInv' /\ TakenInv'
        /\ Notices!SentTwiceOnlyIfTorn' /\ Notices!EndedJobIsAccountedFor'
    BY <1>0, <1>b, OutsideWorkers
  <2> QED
    BY <1>b, <2>1, <2>2
<1>1. CASE Notices!process(c)
  <2>1. /\ UNCHANGED <<rowStatus, hand, tries, job, attempts, stalled, torn, tears>>
        /\ call[c] = "new" /\ call' = [call EXCEPT ![c] = "next"]
    BY <1>1 DEF Notices!process, Notices!jobs, Notices!seen
  <2>2. \A optedOut : Notices!allowedCandidates(optedOut) \subseteq Notices!Rows
    BY <1>a, ServicesAssumption DEF Notices!allowedCandidates, Notices!Channels,
       Notices!NotificationsAssumption
  <2>3. todo' \in [NoticeCalls -> SUBSET Notices!Rows]
    BY <1>1, <1>a, <2>2 DEF Notices!process
  <2>4. \A d \in NoticeCalls : call'[d] = IF d = c THEN "next" ELSE call[d]
    BY <1>a, <2>1
  <2>5. HandsInv' /\ Notices!InAppIsSettled'
    BY <1>a, <2>1, <2>4, NoticeConstants DEF HandsInv, Notices!InAppIsSettled
  <2> QED
    BY <1>a, <2>1, <2>3, <2>5
<1>2. CASE Notices!publishWithRetry(c)
  <2>1. /\ UNCHANGED <<rowStatus, todo, hand, job, attempts, stalled, torn, tears>>
        /\ call[c] = "publish"
        /\ \/ \E outcome \in {"sent", "failed"} : call' = [call EXCEPT ![c] = outcome]
           \/ tries[c] + 1 < MaxPublishes /\ UNCHANGED call
        /\ tries' = [tries EXCEPT ![c] = @ + 1]
    BY <1>2 DEF Notices!publishWithRetry, Notices!jobs, Notices!seen
  <2>2. tries[c] < MaxPublishes /\ hand[c] \in InApp
    BY <2>1 DEF HandsInv
  <2>3. /\ tries' \in [NoticeCalls -> 0..MaxPublishes]
        /\ \A d \in NoticeCalls : tries'[d] = IF d = c THEN tries[c] + 1 ELSE tries[d]
    BY <1>a, <2>1, <2>2, NoticeConstants
  <2>4. /\ call' \in [NoticeCalls -> {"new", "next", "publish", "sent", "failed", "enqueue",
                                      "done"}]
        /\ \A d \in NoticeCalls : d # c => call'[d] = call[d]
        /\ \/ call'[c] \in {"sent", "failed"}
           \/ call'[c] = "publish" /\ tries[c] + 1 < MaxPublishes
    BY <1>a, <2>1
  <2>5. HandsInv'
    BY <2>1, <2>2, <2>3, <2>4 DEF HandsInv
  <2>6. Notices!InAppIsSettled'
    BY <2>1, <2>4 DEF Notices!InAppIsSettled
  <2> QED
    BY <1>a, <2>1, <2>3, <2>4, <2>5, <2>6
<1>3. CASE \E r \in Notices!Rows : Notices!Skip(c, r) \/ Notices!dispatchOne(c, r)
  <2>1. PICK r \in Notices!Rows : Notices!Skip(c, r) \/ Notices!dispatchOne(c, r)
    BY <1>3
  <2>2. /\ UNCHANGED <<job, attempts, stalled, torn, tears>>
        /\ todo' = [todo EXCEPT ![c] = @ \ {r}]
        /\ call[c] = "next"
    BY <2>1 DEF Notices!Skip, Notices!dispatchOne, Notices!jobs, Notices!seen
  <2>3. todo' \in [NoticeCalls -> SUBSET Notices!Rows] /\ hand[c] = Notices!NoRow
    BY <1>a, <2>2 DEF HandsInv
  <2>4. CASE Notices!Skip(c, r)
    <3>1. /\ UNCHANGED <<call, hand, tries>>
          /\ \/ UNCHANGED rowStatus
             \/ /\ rowStatus[r] = "NONE" /\ r \in External
                /\ rowStatus' = [rowStatus EXCEPT ![r] = "FAILED"]
      BY <2>4 DEF Notices!Skip
    <3>2. /\ rowStatus' \in [Notices!Rows -> {"NONE", "PENDING_IN_APP", "PENDING", "SENT",
                                              "FAILED", "READ", "HIDDEN"}]
          /\ \A s \in Notices!Rows :
                \/ rowStatus'[s] = rowStatus[s]
                \/ s \in External /\ rowStatus[s] = "NONE" /\ rowStatus'[s] = "FAILED"
      BY <1>a, <3>1
    <3>3. HandsInv'
      BY <3>1, <3>2, NoticeConstants DEF HandsInv
    <3>4. Notices!InAppIsSettled'
      BY <2>2, <3>1, <3>2, NoticeConstants DEF Notices!InAppIsSettled
    <3> QED
      BY <1>a, <2>2, <2>3, <3>1, <3>2, <3>3, <3>4, NoticeConstants
  <2>5. CASE Notices!dispatchOne(c, r)
    <3> DEFINE place == IF r \in InApp THEN "publish" ELSE "enqueue"
    <3>1. /\ rowStatus[r] = "NONE"
          /\ rowStatus' = [rowStatus EXCEPT ![r] = IF r \in InApp THEN "PENDING_IN_APP"
                                                                  ELSE "PENDING"]
          /\ Notices!Turns(c, place, r)
      BY <2>5 DEF Notices!dispatchOne
    <3>2. /\ rowStatus' \in [Notices!Rows -> {"NONE", "PENDING_IN_APP", "PENDING", "SENT",
                                              "FAILED", "READ", "HIDDEN"}]
          /\ \A s \in Notices!Rows :
                rowStatus'[s] = IF s = r
                                  THEN IF r \in InApp THEN "PENDING_IN_APP" ELSE "PENDING"
                                  ELSE rowStatus[s]
      BY <1>a, <3>1
    <3>3. /\ call' \in [NoticeCalls -> {"new", "next", "publish", "sent", "failed",
                                        "enqueue", "done"}]
          /\ hand' \in [NoticeCalls -> Notices!Rows \union {Notices!NoRow}]
          /\ tries' \in [NoticeCalls -> 0..MaxPublishes]
          /\ \A d \in NoticeCalls :
                /\ call'[d] = IF d = c THEN place ELSE call[d]
                /\ hand'[d] = IF d = c THEN r ELSE hand[d]
                /\ tries'[d] = IF d = c THEN 0 ELSE tries[d]
      BY <3>1, Turned
    <3>4. HandsInv'
      BY <3>2, <3>3, NoticeConstants DEF HandsInv
    <3>5. Notices!InAppIsSettled'
      <4>1. ASSUME NEW s \in InApp, rowStatus'[s] = "PENDING_IN_APP", s \notin torn
            PROVE  \E d \in NoticeCalls : hand'[d] = s /\ call'[d] # "next"
        <5>1. CASE s = r
          BY <3>3, <4>1, <5>1
        <5>2. CASE s # r
          <6>1. PICK d \in NoticeCalls : hand[d] = s /\ call[d] # "next"
            BY <3>2, <4>1, <5>2, NoticeConstants DEF Notices!InAppIsSettled
          <6> QED
            BY <2>2, <3>3, <6>1
        <5> QED
          BY <5>1, <5>2
      <4> QED
        BY <2>2, <4>1 DEF Notices!InAppIsSettled
    <3> QED
      BY <1>a, <2>2, <2>3, <3>1, <3>2, <3>3, <3>4, <3>5, NoticeConstants
  <2> QED
    BY <2>1, <2>4, <2>5
<1>4. CASE Notices!RecordPublication(c)
  <2>1. /\ UNCHANGED <<todo, job, attempts, stalled, torn, tears>>
        /\ call[c] \in {"sent", "failed"}
        /\ rowStatus' = [rowStatus EXCEPT ![hand[c]] = IF call[c] = "sent" THEN "SENT"
                                                                           ELSE "FAILED"]
        /\ Notices!Turns(c, "next", Notices!NoRow)
    BY <1>4 DEF Notices!RecordPublication, Notices!jobs, Notices!seen
  <2>2. hand[c] \in InApp
    BY <2>1 DEF HandsInv
  <2>3. /\ rowStatus' \in [Notices!Rows -> {"NONE", "PENDING_IN_APP", "PENDING", "SENT",
                                            "FAILED", "READ", "HIDDEN"}]
        /\ rowStatus'[hand[c]] \in {"SENT", "FAILED"}
        /\ \A s \in Notices!Rows : s # hand[c] => rowStatus'[s] = rowStatus[s]
    BY <1>a, <2>1, <2>2, NoticeConstants
  <2>4. /\ call' \in [NoticeCalls -> {"new", "next", "publish", "sent", "failed",
                                      "enqueue", "done"}]
        /\ hand' \in [NoticeCalls -> Notices!Rows \union {Notices!NoRow}]
        /\ tries' \in [NoticeCalls -> 0..MaxPublishes]
        /\ \A d \in NoticeCalls :
              /\ call'[d] = IF d = c THEN "next" ELSE call[d]
              /\ hand'[d] = IF d = c THEN Notices!NoRow ELSE hand[d]
              /\ tries'[d] = IF d = c THEN 0 ELSE tries[d]
    BY <2>1, Turned
  <2>5. HandsInv'
    BY <2>2, <2>3, <2>4, NoticeConstants DEF HandsInv
  <2>6. Notices!InAppIsSettled'
    <3>1. ASSUME NEW s \in InApp, rowStatus'[s] = "PENDING_IN_APP", s \notin torn
          PROVE  \E d \in NoticeCalls : hand'[d] = s /\ call'[d] # "next"
      <4>1. s # hand[c] /\ rowStatus[s] = "PENDING_IN_APP"
        BY <2>3, <3>1, NoticeConstants
      <4>2. PICK d \in NoticeCalls : hand[d] = s /\ call[d] # "next"
        BY <3>1, <4>1 DEF Notices!InAppIsSettled
      <4> QED
        BY <2>4, <4>1, <4>2
    <3> QED
      BY <2>1, <3>1 DEF Notices!InAppIsSettled
  <2> QED
    BY <1>a, <2>1, <2>2, <2>3, <2>4, <2>5, <2>6, NoticeConstants
<1>5. CASE Notices!enqueue(c)
  <2>1. /\ UNCHANGED <<rowStatus, todo, torn, tears>>
        /\ call[c] = "enqueue"
        /\ Notices!Add(hand[c])
        /\ Notices!Turns(c, "next", Notices!NoRow)
    BY <1>5 DEF Notices!enqueue, Notices!seen
  <2>2. hand[c] \in External /\ rowStatus[hand[c]] # "NONE"
    BY <2>1 DEF HandsInv
  <2>3. /\ job' \in [External -> {"none", "waiting", "active", "completed", "failed"}]
        /\ attempts' \in [External -> 0..MaxAttempts]
        /\ stalled' \in [External -> BOOLEAN]
        /\ \A s \in External :
              \/ job'[s] = job[s] /\ attempts'[s] = attempts[s]
              \/ s = hand[c] /\ job[s] = "none" /\ job'[s] = "waiting" /\ attempts'[s] = 0
    BY <2>1, <2>2, Added
  <2>4. /\ call' \in [NoticeCalls -> {"new", "next", "publish", "sent", "failed",
                                      "enqueue", "done"}]
        /\ hand' \in [NoticeCalls -> Notices!Rows \union {Notices!NoRow}]
        /\ tries' \in [NoticeCalls -> 0..MaxPublishes]
        /\ \A d \in NoticeCalls :
              /\ call'[d] = IF d = c THEN "next" ELSE call[d]
              /\ hand'[d] = IF d = c THEN Notices!NoRow ELSE hand[d]
              /\ tries'[d] = IF d = c THEN 0 ELSE tries[d]
    BY <2>1, Turned
  <2>5. HandsInv'
    BY <2>1, <2>4 DEF HandsInv
  <2>6. Notices!InAppIsSettled'
    BY <2>1, <2>2, <2>4, NoticeConstants DEF Notices!InAppIsSettled
  <2> QED
    BY <1>a, <2>1, <2>2, <2>3, <2>4, <2>5, <2>6
<1>6. CASE Notices!ProcessEnds(c)
  <2>1. /\ UNCHANGED <<rowStatus, todo, job, attempts, stalled, torn, tears>>
        /\ call[c] = "next"
        /\ Notices!Turns(c, "done", Notices!NoRow)
    BY <1>6 DEF Notices!ProcessEnds, Notices!jobs, Notices!seen
  <2>2. /\ call' \in [NoticeCalls -> {"new", "next", "publish", "sent", "failed",
                                      "enqueue", "done"}]
        /\ hand' \in [NoticeCalls -> Notices!Rows \union {Notices!NoRow}]
        /\ tries' \in [NoticeCalls -> 0..MaxPublishes]
        /\ \A d \in NoticeCalls :
              /\ call'[d] = IF d = c THEN "done" ELSE call[d]
              /\ hand'[d] = IF d = c THEN Notices!NoRow ELSE hand[d]
              /\ tries'[d] = IF d = c THEN 0 ELSE tries[d]
    BY <2>1, Turned
  <2>3. HandsInv'
    BY <2>1, <2>2 DEF HandsInv
  <2>4. Notices!InAppIsSettled'
    BY <2>1, <2>2 DEF Notices!InAppIsSettled
  <2> QED
    BY <1>a, <2>1, <2>2, <2>3, <2>4
<1>7. CASE Notices!DispatchFails(c) \/ Notices!CallDies(c)
  <2>1. PICK place \in {"next", "done"} :
           /\ UNCHANGED <<rowStatus, job, attempts, stalled>>
           /\ Notices!Tear(hand[c])
           /\ Notices!Turns(c, place, Notices!NoRow)
    BY <1>7 DEF Notices!DispatchFails, Notices!CallDies, Notices!jobs
  <2>2. todo' \in [NoticeCalls -> SUBSET Notices!Rows]
    BY <1>7, <1>a DEF Notices!DispatchFails, Notices!CallDies
  <2>3. /\ tears' \in 0..MaxTears /\ torn \subseteq torn' /\ torn' \subseteq Notices!Rows
        /\ hand[c] \in Notices!Rows => hand[c] \in torn'
    BY <2>1, Torn
  <2>4. /\ call' \in [NoticeCalls -> {"new", "next", "publish", "sent", "failed",
                                      "enqueue", "done"}]
        /\ hand' \in [NoticeCalls -> Notices!Rows \union {Notices!NoRow}]
        /\ tries' \in [NoticeCalls -> 0..MaxPublishes]
        /\ \A d \in NoticeCalls :
              /\ call'[d] = IF d = c THEN place ELSE call[d]
              /\ hand'[d] = IF d = c THEN Notices!NoRow ELSE hand[d]
              /\ tries'[d] = IF d = c THEN 0 ELSE tries[d]
    BY <2>1, Turned
  <2>5. HandsInv'
    BY <2>1, <2>4 DEF HandsInv
  <2>6. Notices!InAppIsSettled'
    BY <2>1, <2>3, <2>4, NoticeConstants DEF Notices!InAppIsSettled
  <2> QED
    BY <1>a, <2>1, <2>2, <2>3, <2>4, <2>5, <2>6
<1> QED
  BY <1>1, <1>2, <1>3, <1>4, <1>5, <1>6, <1>7 DEF Notices!CallStep

LEMMA JobSteps ==
    ASSUME NoticeInv, NEW r \in External,
           \/ Notices!recoverPendingRows(r) \/ Notices!Forget(r)
           \/ Notices!MarkFailed(r) \/ Notices!MarkIsLost(r)
    PROVE  NoticeInv'
<1> USE DEF NoticeInv
<1>0. UNCHANGED <<rules, call, todo, hand, tries, sender, task, holds, taken, byUser>>
  BY DEF Notices!recoverPendingRows, Notices!Forget, Notices!MarkFailed,
     Notices!MarkIsLost, Notices!Tear, Notices!calls, Notices!senders, Notices!seen
<1>a. /\ rowStatus \in [Notices!Rows -> {"NONE", "PENDING_IN_APP", "PENDING", "SENT", "FAILED",
                                         "READ", "HIDDEN"}]
      /\ torn \subseteq Notices!Rows /\ marks \subseteq External
      /\ job \in [External -> {"none", "waiting", "active", "completed", "failed"}]
      /\ attempts \in [External -> 0..MaxAttempts]
      /\ stalled \in [External -> BOOLEAN]
      /\ tears \in 0..MaxTears
  BY DEF Notices!TypeOK
<1>b. SUFFICES
        /\ rowStatus' \in [Notices!Rows ->
              {"NONE", "PENDING_IN_APP", "PENDING", "SENT", "FAILED", "READ", "HIDDEN"}]
        /\ torn \subseteq torn' /\ torn' \subseteq Notices!Rows /\ marks' \subseteq marks
        /\ \A s \in marks \ marks' : s \in torn' \/ rowStatus'[s] = "FAILED"
        /\ job' \in [External -> {"none", "waiting", "active", "completed", "failed"}]
        /\ attempts' \in [External -> 0..MaxAttempts]
        /\ stalled' \in [External -> BOOLEAN]
        /\ tears' \in 0..MaxTears
        /\ \A s \in External : rowStatus'[s] \in {rowStatus[s], "FAILED"}
        /\ \A s \in InApp : rowStatus'[s] = rowStatus[s]
        /\ \A s \in External :
              \/ job'[s] = job[s] /\ attempts'[s] = attempts[s]
              \/ job[s] \in {"completed", "failed"} /\ job'[s] = "none"
              \/ /\ job[s] = "none" /\ job'[s] = "waiting" /\ attempts'[s] = 0
                 /\ rowStatus[s] # "NONE"
  <2>1. Notices!TypeOK'
    BY <1>0, <1>b DEF Notices!TypeOK
  <2>2. /\ JobsInv' /\ SendersInv' /\ AloneInv' /\ TakenInv'
        /\ Notices!SentTwiceOnlyIfTorn' /\ Notices!EndedJobIsAccountedFor'
    BY <1>0, <1>b, OutsideWorkers
  <2>3. HandsInv'
    BY <1>0, <1>b DEF HandsInv
  <2>4. Notices!InAppIsSettled'
    BY <1>0, <1>b DEF Notices!InAppIsSettled
  <2> QED
    BY <2>1, <2>2, <2>3, <2>4
<1>1. CASE Notices!recoverPendingRows(r)
  <2>1. /\ UNCHANGED <<rowStatus, marks, torn, tears>>
        /\ rowStatus[r] = "PENDING" /\ Notices!Add(r)
    BY <1>1 DEF Notices!recoverPendingRows, Notices!seen
  <2> QED
    BY <1>a, <2>1, Added
<1>2. CASE Notices!Forget(r)
  <2>1. /\ UNCHANGED <<rowStatus, marks, torn, tears, attempts, stalled>>
        /\ job[r] \in {"completed", "failed"} /\ job' = [job EXCEPT ![r] = "none"]
    BY <1>2 DEF Notices!Forget, Notices!seen
  <2> QED
    BY <1>a, <2>1
<1>3. CASE Notices!MarkFailed(r)
  <2>1. /\ UNCHANGED <<job, attempts, stalled, torn, tears>>
        /\ marks' = marks \ {r} /\ rowStatus' = [rowStatus EXCEPT ![r] = "FAILED"]
    BY <1>3 DEF Notices!MarkFailed, Notices!jobs, Notices!seen
  <2> QED
    BY <1>a, <2>1, NoticeConstants
<1>4. CASE Notices!MarkIsLost(r)
  <2>1. /\ UNCHANGED <<rowStatus, job, attempts, stalled>>
        /\ marks' = marks \ {r} /\ Notices!Tear(r)
    BY <1>4 DEF Notices!MarkIsLost, Notices!jobs
  <2> QED
    BY <1>a, <2>1, Torn, NoticeConstants
<1> QED
  BY <1>1, <1>2, <1>3, <1>4

LEMMA RecipientSteps ==
    ASSUME NoticeInv,
           \/ \E r \in Notices!Rows : Notices!markRead(r) \/ Notices!hide(r)
           \/ Notices!markAllRead
    PROVE  NoticeInv'
<1> USE DEF NoticeInv
<1>1. PICK seen \in SUBSET Notices!Rows, s \in {"READ", "HIDDEN"} :
         Notices!Sets(seen, s) /\ \A r \in seen : rowStatus[r] # "NONE"
  <2>1. CASE \E r \in Notices!Rows : Notices!markRead(r) \/ Notices!hide(r)
    <3>1. PICK r \in Notices!Rows : Notices!markRead(r) \/ Notices!hide(r)
      BY <2>1
    <3>2. {r} \in SUBSET Notices!Rows
      OBVIOUS
    <3> QED
      BY <3>1, <3>2 DEF Notices!markRead, Notices!hide
  <2>2. CASE Notices!markAllRead
    <3> DEFINE unread == {r \in Notices!Rows : rowStatus[r] \notin {"NONE", "READ"}}
    <3>1. unread \in SUBSET Notices!Rows /\ Notices!Sets(unread, "READ")
      BY <2>2 DEF Notices!markAllRead
    <3> QED
      BY <3>1
  <2> QED
    BY <2>1, <2>2
<1>2. /\ UNCHANGED <<rules, call, todo, hand, tries, job, attempts, stalled, sender, task,
                     holds, marks, taken, torn, tears>>
      /\ byUser' = byUser \union seen
      /\ rowStatus' = [r \in Notices!Rows |-> IF r \in seen THEN s ELSE rowStatus[r]]
  BY <1>1 DEF Notices!Sets, Notices!calls, Notices!jobs, Notices!senders
<1>3. \A r \in Notices!Rows : rowStatus'[r] = IF r \in seen THEN s ELSE rowStatus[r]
  BY <1>2
<1>4. Notices!TypeOK'
  BY <1>2 DEF Notices!TypeOK
<1>5. HandsInv'
  BY <1>1, <1>2, <1>3, NoticeConstants DEF HandsInv
<1>6. JobsInv'
  BY <1>1, <1>2, <1>3, NoticeConstants DEF JobsInv
<1>7. SendersInv'
  BY <1>1, <1>2, <1>3, NoticeConstants DEF SendersInv
<1>8. AloneInv' /\ TakenInv'
  BY <1>1, <1>2, <1>3, NoticeConstants DEF AloneInv, TakenInv
<1>9. Notices!SentTwiceOnlyIfTorn' /\ Notices!InAppIsSettled'
  BY <1>1, <1>2, <1>3, NoticeConstants DEF Notices!SentTwiceOnlyIfTorn,
     Notices!InAppIsSettled
<1>10. Notices!EndedJobIsAccountedFor'
  BY <1>1, <1>2, <1>3, NoticeConstants DEF Notices!EndedJobIsAccountedFor
<1> QED
  BY <1>4, <1>5, <1>6, <1>7, <1>8, <1>9, <1>10

\* What a step of worker w on the job of row r may do: elsewhere, to the row, to its
\* job and to the worker.
MovesElsewhere(w, r) ==
    /\ UNCHANGED <<rules, call, todo, hand, tries, byUser>>
    /\ Notices!TypeOK'
    /\ \A v \in Senders : v # w =>
          sender'[v] = sender[v] /\ task'[v] = task[v] /\ holds'[v] = holds[v]
    /\ \A s \in Notices!Rows : s # r => rowStatus'[s] = rowStatus[s]
    /\ \A s \in External : s # r =>
          job'[s] = job[s] /\ attempts'[s] = attempts[s] /\ taken'[s] = taken[s]
    /\ torn \subseteq torn' /\ marks \subseteq marks'

RowMoves(w, r) ==
    /\ \/ rowStatus'[r] \in {rowStatus[r], "FAILED"}
       \/ (rowStatus'[r] = "SENT" /\ taken'[r] > 0)
    /\ taken'[r] >= taken[r]
    /\ taken'[r] > 1 => r \in torn'
    /\ taken'[r] # taken[r] => sender[w] = "send" /\ sender'[w] = "sent"

JobMoves(w, r) ==
    /\ ~ holds[w] => job'[r] = job[r] /\ attempts'[r] = attempts[r]
    /\ holds'[w] => holds[w] /\ job'[r] = job[r]
    /\ job'[r] \in {"waiting", "active"} => attempts'[r] < MaxAttempts
    /\ holds[w] /\ job'[r] \in {"completed", "failed"} =>
          \/ rowStatus'[r] = "FAILED" \/ (rowStatus'[r] = "SENT" /\ taken'[r] > 0)
          \/ r \in byUser \union marks' \union torn'

WorkerMoves(w, r) ==
    /\ sender'[w] # "idle" => task'[w] = r /\ (holds'[w] \/ r \in torn')
    /\ holds'[w] => sender'[w] # "idle"
    /\ sender'[w] = "sent" => taken'[r] > 0
    /\ sender'[w] = "send" => taken'[r] = 0 \/ r \in torn'
    /\ sender[w] = "sent" /\ sender'[w] # "sent" =>
          r \in torn' \/ rowStatus'[r] # "PENDING"

LEMMA WorkerKeeps ==
    ASSUME NoticeInv, NEW w \in Senders, NEW r \in External,
           sender[w] # "idle", task[w] = r,
           MovesElsewhere(w, r), RowMoves(w, r), JobMoves(w, r), WorkerMoves(w, r)
    PROVE  NoticeInv'
<1> USE DEF NoticeInv, MovesElsewhere, RowMoves, JobMoves, WorkerMoves
<1>0. r \notin InApp /\ r \in Notices!Rows
  BY NoticeConstants
<1>a. /\ taken \in [External -> 0..2] /\ taken' \in [External -> 0..2]
      /\ \A s \in External : s \in Notices!Rows
  BY NoticeConstants DEF Notices!TypeOK
<1>b. rowStatus[r] # "NONE" /\ rowStatus'[r] # "NONE"
  BY DEF SendersInv
<1>1. Notices!TypeOK'
  OBVIOUS
<1>2. HandsInv'
  BY <1>0, <1>b, NoticeConstants DEF HandsInv
<1>3. JobsInv'
  BY <1>0, <1>a, <1>b, NoticeConstants DEF JobsInv
\* Another worker with the row in hand has seen it torn.
<1>c. ASSUME NEW v \in Senders, v # w, sender[v] # "idle", task[v] = r
      PROVE  r \in torn /\ ~ (holds[v] /\ holds[w])
  BY <1>c DEF AloneInv
<1>4. SendersInv'
  <2> SUFFICES ASSUME NEW v \in Senders
               PROVE  /\ holds'[v] => sender'[v] # "idle" /\ job'[task'[v]] = "active"
                      /\ sender'[v] # "idle" =>
                            /\ task'[v] \in External /\ rowStatus'[task'[v]] # "NONE"
                            /\ holds'[v] \/ task'[v] \in torn'
                      /\ sender'[v] = "sent" => taken'[task'[v]] > 0
                      /\ sender'[v] = "send" => taken'[task'[v]] = 0 \/ task'[v] \in torn'
    BY DEF SendersInv
  <2>1. CASE v = w
    BY <1>b, <2>1 DEF SendersInv
  <2>2. CASE v # w /\ task[v] = r
    <3>1. /\ sender'[v] = sender[v] /\ task'[v] = r /\ holds'[v] = holds[v]
      BY <2>2
    <3>2. sender[v] # "idle" => r \in torn' /\ (holds[v] => ~ holds[w])
      BY <1>c, <2>2
    <3>3. holds[v] => job'[r] = "active"
      BY <2>2, <3>2 DEF SendersInv
    <3>4. sender[v] = "sent" => taken'[r] > 0
      BY <1>a, <2>2 DEF SendersInv
    <3> QED
      BY <1>b, <2>2, <3>1, <3>2, <3>3, <3>4 DEF SendersInv
  <2>3. CASE v # w /\ task[v] # r
    BY <1>a, <2>3 DEF SendersInv
  <2> QED
    BY <2>1, <2>2, <2>3
<1>5. AloneInv'
  <2> SUFFICES ASSUME NEW u \in Senders, NEW v \in Senders, u # v, sender'[u] # "idle",
                      sender'[v] # "idle", task'[u] = task'[v]
               PROVE  ~ (holds'[u] /\ holds'[v]) /\ task'[u] \in torn'
    BY DEF AloneInv
  <2>1. /\ sender[u] # "idle" /\ task[u] = task'[u] /\ (holds'[u] => holds[u])
        /\ sender[v] # "idle" /\ task[v] = task'[v] /\ (holds'[v] => holds[v])
    OBVIOUS
  <2> QED
    BY <2>1 DEF AloneInv
<1>6. TakenInv'
  <2> SUFFICES ASSUME NEW s \in External, taken'[s] > 0, s \notin torn',
                      rowStatus'[s] = "PENDING"
               PROVE  \E v \in Senders : sender'[v] = "sent" /\ task'[v] = s
    BY DEF TakenInv
  <2>0. s \notin torn
    OBVIOUS
  <2>1. CASE s = r
    <3>1. CASE taken'[r] # taken[r]
      BY <2>1, <3>1
    <3>2. CASE taken'[r] = taken[r]
      <4>1. rowStatus[r] = "PENDING"
        BY <2>1
      <4>2. PICK v \in Senders : sender[v] = "sent" /\ task[v] = r
        BY <2>0, <2>1, <3>2, <4>1 DEF TakenInv
      <4>3. v = w
        BY <1>c, <2>0, <2>1, <4>2
      <4>4. sender'[w] = "sent" /\ task'[w] = r
        BY <2>1, <4>2, <4>3
      <4> QED
        BY <2>1, <4>4
    <3> QED
      BY <3>1, <3>2
  <2>2. CASE s # r
    <3>1. taken[s] > 0 /\ rowStatus[s] = "PENDING"
      BY <1>a, <2>2
    <3>2. PICK v \in Senders : sender[v] = "sent" /\ task[v] = s
      BY <2>0, <3>1 DEF TakenInv
    <3>3. v # w
      BY <2>2, <3>2
    <3> QED
      BY <3>2, <3>3
  <2> QED
    BY <2>1, <2>2
<1>7. Notices!SentTwiceOnlyIfTorn'
  BY DEF Notices!SentTwiceOnlyIfTorn
<1>8. Notices!EndedJobIsAccountedFor'
  <2>1. ~ holds[w] /\ job'[r] \in {"completed", "failed"} =>
           \/ rowStatus'[r] = "FAILED" \/ (rowStatus'[r] = "SENT" /\ taken'[r] > 0)
           \/ r \in byUser \union marks' \union torn'
    BY DEF SendersInv
  <2> QED
    BY <1>a, <2>1 DEF Notices!EndedJobIsAccountedFor
<1>9. Notices!InAppIsSettled'
  BY <1>0, NoticeConstants DEF Notices!InAppIsSettled
<1> QED
  BY <1>1, <1>2, <1>3, <1>4, <1>5, <1>6, <1>7, <1>8, <1>9

\* The job in hand is over for the worker, one way or another.
LEMMA Settles ==
    ASSUME NoticeInv, NEW w \in Senders, sender[w] # "idle",
           \/ \E end \in {"completed", "failed"} : Notices!JobEnds(w, end)
           \/ Notices!JobThrows(w)
    PROVE  /\ job' \in [External -> {"none", "waiting", "active", "completed", "failed"}]
           /\ attempts' \in [External -> 0..MaxAttempts]
           /\ sender' \in [Senders -> {"idle", "load", "send", "sent", "rejected"}]
           /\ task' \in [Senders -> External \union {Notices!NoRow}]
           /\ holds' \in [Senders -> BOOLEAN]
           /\ UNCHANGED stalled
           /\ sender'[w] = "idle" /\ ~ holds'[w]
           /\ \A v \in Senders : v # w =>
                 sender'[v] = sender[v] /\ task'[v] = task[v] /\ holds'[v] = holds[v]
           /\ \A s \in External : s # task[w] =>
                 job'[s] = job[s] /\ attempts'[s] = attempts[s]
           /\ ~ holds[w] => job'[task[w]] = job[task[w]]
                              /\ attempts'[task[w]] = attempts[task[w]]
           /\ job'[task[w]] \in {"waiting", "active"} => attempts'[task[w]] < MaxAttempts
<1> USE DEF NoticeInv
<1>0. /\ task[w] \in External /\ (holds[w] => job[task[w]] = "active")
      /\ job[task[w]] \in {"waiting", "active"} => attempts[task[w]] < MaxAttempts
  BY DEF SendersInv, JobsInv
<1>a. /\ job \in [External -> {"none", "waiting", "active", "completed", "failed"}]
      /\ attempts \in [External -> 0..MaxAttempts]
      /\ sender \in [Senders -> {"idle", "load", "send", "sent", "rejected"}]
      /\ task \in [Senders -> External \union {Notices!NoRow}]
      /\ holds \in [Senders -> BOOLEAN]
  BY DEF Notices!TypeOK
<1>1. /\ sender' \in [Senders -> {"idle", "load", "send", "sent", "rejected"}]
      /\ task' \in [Senders -> External \union {Notices!NoRow}]
      /\ holds' \in [Senders -> BOOLEAN]
      /\ sender'[w] = "idle" /\ ~ holds'[w]
      /\ \A v \in Senders : v # w =>
            sender'[v] = sender[v] /\ task'[v] = task[v] /\ holds'[v] = holds[v]
      /\ UNCHANGED stalled
  <2>1. Notices!Rests(w) /\ UNCHANGED stalled
    BY DEF Notices!JobEnds, Notices!JobThrows
  <2> QED
    BY <1>a, <2>1 DEF Notices!Rests
<1>2. CASE \E end \in {"completed", "failed"} : Notices!JobEnds(w, end)
  <2>1. UNCHANGED attempts
    BY <1>2 DEF Notices!JobEnds
  <2>2. PICK end \in {"completed", "failed"} :
           job' = IF holds[w] THEN [job EXCEPT ![task[w]] = end] ELSE job
    BY <1>2 DEF Notices!JobEnds
  <2> QED
    BY <1>0, <1>1, <1>a, <2>1, <2>2
<1>3. CASE Notices!JobThrows(w)
  <2>1. CASE ~ holds[w]
    BY <1>0, <1>1, <1>3, <1>a, <2>1 DEF Notices!JobThrows
  <2>2. CASE holds[w]
    <3>1. /\ attempts' = [attempts EXCEPT ![task[w]] = @ + 1]
          /\ job' = [job EXCEPT ![task[w]] =
                       IF attempts[task[w]] + 1 >= MaxAttempts THEN "failed" ELSE "waiting"]
      BY <1>3, <2>2 DEF Notices!JobThrows
    <3>2. attempts[task[w]] \in Nat /\ attempts[task[w]] + 1 \in 0..MaxAttempts
      BY <1>0, <1>a, <2>2, NoticeConstants
    <3>3. /\ attempts' \in [External -> 0..MaxAttempts]
          /\ \A s \in External :
                attempts'[s] = IF s = task[w] THEN attempts[s] + 1 ELSE attempts[s]
      BY <1>0, <1>a, <3>1, <3>2
    <3>4. /\ job' \in [External -> {"none", "waiting", "active", "completed", "failed"}]
          /\ \A s \in External : s # task[w] => job'[s] = job[s]
          /\ job'[task[w]] = IF attempts[task[w]] + 1 >= MaxAttempts
                               THEN "failed" ELSE "waiting"
      BY <1>0, <1>a, <3>1
    <3> QED
      BY <1>0, <1>1, <2>2, <3>2, <3>3, <3>4, NoticeConstants
  <2> QED
    BY <2>1, <2>2
<1> QED
  BY <1>2, <1>3

\* What the invariant says of the job in hand.
LEMMA InHand ==
    ASSUME NoticeInv, NEW w \in Senders, sender[w] # "idle"
    PROVE  /\ task[w] \in External /\ task[w] \in Notices!Rows
           /\ rowStatus[task[w]] \in {"PENDING", "SENT", "FAILED", "READ", "HIDDEN"}
           /\ rowStatus[task[w]] = "SENT" => taken[task[w]] > 0
           /\ rowStatus[task[w]] \in {"READ", "HIDDEN"} => task[w] \in byUser
           /\ holds[w] => job[task[w]] = "active"
           /\ holds[w] \/ task[w] \in torn
           /\ job[task[w]] \in {"none", "waiting", "active", "completed", "failed"}
           /\ job[task[w]] \in {"waiting", "active"} => attempts[task[w]] < MaxAttempts
           /\ sender[w] = "sent" => taken[task[w]] > 0
           /\ sender[w] = "send" => taken[task[w]] = 0 \/ task[w] \in torn
           /\ taken[task[w]] \in 0..2
           /\ taken[task[w]] > 1 => task[w] \in torn
<1> USE DEF NoticeInv
<1>1. /\ task[w] \in External /\ task[w] \in Notices!Rows
      /\ rowStatus[task[w]] # "NONE" /\ (holds[w] \/ task[w] \in torn)
  BY NoticeConstants DEF SendersInv
<1>2. /\ rowStatus[task[w]] \in {"NONE", "PENDING_IN_APP", "PENDING", "SENT", "FAILED", "READ",
                                 "HIDDEN"}
      /\ job[task[w]] \in {"none", "waiting", "active", "completed", "failed"}
      /\ taken[task[w]] \in 0..2
  BY <1>1 DEF Notices!TypeOK
<1> QED
  BY <1>1, <1>2 DEF SendersInv, JobsInv, Notices!SentTwiceOnlyIfTorn

\* A worker that is through with its job leaves the row as the invariant wants it.
LEMMA SettledKeeps ==
    ASSUME NoticeInv, NEW w \in Senders, NEW r \in External, sender[w] # "idle", task[w] = r,
           \/ \E end \in {"completed", "failed"} : Notices!JobEnds(w, end)
           \/ Notices!JobThrows(w),
           UNCHANGED <<rules, call, todo, hand, tries, byUser, taken>>,
           rowStatus' \in [Notices!Rows ->
              {"NONE", "PENDING_IN_APP", "PENDING", "SENT", "FAILED", "READ", "HIDDEN"}],
           \A s \in Notices!Rows : s # r => rowStatus'[s] = rowStatus[s],
           \/ rowStatus'[r] \in {rowStatus[r], "FAILED"}
           \/ (rowStatus'[r] = "SENT" /\ taken[r] > 0),
           torn \subseteq torn', torn' \subseteq Notices!Rows,
           marks \subseteq marks', marks' \subseteq External, tears' \in 0..MaxTears,
           sender[w] = "sent" => r \in torn' \/ rowStatus'[r] # "PENDING",
           holds[w] /\ job'[r] \in {"completed", "failed"} =>
              \/ rowStatus'[r] = "FAILED" \/ (rowStatus'[r] = "SENT" /\ taken[r] > 0)
              \/ r \in byUser \union marks' \union torn'
    PROVE  NoticeInv'
<1>1. /\ job' \in [External -> {"none", "waiting", "active", "completed", "failed"}]
      /\ attempts' \in [External -> 0..MaxAttempts]
      /\ sender' \in [Senders -> {"idle", "load", "send", "sent", "rejected"}]
      /\ task' \in [Senders -> External \union {Notices!NoRow}]
      /\ holds' \in [Senders -> BOOLEAN]
      /\ UNCHANGED stalled
      /\ sender'[w] = "idle" /\ ~ holds'[w]
      /\ \A v \in Senders : v # w =>
            sender'[v] = sender[v] /\ task'[v] = task[v] /\ holds'[v] = holds[v]
      /\ \A s \in External : s # r =>
            job'[s] = job[s] /\ attempts'[s] = attempts[s]
      /\ ~ holds[w] => job'[r] = job[r] /\ attempts'[r] = attempts[r]
      /\ job'[r] \in {"waiting", "active"} => attempts'[r] < MaxAttempts
  BY Settles
<1>2. Notices!TypeOK'
  BY <1>1 DEF NoticeInv, Notices!TypeOK
<1>3. MovesElsewhere(w, r)
  BY <1>1, <1>2 DEF MovesElsewhere
<1>4. RowMoves(w, r)
  BY InHand DEF RowMoves
<1>5. JobMoves(w, r)
  BY <1>1 DEF JobMoves
<1>6. WorkerMoves(w, r)
  BY <1>1 DEF WorkerMoves
<1> QED
  BY <1>3, <1>4, <1>5, <1>6, WorkerKeeps

LEMMA WorkerSteps ==
    ASSUME NoticeInv, NEW w \in Senders,
           Notices!SenderStep(w) \/ Notices!RecordFails(w) \/ Notices!Stalls(w)
    PROVE  NoticeInv'
<1>0. sender[w] # "idle"
  BY DEF Notices!SenderStep, Notices!Load, Notices!Unreachable, Notices!Send,
     Notices!SendFails, Notices!Record, Notices!RecordFails, Notices!Stalls
<1>r. PICK r \in External : task[w] = r
  BY <1>0, InHand
<1>a. /\ r \in Notices!Rows
      /\ rowStatus[r] \in {"PENDING", "SENT", "FAILED", "READ", "HIDDEN"}
      /\ rowStatus[r] = "SENT" => taken[r] > 0
      /\ rowStatus[r] \in {"READ", "HIDDEN"} => r \in byUser
      /\ holds[w] => job[r] = "active"
      /\ holds[w] \/ r \in torn
      /\ job[r] \in {"none", "waiting", "active", "completed", "failed"}
      /\ job[r] \in {"waiting", "active"} => attempts[r] < MaxAttempts
      /\ sender[w] = "sent" => taken[r] > 0
      /\ sender[w] = "send" => taken[r] = 0 \/ r \in torn
      /\ taken[r] \in 0..2
      /\ taken[r] > 1 => r \in torn
  BY <1>0, <1>r, InHand
<1>b. /\ rowStatus \in [Notices!Rows -> {"NONE", "PENDING_IN_APP", "PENDING", "SENT", "FAILED",
                                         "READ", "HIDDEN"}]
      /\ job \in [External -> {"none", "waiting", "active", "completed", "failed"}]
      /\ stalled \in [External -> BOOLEAN]
      /\ sender \in [Senders -> {"idle", "load", "send", "sent", "rejected"}]
      /\ task \in [Senders -> External \union {Notices!NoRow}]
      /\ holds \in [Senders -> BOOLEAN]
      /\ marks \subseteq External /\ torn \subseteq Notices!Rows
      /\ taken \in [External -> 0..2]
      /\ tears \in 0..MaxTears
  BY DEF NoticeInv, Notices!TypeOK
<1>c. UNCHANGED <<rules, call, todo, hand, tries, byUser>>
  BY DEF Notices!SenderStep, Notices!Load, Notices!Unreachable, Notices!Send,
     Notices!SendFails, Notices!Record, Notices!RecordFails, Notices!Stalls,
     Notices!Tear, Notices!calls, Notices!seen
<1>1. CASE Notices!Load(w)
  <2>1. UNCHANGED <<rowStatus, marks, taken, torn, tears>>
    BY <1>1 DEF Notices!Load, Notices!seen
  <2>2. CASE rowStatus[r] # "PENDING"
    <3>1. Notices!JobEnds(w, "completed") /\ sender[w] = "load"
      BY <1>1, <1>r, <2>2 DEF Notices!Load
    <3>2. /\ \E end \in {"completed", "failed"} : Notices!JobEnds(w, end)
          /\ rowStatus'[r] \in {rowStatus[r], "FAILED"}
          /\ rowStatus'[r] # "PENDING"
          /\ \/ rowStatus'[r] = "FAILED" \/ (rowStatus'[r] = "SENT" /\ taken[r] > 0)
             \/ r \in byUser \union marks' \union torn'
      BY <1>a, <2>1, <2>2, <3>1
    <3> QED
      BY <1>0, <1>r, <1>b, <1>c, <2>1, <3>2, SettledKeeps
  <2>3. CASE rowStatus[r] = "PENDING"
    <3>1. /\ sender' = [sender EXCEPT ![w] = "send"] /\ sender[w] = "load"
          /\ UNCHANGED <<job, attempts, stalled, task, holds>>
      BY <1>1, <1>r, <2>3 DEF Notices!Load, Notices!jobs
    <3>2. /\ sender' \in [Senders -> {"idle", "load", "send", "sent", "rejected"}]
          /\ sender'[w] = "send" /\ \A v \in Senders : v # w => sender'[v] = sender[v]
      BY <1>b, <3>1
    <3>3. taken[r] = 0 \/ r \in torn
      <4>1. ASSUME taken[r] # 0, r \notin torn
            PROVE  FALSE
        <5>1. PICK v \in Senders : sender[v] = "sent" /\ task[v] = r
          BY <1>a, <2>3, <4>1 DEF NoticeInv, TakenInv
        <5> QED
          BY <1>0, <1>r, <3>1, <4>1, <5>1 DEF NoticeInv, AloneInv
      <4> QED
        BY <4>1
    <3>4. Notices!TypeOK'
      BY <1>c, <2>1, <3>1, <3>2 DEF NoticeInv, Notices!TypeOK
    <3>5. MovesElsewhere(w, r)
      BY <1>c, <2>1, <3>1, <3>2, <3>4 DEF MovesElsewhere
    <3>6. RowMoves(w, r)
      BY <1>a, <2>1 DEF RowMoves
    <3>7. JobMoves(w, r)
      BY <1>a, <2>1, <3>1 DEF JobMoves
    <3>8. WorkerMoves(w, r)
      BY <1>a, <1>r, <2>1, <3>1, <3>2, <3>3 DEF WorkerMoves
    <3> QED
      BY <1>0, <1>r, <3>5, <3>6, <3>7, <3>8, WorkerKeeps
  <2> QED
    BY <2>2, <2>3
<1>2. CASE Notices!Unreachable(w) \/ Notices!Record(w)
  <2> DEFINE outcome == IF sender[w] = "sent" THEN "SENT" ELSE "FAILED"
  <2>1. /\ UNCHANGED <<marks, taken, torn, tears>>
        /\ rowStatus' = [rowStatus EXCEPT ![r] = outcome]
        /\ \E end \in {"completed", "failed"} : Notices!JobEnds(w, end)
    BY <1>2, <1>r DEF Notices!Unreachable, Notices!Record, Notices!seen
  <2>2. /\ rowStatus' \in [Notices!Rows -> {"NONE", "PENDING_IN_APP", "PENDING", "SENT",
                                            "FAILED", "READ", "HIDDEN"}]
        /\ rowStatus'[r] = outcome
        /\ \A s \in Notices!Rows : s # r => rowStatus'[s] = rowStatus[s]
    BY <1>a, <1>b, <2>1
  <2>3. /\ \/ rowStatus'[r] \in {rowStatus[r], "FAILED"}
           \/ (rowStatus'[r] = "SENT" /\ taken[r] > 0)
        /\ rowStatus'[r] # "PENDING"
        /\ rowStatus'[r] = "FAILED" \/ (rowStatus'[r] = "SENT" /\ taken[r] > 0)
    BY <1>a, <2>2
  <2> QED
    BY <1>0, <1>r, <1>b, <1>c, <2>1, <2>2, <2>3, SettledKeeps
<1>3. CASE Notices!Send(w)
  <2>1. /\ UNCHANGED <<rowStatus, job, attempts, stalled, task, holds, marks, torn, tears>>
        /\ sender[w] = "send"
        /\ \/ /\ sender' = [sender EXCEPT ![w] = "sent"]
              /\ taken' = [taken EXCEPT ![r] = IF @ < 2 THEN @ + 1 ELSE 2]
           \/ sender' = [sender EXCEPT ![w] = "rejected"] /\ UNCHANGED taken
    BY <1>3, <1>r DEF Notices!Send, Notices!jobs
  <2>2. /\ sender' \in [Senders -> {"idle", "load", "send", "sent", "rejected"}]
        /\ \A v \in Senders : v # w => sender'[v] = sender[v]
        /\ sender'[w] \in {"sent", "rejected"}
    BY <1>b, <2>1
  <2>3. /\ taken' \in [External -> 0..2]
        /\ \A s \in External : s # r => taken'[s] = taken[s]
        /\ taken'[r] >= taken[r]
        /\ taken'[r] > 1 => r \in torn
        /\ sender'[w] = "sent" => taken'[r] > 0
        /\ taken'[r] # taken[r] => sender'[w] = "sent"
    <3>2. CASE /\ sender' = [sender EXCEPT ![w] = "sent"]
               /\ taken' = [taken EXCEPT ![r] = IF @ < 2 THEN @ + 1 ELSE 2]
      <4>1. (IF taken[r] < 2 THEN taken[r] + 1 ELSE 2) \in 0..2
        BY <1>a
      <4>2. /\ taken' \in [External -> 0..2]
            /\ \A s \in External :
                  taken'[s] = IF s = r THEN IF taken[r] < 2 THEN taken[r] + 1 ELSE 2
                                       ELSE taken[s]
        BY <1>b, <3>2, <4>1
      <4>3. sender'[w] = "sent"
        BY <1>b, <3>2
      <4> QED
        BY <1>a, <2>1, <4>2, <4>3
    <3>3. CASE sender' = [sender EXCEPT ![w] = "rejected"] /\ UNCHANGED taken
      <4>1. sender'[w] = "rejected"
        BY <1>b, <3>3
      <4> QED
        BY <1>a, <1>b, <3>3, <4>1
    <3> QED
      BY <2>1, <3>2, <3>3
  <2>4. Notices!TypeOK'
    BY <1>c, <2>1, <2>2, <2>3 DEF NoticeInv, Notices!TypeOK
  <2>5. MovesElsewhere(w, r)
    BY <1>c, <2>1, <2>2, <2>3, <2>4 DEF MovesElsewhere
  <2>6. RowMoves(w, r)
    BY <2>1, <2>3 DEF RowMoves
  <2>7. JobMoves(w, r)
    BY <1>a, <2>1 DEF JobMoves
  <2>8. WorkerMoves(w, r)
    BY <1>a, <1>r, <2>1, <2>2, <2>3 DEF WorkerMoves
  <2> QED
    BY <1>0, <1>r, <2>5, <2>6, <2>7, <2>8, WorkerKeeps
<1>4. CASE Notices!SendFails(w)
  <2>1. /\ UNCHANGED <<rowStatus, taken, torn, tears>> /\ sender[w] = "send"
        /\ Notices!JobThrows(w)
    BY <1>4 DEF Notices!SendFails, Notices!seen
  <2>2. /\ marks \subseteq marks' /\ marks' \subseteq External
        /\ holds[w] /\ job'[r] \in {"completed", "failed"} => r \in marks'
    BY <1>a, <1>b, <1>r, <2>1 DEF Notices!JobThrows
  <2> QED
    BY <1>0, <1>r, <1>a, <1>b, <1>c, <2>1, <2>2, SettledKeeps
<1>5. CASE Notices!RecordFails(w)
  <2>1. /\ UNCHANGED rowStatus /\ Notices!Tear(r)
        /\ \/ Notices!JobThrows(w)
           \/ Notices!JobEnds(w, "failed") /\ UNCHANGED marks
    BY <1>5, <1>r DEF Notices!RecordFails
  <2>2. marks \subseteq marks' /\ marks' \subseteq External
    BY <1>b, <1>r, <2>1 DEF Notices!JobThrows
  <2>3. /\ tears' \in 0..MaxTears /\ torn \subseteq torn' /\ torn' \subseteq Notices!Rows
        /\ r \in torn' /\ UNCHANGED taken
    BY <1>a, <2>1, Torn DEF NoticeInv
  <2> QED
    BY <1>0, <1>r, <1>a, <1>b, <1>c, <2>1, <2>2, <2>3, SettledKeeps
<1>6. CASE Notices!Stalls(w)
  <2>1. /\ UNCHANGED <<rowStatus, attempts, marks>> /\ Notices!Tear(r) /\ holds[w]
        /\ job' = [job EXCEPT ![r] = IF stalled[r] THEN "failed" ELSE "waiting"]
        /\ stalled' = [stalled EXCEPT ![r] = TRUE]
        /\ \/ Notices!Rests(w)
           \/ holds' = [holds EXCEPT ![w] = FALSE] /\ UNCHANGED <<sender, task>>
    BY <1>6, <1>r DEF Notices!Stalls
  <2>2. /\ tears' \in 0..MaxTears /\ torn \subseteq torn' /\ torn' \subseteq Notices!Rows
        /\ r \in torn' /\ UNCHANGED taken
    BY <1>a, <2>1, Torn DEF NoticeInv
  <2>3. /\ job' \in [External -> {"none", "waiting", "active", "completed", "failed"}]
        /\ stalled' \in [External -> BOOLEAN]
        /\ \A s \in External : s # r => job'[s] = job[s]
        /\ job'[r] \in {"failed", "waiting"}
    BY <1>b, <2>1
  <2>4. /\ sender' \in [Senders -> {"idle", "load", "send", "sent", "rejected"}]
        /\ task' \in [Senders -> External \union {Notices!NoRow}]
        /\ holds' \in [Senders -> BOOLEAN] /\ ~ holds'[w]
        /\ sender'[w] = "idle" \/ (sender'[w] = sender[w] /\ task'[w] = r)
        /\ \A v \in Senders : v # w =>
              sender'[v] = sender[v] /\ task'[v] = task[v] /\ holds'[v] = holds[v]
    <3>1. CASE Notices!Rests(w)
      <4>1. /\ sender' \in [Senders -> {"idle", "load", "send", "sent", "rejected"}]
            /\ task' \in [Senders -> External \union {Notices!NoRow}]
            /\ holds' \in [Senders -> BOOLEAN]
            /\ sender'[w] = "idle" /\ ~ holds'[w]
            /\ \A v \in Senders : v # w =>
                  sender'[v] = sender[v] /\ task'[v] = task[v] /\ holds'[v] = holds[v]
        BY <1>b, <3>1 DEF Notices!Rests
      <4> QED
        BY <4>1
    <3>2. CASE holds' = [holds EXCEPT ![w] = FALSE] /\ UNCHANGED <<sender, task>>
      BY <1>b, <1>r, <3>2
    <3> QED
      BY <2>1, <3>1, <3>2
  <2>5. Notices!TypeOK'
    BY <1>c, <2>1, <2>2, <2>3, <2>4 DEF NoticeInv, Notices!TypeOK
  <2>6. MovesElsewhere(w, r)
    BY <1>c, <2>1, <2>2, <2>3, <2>4, <2>5 DEF MovesElsewhere
  <2>7. RowMoves(w, r)
    BY <1>a, <2>1, <2>2 DEF RowMoves
  <2>8. JobMoves(w, r)
    BY <1>a, <2>1, <2>2, <2>3, <2>4 DEF JobMoves
  <2>9. WorkerMoves(w, r)
    BY <1>a, <2>2, <2>4 DEF WorkerMoves
  <2> QED
    BY <1>0, <1>r, <2>6, <2>7, <2>8, <2>9, WorkerKeeps
<1> QED
  BY <1>1, <1>2, <1>3, <1>4, <1>5, <1>6 DEF Notices!SenderStep

\* A worker takes a job that waits: another that had it has lost its lock.
LEMMA TakeStep ==
    ASSUME NoticeInv, NEW w \in Senders, NEW r \in External, Notices!Take(w, r)
    PROVE  NoticeInv'
<1> USE DEF NoticeInv
<1>a. /\ job \in [External -> {"none", "waiting", "active", "completed", "failed"}]
      /\ sender \in [Senders -> {"idle", "load", "send", "sent", "rejected"}]
      /\ task \in [Senders -> External \union {Notices!NoRow}]
      /\ holds \in [Senders -> BOOLEAN]
  BY DEF Notices!TypeOK
<1>1. /\ UNCHANGED <<rules, rowStatus, call, todo, hand, tries, attempts, stalled, marks,
                     taken, torn, byUser, tears>>
      /\ sender[w] = "idle" /\ job[r] = "waiting"
      /\ job' = [job EXCEPT ![r] = "active"]
      /\ sender' = [sender EXCEPT ![w] = "load"]
      /\ task' = [task EXCEPT ![w] = r]
      /\ holds' = [holds EXCEPT ![w] = TRUE]
  BY DEF Notices!Take, Notices!calls, Notices!seen
<1>2. /\ job' \in [External -> {"none", "waiting", "active", "completed", "failed"}]
      /\ \A s \in External : job'[s] = IF s = r THEN "active" ELSE job[s]
  BY <1>1, <1>a
<1>3. /\ sender' \in [Senders -> {"idle", "load", "send", "sent", "rejected"}]
      /\ task' \in [Senders -> External \union {Notices!NoRow}]
      /\ holds' \in [Senders -> BOOLEAN]
      /\ \A v \in Senders :
            /\ sender'[v] = IF v = w THEN "load" ELSE sender[v]
            /\ task'[v] = IF v = w THEN r ELSE task[v]
            /\ holds'[v] = IF v = w THEN TRUE ELSE holds[v]
  BY <1>1, <1>a
<1>4. \A v \in Senders : sender[v] # "idle" /\ task[v] = r => ~ holds[v] /\ r \in torn
  BY <1>1 DEF SendersInv
<1>5. Notices!TypeOK'
  BY <1>1, <1>2, <1>3 DEF Notices!TypeOK
<1>6. HandsInv' /\ JobsInv'
  BY <1>1, <1>2 DEF HandsInv, JobsInv
<1>7. SendersInv'
  <2>1. rowStatus[r] # "NONE"
    BY <1>1 DEF JobsInv
  <2> QED
    BY <1>1, <1>2, <1>3, <1>4, <2>1 DEF SendersInv
<1>8. AloneInv'
  BY <1>1, <1>3, <1>4 DEF AloneInv
<1>9. TakenInv'
  <2> SUFFICES ASSUME NEW s \in External, taken[s] > 0, s \notin torn,
                      rowStatus[s] = "PENDING"
               PROVE  \E v \in Senders : sender'[v] = "sent" /\ task'[v] = s
    BY <1>1 DEF TakenInv
  <2>1. PICK v \in Senders : sender[v] = "sent" /\ task[v] = s
    BY DEF TakenInv
  <2> QED
    BY <1>1, <1>3, <2>1
<1>10. Notices!SentTwiceOnlyIfTorn' /\ Notices!InAppIsSettled'
  BY <1>1 DEF Notices!SentTwiceOnlyIfTorn, Notices!InAppIsSettled
<1>11. Notices!EndedJobIsAccountedFor'
  BY <1>1, <1>2 DEF Notices!EndedJobIsAccountedFor
<1> QED
  BY <1>5, <1>6, <1>7, <1>8, <1>9, <1>10, <1>11

LEMMA NoticeInvariance == ServicesSafety => []NoticeInv
<1>1. Notices!Init => NoticeInv
  <2> SUFFICES ASSUME Notices!Init PROVE NoticeInv
    OBVIOUS
  <2> USE DEF Notices!Init
  <2>1. 0 \in 0..MaxPublishes /\ 0 \in 0..MaxAttempts /\ 0 \in 0..MaxTears
    BY NoticeConstants
  <2>2. Notices!TypeOK
    BY <2>1 DEF Notices!TypeOK
  <2>3. HandsInv
    BY DEF HandsInv
  <2>4. JobsInv /\ TakenInv
    BY NoticeConstants DEF JobsInv, TakenInv
  <2>5. SendersInv /\ AloneInv
    BY DEF SendersInv, AloneInv
  <2>6. /\ Notices!SentTwiceOnlyIfTorn /\ Notices!EndedJobIsAccountedFor
        /\ Notices!InAppIsSettled
    BY NoticeConstants DEF Notices!SentTwiceOnlyIfTorn, Notices!EndedJobIsAccountedFor,
       Notices!InAppIsSettled
  <2> QED
    BY <2>2, <2>3, <2>4, <2>5, <2>6 DEF NoticeInv
<1>2. NoticeInv /\ [Notices!Next]_noticeVars => NoticeInv'
  <2> SUFFICES ASSUME NoticeInv, [Notices!Next]_noticeVars PROVE NoticeInv'
    OBVIOUS
  <2>1. CASE \E c \in NoticeCalls :
                Notices!CallStep(c) \/ Notices!DispatchFails(c) \/ Notices!CallDies(c)
    BY <2>1, OrchestratorSteps
  <2>2. CASE \E w \in Senders :
                Notices!SenderStep(w) \/ Notices!RecordFails(w) \/ Notices!Stalls(w)
    BY <2>2, WorkerSteps
  <2>3. CASE \E w \in Senders, r \in External : Notices!Take(w, r)
    BY <2>3, TakeStep
  <2>4. CASE \E r \in External :
                \/ Notices!recoverPendingRows(r) \/ Notices!Forget(r)
                \/ Notices!MarkFailed(r) \/ Notices!MarkIsLost(r)
    BY <2>4, JobSteps
  <2>5. CASE \/ \E r \in Notices!Rows : Notices!markRead(r) \/ Notices!hide(r)
             \/ Notices!markAllRead
    BY <2>5, RecipientSteps
  <2>6. CASE UNCHANGED noticeVars
    BY <2>6 DEF noticeVars, NoticeInv, Notices!TypeOK, HandsInv, JobsInv, SendersInv,
       AloneInv, TakenInv, Notices!SentTwiceOnlyIfTorn, Notices!EndedJobIsAccountedFor,
       Notices!InAppIsSettled
  <2> QED
    BY <2>1, <2>2, <2>3, <2>4, <2>5, <2>6 DEF Notices!Next
<1> QED
  BY <1>1, <1>2, EachAlone, PTL

\* The provider takes a message twice only if its first outcome was lost: the update
\* that marks the row SENT failed, or the worker died or lost its job's lock after the
\* provider had the message.
THEOREM OnceUnlessTorn == ServicesSafety => []SentTwiceOnlyIfTorn
<1>1. NoticeInv => SentTwiceOnlyIfTorn
  BY DEF NoticeInv, SentTwiceOnlyIfTorn
<1> QED
  BY <1>1, NoticeInvariance, PTL

\* A job that has ended has said so in its row, unless the recipient has read or hidden
\* the row or the mark is on its way or was lost, and a row stays PENDING_IN_APP only
\* while its publisher is at work or if it died or could not write the outcome.
THEOREM Accounted == ServicesSafety => []OutcomesAreAccountedFor
<1>1. NoticeInv => OutcomesAreAccountedFor
  BY DEF NoticeInv, OutcomesAreAccountedFor
<1> QED
  BY <1>1, NoticeInvariance, PTL
-----------------------------------------------------------------------------
(* The operations cache.  With the types StaleOnlyByRace is inductive: a step   *)
(* that stores a value older than the database excuses the copy, a write        *)
(* excuses what its invalidation will not reach, and an invalidation that gives *)
(* up excuses what is left.                                                     *)

CacheInv == Cache!TypeOK /\ Cache!StaleOnlyByRace

\* Every variable keeps its type under a step.
LEMMA CacheTypeStep ==
    ASSUME Cache!CacheAssumption, Cache!TypeOK, [Cache!Next]_cacheVars
    PROVE  Cache!TypeOK'
<1> USE DEF Cache!TypeOK, Cache!Places, Cache!NoCopy
<1>1. ASSUME NEW l \in Loads,
             \/ Cache!getOrSet(l) \/ Cache!GetFails(l) \/ Cache!LookUp(l)
             \/ Cache!Factory(l) \/ Cache!StoreLocal(l) \/ Cache!StoreRedis(l) \/ Cache!SetFails(l)
      PROVE  Cache!TypeOK'
  <2> USE <1>1 DEF Cache!Moves, Cache!Error, Cache!Store
  <2>1. CASE Cache!getOrSet(l)
    BY <2>1 DEF Cache!getOrSet
  <2>2. CASE Cache!GetFails(l)
    BY <2>2, Cache!CacheAssumption DEF Cache!GetFails, Cache!CacheAssumption
  <2>3. CASE Cache!LookUp(l)
    BY <2>3 DEF Cache!LookUp
  <2>4. CASE Cache!Factory(l)
    BY <2>4 DEF Cache!Factory
  <2>5. CASE Cache!StoreLocal(l)
    BY <2>5, Cache!CacheAssumption DEF Cache!StoreLocal, Cache!CacheAssumption
  <2>6. CASE Cache!StoreRedis(l)
    BY <2>6 DEF Cache!StoreRedis
  <2>7. CASE Cache!SetFails(l)
    BY <2>7, Cache!CacheAssumption DEF Cache!SetFails, Cache!CacheAssumption
  <2> QED
    BY <1>1, <2>1, <2>2, <2>3, <2>4, <2>5, <2>6, <2>7
<1>2. ASSUME NEW x \in Cache!Places, Cache!Expire(x)
      PROVE  Cache!TypeOK'
  BY <1>2 DEF Cache!Expire, Cache!Store
<1>3. ASSUME NEW p \in Hosts,
             \/ Cache!Write(p) \/ Cache!DeleteLocal(p) \/ Cache!Scan(p)
             \/ Cache!DeleteRedis(p) \/ Cache!InvalidationFails(p)
      PROVE  Cache!TypeOK'
  <2> USE <1>3 DEF Cache!Store, Cache!Held
  <2>1. CASE Cache!Write(p)
    BY <2>1, Cache!CacheAssumption DEF Cache!Write, Cache!CacheAssumption
  <2>2. CASE Cache!DeleteLocal(p)
    BY <2>2 DEF Cache!DeleteLocal
  <2>3. CASE Cache!Scan(p)
    BY <2>3 DEF Cache!Scan
  <2>4. CASE Cache!DeleteRedis(p)
    BY <2>4 DEF Cache!DeleteRedis
  <2>5. CASE Cache!InvalidationFails(p)
    BY <2>5, Cache!CacheAssumption
       DEF Cache!InvalidationFails, Cache!Error, Cache!CacheAssumption
  <2> QED
    BY <1>3, <2>1, <2>2, <2>3, <2>4, <2>5
<1>4. CASE Cache!WriteUncovered
  BY <1>4, Cache!CacheAssumption
     DEF Cache!WriteUncovered, Cache!Error, Cache!Held, Cache!CacheAssumption
<1>5. CASE UNCHANGED cacheVars
  BY <1>5 DEF cacheVars
<1> QED
  BY <1>1, <1>2, <1>3, <1>4, <1>5 DEF Cache!Next

\* A value that is stored is the database's, or its copy is excused.
LEMMA StoredIsExcused ==
    ASSUME Cache!TypeOK, NEW x \in Cache!Places,
           NEW v \in {Cache!NoCopy} \union 0..MaxWrites,
           Cache!Store(x, v), version' = version,
           NEW y \in Cache!Places, Cache!Stale(y)', y \notin excused'
    PROVE  y # x /\ Cache!Stale(y) /\ y \notin excused
BY DEF Cache!Store, Cache!Stale, Cache!TypeOK, Cache!Places, Cache!NoCopy

\* A step keeps every stale copy accounted for.
LEMMA StaleStep ==
    ASSUME Cache!CacheAssumption, Cache!TypeOK, Cache!StaleOnlyByRace, [Cache!Next]_cacheVars
    PROVE  Cache!StaleOnlyByRace'
<1> SUFFICES ASSUME NEW y \in Cache!Places, Cache!Stale(y)', y \notin excused'
             PROVE  IF y = Cache!Redis THEN \E p \in Hosts : inval'[p] # "none"
                                 ELSE inval'[y] = "local"
  BY DEF Cache!StaleOnlyByRace, Cache!Stale
<1> DEFINE Pending == IF y = Cache!Redis THEN \E p \in Hosts : inval[p] # "none"
                                   ELSE inval[y] = "local"
<1>0. Cache!Stale(y) /\ y \notin excused => Pending
  BY DEF Cache!StaleOnlyByRace
<1>1. ASSUME NEW l \in Loads,
             \/ Cache!getOrSet(l) \/ Cache!GetFails(l) \/ Cache!LookUp(l)
             \/ Cache!Factory(l) \/ Cache!SetFails(l)
      PROVE  Pending /\ inval' = inval
  BY <1>0, <1>1
     DEF Cache!getOrSet, Cache!GetFails, Cache!LookUp, Cache!Factory, Cache!SetFails,
         Cache!Stale
<1>2. ASSUME NEW l \in Loads, Cache!StoreLocal(l) \/ Cache!StoreRedis(l)
      PROVE  Pending /\ inval' = inval
  <2>1. value[l] \in {Cache!NoCopy} \union 0..MaxWrites
    BY DEF Cache!TypeOK
  <2>2. CASE Cache!StoreLocal(l)
    <3>1. LoadHost[l] \in Cache!Places
      BY Cache!CacheAssumption DEF Cache!CacheAssumption, Cache!Places
    <3> QED
      BY <1>0, <2>1, <2>2, <3>1, StoredIsExcused DEF Cache!StoreLocal
  <2>3. CASE Cache!StoreRedis(l)
    <3>1. Cache!Redis \in Cache!Places
      BY DEF Cache!Places
    <3> QED
      BY <1>0, <2>1, <2>3, <3>1, StoredIsExcused DEF Cache!StoreRedis
  <2> QED
    BY <1>2, <2>2, <2>3
<1>3. ASSUME NEW x \in Cache!Places, Cache!Expire(x)
      PROVE  Pending /\ inval' = inval
  BY <1>0, <1>3, StoredIsExcused DEF Cache!Expire
<1>4. ASSUME NEW p \in Hosts,
             \/ Cache!Write(p) \/ Cache!DeleteLocal(p) \/ Cache!Scan(p)
             \/ Cache!DeleteRedis(p) \/ Cache!InvalidationFails(p)
      PROVE  IF y = Cache!Redis THEN \E q \in Hosts : inval'[q] # "none"
                          ELSE inval'[y] = "local"
  <2>1. CASE Cache!Write(p)
    <3>1. y = p \/ y = Cache!Redis
      BY <2>1 DEF Cache!Write, Cache!Held, Cache!Stale, Cache!TypeOK
    <3>2. inval'[p] = "local"
      BY <2>1 DEF Cache!Write, Cache!TypeOK
    <3> QED
      BY <3>1, <3>2
  <2>2. CASE Cache!DeleteLocal(p)
    <3>1. y # p /\ Pending
      BY <1>0, <2>2, StoredIsExcused DEF Cache!DeleteLocal, Cache!Places
    <3>2. inval' = [inval EXCEPT ![p] = "scan"]
      BY <2>2 DEF Cache!DeleteLocal
    <3>3. CASE y = Cache!Redis
      BY <3>2, <3>3 DEF Cache!TypeOK
    <3>4. CASE y # Cache!Redis
      BY <3>1, <3>2, <3>4 DEF Cache!TypeOK, Cache!Places
    <3> QED
      BY <3>3, <3>4
  <2>3. CASE Cache!Scan(p)
    <3>1. Cache!Stale(y) /\ y \notin excused /\ Pending
      BY <1>0, <2>3 DEF Cache!Scan, Cache!Stale
    <3>2. CASE y = Cache!Redis
      <4>1. copy[Cache!Redis] # Cache!NoCopy
        BY <3>1, <3>2 DEF Cache!Stale
      <4>2. inval'[p] = "del"
        BY <2>3, <4>1 DEF Cache!Scan, Cache!TypeOK
      <4> QED
        BY <3>2, <4>2
    <3>3. CASE y # Cache!Redis
      <4>1. y # p
        BY <2>3, <3>1, <3>3 DEF Cache!Scan
      <4> QED
        BY <2>3, <3>1, <3>3, <4>1 DEF Cache!Scan, Cache!TypeOK, Cache!Places
    <3> QED
      BY <3>2, <3>3
  <2>4. CASE Cache!DeleteRedis(p)
    <3>1. y # Cache!Redis /\ Pending
      BY <1>0, <2>4, StoredIsExcused DEF Cache!DeleteRedis, Cache!Places
    <3>2. y # p
      BY <2>4, <3>1 DEF Cache!DeleteRedis
    <3> QED
      BY <2>4, <3>1, <3>2 DEF Cache!DeleteRedis, Cache!TypeOK, Cache!Places
  <2>5. CASE Cache!InvalidationFails(p)
    <3>1. y # Cache!Redis /\ Pending
      BY <1>0, <2>5 DEF Cache!InvalidationFails, Cache!Stale, Cache!Held, Cache!Places
    <3>2. y # p
      BY <2>5, <3>1 DEF Cache!InvalidationFails
    <3> QED
      BY <2>5, <3>1, <3>2 DEF Cache!InvalidationFails, Cache!TypeOK, Cache!Places
  <2> QED
    BY <1>4, <2>1, <2>2, <2>3, <2>4, <2>5
<1>5. ~ Cache!WriteUncovered
  BY DEF Cache!WriteUncovered, Cache!Held, Cache!Stale
<1>6. CASE UNCHANGED cacheVars
  BY <1>0, <1>6 DEF cacheVars, Cache!Stale
<1>7. CASE Cache!Next
  BY <1>1, <1>2, <1>3, <1>4, <1>5, <1>7 DEF Cache!Next
<1> QED
  BY <1>6, <1>7

LEMMA CacheInit == Cache!Init => CacheInv
<1> SUFFICES ASSUME Cache!Init PROVE CacheInv
  OBVIOUS
<1>1. Cache!TypeOK
  BY ServicesAssumption
     DEF Cache!CacheAssumption, Cache!Init, Cache!TypeOK, Cache!Places, Cache!NoCopy
<1>2. Cache!StaleOnlyByRace
  BY DEF Cache!Init, Cache!StaleOnlyByRace, Cache!Stale, Cache!NoCopy
<1> QED
  BY <1>1, <1>2 DEF CacheInv

LEMMA CacheStep == CacheInv /\ [Cache!Next]_cacheVars => CacheInv'
BY ServicesAssumption, CacheTypeStep, StaleStep DEF CacheInv

\* The cache alone: a copy that is out of date, and that no invalidation under way will
\* delete, was brought back by a load that had asked the database before the write, is
\* out of its writer's reach, or was left by an invalidation that failed
\* (operations-cache.service.ts:28-99).
THEOREM StaleCopiesExplained == Cache!Spec => []Cache!StaleOnlyByRace
<1>1. [Cache!Next]_(Cache!vars) => [Cache!Next]_cacheVars
  BY DEF Cache!vars, cacheVars
<1>2. CacheInv /\ [Cache!Next]_(Cache!vars) => CacheInv'
  BY <1>1, CacheStep
<1>3. CacheInv => Cache!StaleOnlyByRace
  BY DEF CacheInv
<1> QED
  BY <1>2, <1>3, CacheInit, PTL DEF Cache!Spec

\* The same in the composition.
THEOREM StaleExplained == ServicesSafety => []StaleOnlyByRace
<1>1. CacheInv => StaleOnlyByRace
  BY DEF CacheInv, StaleOnlyByRace
<1> QED
  BY <1>1, CacheInit, CacheStep, EachAlone, PTL
-----------------------------------------------------------------------------
(* The sessions, whose own module holds the proof: its definitions are matched to *)
(* the ones composed here                                                        *)

SessionFacts == INSTANCE CuaKhauSoSessionsProofs
                  WITH None <- NoOne, outrun <- outrunSlots

LEMMA SessionsAlone ==
    ServicesSafety => [](SessionFacts!TypeOK /\ SessionFacts!ConnectedReadsItsAccount)
<1>1. SessionFacts!SessionsAssumption
  <2>1. Sessions!SessionsAssumption
    BY ServicesAssumption
  <2> QED
    BY <2>1 DEF Sessions!SessionsAssumption, SessionFacts!SessionsAssumption
<1>2. SessionFacts!Spec => [](SessionFacts!TypeOK /\ SessionFacts!ConnectedReadsItsAccount)
  BY <1>1, SessionFacts!TypeCorrect, SessionFacts!LastConnectIsRead, PTL
<1>3. Sessions!Init => SessionFacts!Init
  BY DEF Sessions!Init, SessionFacts!Init, Sessions!NoCall, SessionFacts!NoCall
<1>4. [Sessions!Next]_sessionVars => [SessionFacts!Next]_SessionFacts!vars
  BY DEF sessionVars, SessionFacts!vars, Sessions!Next, SessionFacts!Next,
     Sessions!connect, SessionFacts!connect, Sessions!ConnectLoggedIn,
     SessionFacts!ConnectLoggedIn, Sessions!ConnectUpserts,
     SessionFacts!ConnectUpserts, Sessions!ConnectUpsertFails,
     SessionFacts!ConnectUpsertFails, Sessions!fetchDeclarationDetail,
     SessionFacts!fetchDeclarationDetail, Sessions!ReadAccount,
     SessionFacts!ReadAccount, Sessions!SignedIn, SessionFacts!SignedIn,
     Sessions!Unauthorized, SessionFacts!Unauthorized, Sessions!Answered,
     SessionFacts!Answered, Sessions!Fails, SessionFacts!Fails, Sessions!Expires,
     SessionFacts!Expires, Sessions!Restarts, SessionFacts!Restarts,
     Sessions!Begins, SessionFacts!Begins, Sessions!MovesTo, SessionFacts!MovesTo,
     Sessions!Ends, SessionFacts!Ends, Sessions!At, SessionFacts!At,
     Sessions!UnderWay, SessionFacts!UnderWay, Sessions!saveAs, SessionFacts!saveAs,
     Sessions!NoCall, SessionFacts!NoCall, Sessions!Connecting,
     SessionFacts!Connecting
<1> QED
  BY <1>2, <1>3, <1>4, EachAlone, PTL DEF SessionFacts!Spec

\* The user who connected the organisation last reads from the account that is
\* connected, unless another call of that user overlapped the connect or the account
\* could not be saved (cua-khau-so.service.ts:157-188, 1431-1445).
THEOREM LastConnectIsRead == ServicesSafety => []ConnectedReadsItsAccount
<1>1. SessionFacts!ConnectedReadsItsAccount => ConnectedReadsItsAccount
  BY DEF ConnectedReadsItsAccount, Sessions!ConnectedReadsItsAccount,
     SessionFacts!ConnectedReadsItsAccount, Sessions!UnderWay,
     SessionFacts!UnderWay, Sessions!Connecting, SessionFacts!Connecting
<1> QED
  BY <1>1, SessionsAlone, PTL
-----------------------------------------------------------------------------
(* The trip list and what operators are offered, whose own module holds the proofs: *)
(* its definitions are those composed here                                        *)

TripFacts == INSTANCE TripOperationsProofs WITH status <- tripStatus

LEMMA SameLists ==
    /\ \A filter : Operations!Listing(filter) = TripFacts!Listing(filter)
    /\ \A S, otherwise :
         Operations!LastShown(S, otherwise) = TripFacts!LastShown(S, otherwise)
<1>1. ASSUME NEW filter
      PROVE  Operations!Listing(filter) = TripFacts!Listing(filter)
  BY DEF Operations!DelayMinutes, TripFacts!DelayMinutes, Operations!ArrivalDelay,
     TripFacts!ArrivalDelay, Operations!PlannedStartDelay,
     TripFacts!PlannedStartDelay, Operations!StatusDelay, TripFacts!StatusDelay,
     Operations!statusDelayThresholdMinutes, TripFacts!statusDelayThresholdMinutes,
     Operations!Elapsed, TripFacts!Elapsed, Operations!AtLeastZero,
     TripFacts!AtLeastZero, Operations!Max, TripFacts!Max, Operations!NoTime,
     TripFacts!NoTime, Operations!terminalStatuses, TripFacts!terminalStatuses,
     Operations!priority, TripFacts!priority, Operations!priorityRank,
     TripFacts!priorityRank, Operations!exceptionCodes, TripFacts!exceptionCodes,
     Operations!Listing, TripFacts!Listing, Operations!where, TripFacts!where,
     Operations!CutByDatabase, TripFacts!CutByDatabase, Operations!Sorted, TripFacts!Sorted,
     Operations!DatabaseKey, TripFacts!DatabaseKey, Operations!OperationsKey,
     TripFacts!OperationsKey, Operations!LexBefore, TripFacts!LexBefore,
     Operations!matchesExceptionFilter, TripFacts!matchesExceptionFilter,
     Operations!attentionStatuses, TripFacts!attentionStatuses
<1>2. ASSUME NEW S, NEW otherwise
      PROVE  Operations!LastShown(S, otherwise) = TripFacts!LastShown(S, otherwise)
  BY DEF Operations!DelayMinutes, TripFacts!DelayMinutes, Operations!ArrivalDelay,
     TripFacts!ArrivalDelay, Operations!PlannedStartDelay,
     TripFacts!PlannedStartDelay, Operations!StatusDelay, TripFacts!StatusDelay,
     Operations!statusDelayThresholdMinutes, TripFacts!statusDelayThresholdMinutes,
     Operations!Elapsed, TripFacts!Elapsed, Operations!AtLeastZero,
     TripFacts!AtLeastZero, Operations!Max, TripFacts!Max, Operations!NoTime,
     TripFacts!NoTime, Operations!terminalStatuses, TripFacts!terminalStatuses,
     Operations!priority, TripFacts!priority, Operations!priorityRank,
     TripFacts!priorityRank, Operations!exceptionCodes, TripFacts!exceptionCodes,
     Operations!LastShown, TripFacts!LastShown, Operations!Sorted, TripFacts!Sorted,
     Operations!OperationsKey, TripFacts!OperationsKey, Operations!LexBefore,
     TripFacts!LexBefore
<1> QED
  BY <1>1, <1>2

LEMMA SamePages ==
    ASSUME NEW list
    PROVE  /\ Operations!Listed(list) = TripFacts!Listed(list)
           /\ \A filter, cursor :
                Operations!Page(filter, list, cursor) = TripFacts!Page(filter, list, cursor)
           /\ \A before, seen :
                Operations!Reordered(before, list, seen) = TripFacts!Reordered(before, list, seen)
<1>1. \A t : Operations!Position(t, list) = TripFacts!Position(t, list)
  BY DEF Operations!Position, TripFacts!Position, Operations!Cardinality,
     TripFacts!Cardinality
<1>2. Operations!Listed(list) = TripFacts!Listed(list)
  BY DEF Operations!Listed, TripFacts!Listed
<1>3. ASSUME NEW filter, NEW cursor
      PROVE  Operations!Page(filter, list, cursor) = TripFacts!Page(filter, list, cursor)
  <2>1. Operations!NoTrip = TripFacts!NoTrip
    BY DEF Operations!NoTrip, TripFacts!NoTrip
  <2>2. Operations!CutByDatabase(filter) <=> TripFacts!CutByDatabase(filter)
    BY DEF Operations!CutByDatabase, TripFacts!CutByDatabase
  <2>3. \A t, u : Operations!LexBefore(Operations!DatabaseKey(t), Operations!DatabaseKey(u)) =
                   TripFacts!LexBefore(TripFacts!DatabaseKey(t), TripFacts!DatabaseKey(u))
    BY DEF Operations!DatabaseKey, TripFacts!DatabaseKey, Operations!LexBefore,
       TripFacts!LexBefore, Operations!NoTime, TripFacts!NoTime
  <2>4. \A S : Operations!Cardinality(S) = TripFacts!Cardinality(S)
    BY DEF Operations!Cardinality, TripFacts!Cardinality
  <2>5. {t \in Operations!Listed(list) :
           Operations!LexBefore(Operations!DatabaseKey(t), Operations!DatabaseKey(cursor))} =
        {t \in TripFacts!Listed(list) :
           TripFacts!LexBefore(TripFacts!DatabaseKey(t), TripFacts!DatabaseKey(cursor))}
    BY <1>2, <2>3
  <2>6. Operations!StartIndex(filter, list, cursor) = TripFacts!StartIndex(filter, list, cursor)
    BY <1>1, <1>2, <2>1, <2>2, <2>4, <2>5 DEF Operations!StartIndex, TripFacts!StartIndex
  <2> QED
    BY <1>1, <1>2, <2>6 DEF Operations!Page, TripFacts!Page
<1>4. ASSUME NEW before, NEW seen
      PROVE  Operations!Reordered(before, list, seen) = TripFacts!Reordered(before, list, seen)
  BY DEF Operations!Reordered, TripFacts!Reordered, Operations!Listed, TripFacts!Listed
<1> QED
  BY <1>2, <1>3, <1>4

LEMMA SameMoreArrives ==
    Operations!MoreArrives => TripFacts!MoreArrives
<1>1. Operations!NoTrip = TripFacts!NoTrip
  BY DEF Operations!NoTrip, TripFacts!NoTrip
<1> SUFFICES ASSUME Operations!MoreArrives
             PROVE  TripFacts!MoreArrives
  OBVIOUS
<1> DEFINE list == Operations!Listing(reader.filter)
           page == Operations!Page(reader.filter, list, reader.asked)
           seen == reader.allTrips
<1>2. /\ list = TripFacts!Listing(reader.filter)
      /\ page = TripFacts!Page(reader.filter, list, reader.asked)
  BY SameLists, SamePages
<1>3. /\ Operations!LastShown(page \ seen, reader.last) =
            TripFacts!LastShown(page \ seen, reader.last)
      /\ Operations!Reordered(reader.list, list, seen) =
            TripFacts!Reordered(reader.list, list, seen)
      /\ Operations!Listed(list) = TripFacts!Listed(list)
      /\ Operations!Listed(reader.list) = TripFacts!Listed(reader.list)
  BY SameLists, SamePages
<1>4. Operations!Cardinality(page) = TripFacts!Cardinality(page)
  BY DEF Operations!Cardinality, TripFacts!Cardinality
<1>5. /\ reader.asked # Operations!NoTrip
      /\ UNCHANGED <<kinds, clock, tripStatus, since, latest>>
      /\ reader' =
           [reader EXCEPT
              !.allTrips = seen \union page,
              !.last = Operations!LastShown(page \ seen, @),
              !.asked = Operations!NoTrip,
              !.end = IF Operations!Cardinality(page) < PageSize THEN "reached" ELSE @,
              !.list = list,
              !.stayed = @ \intersect Operations!Listed(list),
              !.reordered = @ \/ Operations!Reordered(reader.list, list, seen),
              !.joined = @ \/ ~ Operations!Listed(list) \subseteq Operations!Listed(reader.list),
              !.lost = @ \/ reader.asked \notin Operations!Listed(list),
              !.inVain = Operations!Cardinality(page) = PageSize /\ page \subseteq seen]
  BY DEF Operations!MoreArrives
<1>6. /\ reader.asked # TripFacts!NoTrip
      /\ UNCHANGED <<kinds, clock, tripStatus, since, latest>>
      /\ reader' =
           [reader EXCEPT
              !.allTrips = seen \union page,
              !.last = TripFacts!LastShown(page \ seen, @),
              !.asked = TripFacts!NoTrip,
              !.end = IF TripFacts!Cardinality(page) < PageSize THEN "reached" ELSE @,
              !.list = list,
              !.stayed = @ \intersect TripFacts!Listed(list),
              !.reordered = @ \/ TripFacts!Reordered(reader.list, list, seen),
              !.joined = @ \/ ~ TripFacts!Listed(list) \subseteq TripFacts!Listed(reader.list),
              !.lost = @ \/ reader.asked \notin TripFacts!Listed(list),
              !.inVain = TripFacts!Cardinality(page) = PageSize /\ page \subseteq seen]
  <2> HIDE DEF list, page
  <2> QED
    BY <1>1, <1>3, <1>4, <1>5
<1> HIDE DEF list, page
<1> QED
  BY <1>2, <1>6 DEF TripFacts!MoreArrives

LEMMA SameTripSteps ==
    [Operations!Next]_tripVars => [TripFacts!Next]_TripFacts!vars
<1>1. Operations!Report => TripFacts!Report
  BY DEF Operations!createEvent, TripFacts!createEvent, Operations!CanApplyEvent,
     TripFacts!CanApplyEvent, Operations!Projects, TripFacts!Projects,
     Operations!StatusAfter, TripFacts!StatusAfter, Operations!eventStatusProjection,
     TripFacts!eventStatusProjection, Operations!allowedTransitions,
     TripFacts!allowedTransitions, Operations!Report, TripFacts!Report
<1>2. ASSUME NEW filter
      PROVE  Operations!FirstPage(filter) => TripFacts!FirstPage(filter)
  <2> DEFINE list == Operations!Listing(filter)
             page == Operations!Page(filter, list, Operations!NoTrip)
  <2>1. Operations!NoReader = TripFacts!NoReader /\ Operations!NoTrip = TripFacts!NoTrip
    BY DEF Operations!NoReader, TripFacts!NoReader, Operations!NoTrip, TripFacts!NoTrip,
       Operations!NoFilter, TripFacts!NoFilter
  <2>2. list = TripFacts!Listing(filter)
    BY SameLists
  <2>3. /\ page = TripFacts!Page(filter, list, TripFacts!NoTrip)
        /\ Operations!Listed(list) = TripFacts!Listed(list)
    BY <2>1, SamePages
  <2>4. Operations!LastShown(page, Operations!NoTrip) =
          TripFacts!LastShown(page, TripFacts!NoTrip)
    BY <2>1, SameLists
  <2> QED
    BY <2>1, <2>2, <2>3, <2>4 DEF Operations!FirstPage, TripFacts!FirstPage
<1> QED
  BY <1>1, <1>2, SameMoreArrives DEF tripVars, TripFacts!vars, Operations!Next, TripFacts!Next,
     Operations!TimePasses, TripFacts!TimePasses, Operations!OpenList,
     TripFacts!OpenList, Operations!triggerCksSync, TripFacts!triggerCksSync,
     Operations!loadMore, TripFacts!loadMore, Operations!MoreFails,
     TripFacts!MoreFails, Operations!NoTrip, TripFacts!NoTrip, Operations!NoFilter,
     TripFacts!NoFilter

LEMMA TripsAlone ==
    ServicesSafety =>
        [](TripFacts!TypeOK /\ TripFacts!ListGoesOn /\ TripFacts!OfferedIsAccepted)
<1>1. TripFacts!OperationsAssumption
  <2>1. Operations!OperationsAssumption
    BY ServicesAssumption
  <2> QED
    BY <2>1 DEF Operations!OperationsAssumption, TripFacts!OperationsAssumption,
     Operations!NoTrip, TripFacts!NoTrip, Operations!NoTime, TripFacts!NoTime,
     Operations!EventTypes, TripFacts!EventTypes, Operations!eventStatusProjection,
     TripFacts!eventStatusProjection, Operations!NeutralType, TripFacts!NeutralType,
     Operations!TripStatuses, TripFacts!TripStatuses, Operations!exceptionFilters,
     TripFacts!exceptionFilters, Operations!IsFiniteSet, TripFacts!IsFiniteSet
<1>2. TripFacts!Spec =>
        [](TripFacts!TypeOK /\ TripFacts!ListGoesOn /\ TripFacts!OfferedIsAccepted)
  BY <1>1, TripFacts!ListsInvariance, TripFacts!GoesOn, TripFacts!OffersAreAccepted, PTL
<1>3. Operations!Init => TripFacts!Init
  BY DEF Operations!Init, TripFacts!Init, Operations!NoReader, TripFacts!NoReader,
     Operations!NoTrip, TripFacts!NoTrip, Operations!NoFilter, TripFacts!NoFilter
<1> QED
  BY <1>2, <1>3, SameTripSteps, EachAlone, PTL DEF TripFacts!Spec

\* A trip list is read to its end in full, and a full page brings something new, but
\* for trips that change places or leave and come back, a cursor that has left, a trip
\* that joins a list the database cuts, and a page that the list is loaded anew before;
\* a cursor that has left the exceptions costs no trip (trips.service.ts:255-483,
\* trips-client.tsx:90-99, 224-228, 252-276).
THEOREM ListsAreReadInFull == ServicesSafety => []ListGoesOn
<1>1. TripFacts!ListGoesOn => ListGoesOn
  BY DEF ListGoesOn, Operations!ListGoesOn, TripFacts!ListGoesOn,
     Operations!MissedOnlyByRace, TripFacts!MissedOnlyByRace,
     Operations!StuckOnlyIfCursorLeft, TripFacts!StuckOnlyIfCursorLeft,
     Operations!CutByDatabase, TripFacts!CutByDatabase
<1> QED
  BY <1>1, TripsAlone, PTL

\* The events a trip's page offers are accepted, but for WAITING_YARD_ENTRY at the
\* border gate and YARD_ENTRY_CONFIRMED for a late trip
\* (trip-operations.service.ts:113-168, 451-590 against the tables of
\* trip-state-transition.service.ts).
THEOREM OffersAreAccepted == ServicesSafety => []OfferedIsAccepted
<1>1. TripFacts!OfferedIsAccepted => OfferedIsAccepted
  BY DEF OfferedIsAccepted, Operations!OfferedIsAccepted, TripFacts!OfferedIsAccepted,
     Operations!availableManualActions, TripFacts!availableManualActions,
     Operations!NextAction, TripFacts!NextAction, Operations!manualActionsByStatus,
     TripFacts!manualActionsByStatus, Operations!Delayed, TripFacts!Delayed,
     Operations!exceptionCodes, TripFacts!exceptionCodes, Operations!DelayMinutes,
     TripFacts!DelayMinutes, Operations!ArrivalDelay, TripFacts!ArrivalDelay,
     Operations!PlannedStartDelay, TripFacts!PlannedStartDelay,
     Operations!StatusDelay, TripFacts!StatusDelay,
     Operations!statusDelayThresholdMinutes, TripFacts!statusDelayThresholdMinutes,
     Operations!Elapsed, TripFacts!Elapsed, Operations!AtLeastZero,
     TripFacts!AtLeastZero, Operations!Max, TripFacts!Max, Operations!CanApplyEvent,
     TripFacts!CanApplyEvent, Operations!Projects, TripFacts!Projects,
     Operations!StatusAfter, TripFacts!StatusAfter, Operations!eventStatusProjection,
     TripFacts!eventStatusProjection, Operations!allowedTransitions,
     TripFacts!allowedTransitions, Operations!NoTime, TripFacts!NoTime,
     Operations!terminalStatuses, TripFacts!terminalStatuses
<1> QED
  BY <1>1, TripsAlone, PTL
-----------------------------------------------------------------------------

\* Every service's variables have their types, however the services take turns.
THEOREM AllTypesCorrect == ServicesSafety => []TypesOK
<1>1. Spec => []TypeOK
  BY TypeCorrect
<1>2. SessionFacts!TypeOK => Sessions!TypeOK
  BY DEF SessionFacts!TypeOK, Sessions!TypeOK, SessionFacts!Steps, Sessions!Steps
<1>3. TripFacts!TypeOK => Operations!TypeOK
  BY DEF Operations!TypeOK, TripFacts!TypeOK, Operations!NoTrip, TripFacts!NoTrip,
     Operations!NoTime, TripFacts!NoTime, Operations!NoFilter, TripFacts!NoFilter,
     Operations!TripStatuses, TripFacts!TripStatuses, Operations!EventTypes,
     TripFacts!EventTypes, Operations!eventStatusProjection,
     TripFacts!eventStatusProjection, Operations!NeutralType, TripFacts!NeutralType
<1>4. /\ NoticeInv => Notices!TypeOK
      /\ CacheInv => Cache!TypeOK
      /\ SyncInv => Syncs!TypeOK
      /\ FleetInv => Organisation!TypeOK
  BY DEF NoticeInv, CacheInv, SyncInv, FleetInv
<1>5. TypesOK <=> /\ TypeOK /\ Notices!TypeOK /\ Cache!TypeOK /\ Syncs!TypeOK
                  /\ Sessions!TypeOK /\ Operations!TypeOK /\ Organisation!TypeOK
  BY DEF TypesOK
<1> QED
  BY <1>1, <1>2, <1>3, <1>4, <1>5, EachAlone, NoticeInvariance, CacheInit, CacheStep,
     SyncInvariance, FleetInvariance, SessionsAlone, TripsAlone, PTL DEF Spec
=============================================================================
