--------------------------------- MODULE Fleet ---------------------------------
(***************************************************************************)
(* The drivers and vehicles of an organisation, the trips that refer to     *)
(* them, and the drivers' portal: DriversService, VehiclesService and       *)
(* TripsService.createTrip.                                                 *)
(*                                                                         *)
(* Every call first checks what it refers to and then writes by id in a     *)
(* transaction that locks nothing it has read (createTrip's check is in the *)
(* transaction, at READ COMMITTED).  Deletion sets deletedAt, so a row      *)
(* stays, with its references and its unique values.  A vehicle is its      *)
(* plate, a trip its code, neither of which is changed here; names, phones  *)
(* and types decide nothing.                                                *)
(***************************************************************************)
EXTENDS Integers, FiniteSets

CONSTANTS
    Drivers, Vehicles, Trips,
    People,     \* active members, who can be linked to a driver profile
    Files,      \* storage paths or URLs of what drivers upload
    Calls,      \* calls under way
    Rosters,    \* bound: what each call may be about in a behaviour
    Nobody,     \* no user, no driver, no vehicle
    MaxMedia,   \* bound: media rows of a file
    MaxLosses   \* bound: calls that fail or whose process dies

VARIABLES
    duties,           \* the roster of this behaviour
    driver, linked,   \* of each profile: its row, and its userId
    vehicle, default, \* of each vehicle: its row, and its defaultDriverId
    trip, refs, crew, \* of each trip: is it there and does the portal show it, its
                      \* references, its DRIVER participants
    event, media,     \* of each upload: its trip event, and how many media rows
    call,
    strayed,          \* history: vehicles whose driver a deletion overtook
    cut,              \* history: uploads whose call did not get to the media row
    losses

drivers == <<driver, linked>>
vehicles == <<vehicle, default>>
trips == <<trip, refs, crew>>
uploads == <<event, media>>
vars == <<duties, drivers, vehicles, trips, uploads, call, strayed, cut, losses>>

\* Nobody is no user, driver or vehicle.
FleetAssumption ==
    /\ Nobody \notin People \union Drivers \union Vehicles
    /\ MaxMedia \in Nat /\ MaxLosses \in Nat

Rows == {"none", "live", "deleted"}
Uploads == Trips \X Files
Idle == [does |-> "nothing"]
Refs == [vehicle : Vehicles \union {Nobody}, driver : Drivers \union {Nobody}]

Pending ==
    {Idle}
      \union [does : {"createDriver"}, user : People \union {Nobody}]
      \union [does : {"updateDriver"}, driver : Drivers, user : People \union {Nobody}]
      \union [does : {"deleteDriver"}, driver : Drivers]
      \union [does : {"createVehicle", "updateVehicle"}, vehicle : Vehicles,
              driver : Drivers \union {Nobody}, overtaken : BOOLEAN]
      \union [does : {"deleteVehicle"}, vehicle : Vehicles]
      \union [does : {"createTrip"}, trip : Trips, refs : Refs, crew : SUBSET People]
      \union [does : {"createEvent", "createMedia"}, upload : Uploads]

TypeOK ==
    /\ duties \in Rosters
    /\ driver \in [Drivers -> Rows] /\ linked \in [Drivers -> People \union {Nobody}]
    /\ vehicle \in [Vehicles -> Rows] /\ default \in [Vehicles -> Drivers \union {Nobody}]
    /\ trip \in [Trips -> {"none", "shown", "hidden"}]
    /\ refs \in [Trips -> Refs] /\ crew \in [Trips -> SUBSET People]
    /\ event \in [Uploads -> BOOLEAN] /\ media \in [Uploads -> 0..MaxMedia]
    /\ \A c \in Calls : call[c] \in Pending
    /\ strayed \subseteq Vehicles /\ cut \subseteq Uploads
    /\ losses \in 0..MaxLosses

Init ==
    /\ duties \in Rosters
    /\ driver = [d \in Drivers |-> "none"]
    /\ linked = [d \in Drivers |-> Nobody]
    /\ vehicle = [v \in Vehicles |-> "none"]
    /\ default = [v \in Vehicles |-> Nobody]
    /\ trip = [t \in Trips |-> "none"]
    /\ refs = [t \in Trips |-> [vehicle |-> Nobody, driver |-> Nobody]]
    /\ crew = [t \in Trips |-> {}]
    /\ event = [u \in Uploads |-> FALSE]
    /\ media = [u \in Uploads |-> 0]
    /\ call = [c \in Calls |-> Idle]
    /\ strayed = {}
    /\ cut = {}
    /\ losses = 0

Does(c, what) == call[c].does = what
Asks(c, request) ==
    /\ Does(c, "nothing") /\ request.does \in duties[c]
    /\ call' = [call EXCEPT ![c] = request]
Ends(c) == call' = [call EXCEPT ![c] = Idle]
rows == <<duties, drivers, vehicles, trips, uploads, strayed, cut, losses>>

LiveDrivers == {d \in Drivers : driver[d] = "live"}
LiveVehicles == {v \in Vehicles : vehicle[v] = "live"}

-----------------------------------------------------------------------------
(* Drivers *)

\* createDriver and updateDriver (a null userId unlinks; other fields decide
\* nothing): toDriverCreateData, toDriverUpdateData, findDriverOrThrow.
CheckDriver(c) ==
    \E u \in People \union {Nobody} :
        /\ \/ Asks(c, [does |-> "createDriver", user |-> u])
           \/ \E d \in LiveDrivers :
                 Asks(c, [does |-> "updateDriver", driver |-> d, user |-> u])
        /\ UNCHANGED rows

\* userId is unique, also among profiles that were deleted.
LinkedTo(u) == {e \in Drivers : linked[e] = u} \ {e \in Drivers : linked[e] = Nobody}

WriteDriver(c) ==
    /\ \/ /\ Does(c, "createDriver")
          /\ \E d \in Drivers :
                /\ driver[d] = "none"
                /\ LinkedTo(call[c].user) = {}
                /\ driver' = [driver EXCEPT ![d] = "live"]
                /\ linked' = [linked EXCEPT ![d] = call[c].user]
       \/ /\ Does(c, "updateDriver")
          /\ LinkedTo(call[c].user) \subseteq {call[c].driver}
          /\ linked' = [linked EXCEPT ![call[c].driver] = call[c].user]
          /\ UNCHANGED driver
    /\ Ends(c)
    /\ UNCHANGED <<duties, vehicles, trips, uploads, strayed, cut, losses>>

\* The unique index refuses the user: 409, "already linked to a driver profile".
DriverConflicts(c) ==
    /\ \/ Does(c, "createDriver") /\ LinkedTo(call[c].user) # {}
       \/ Does(c, "updateDriver") /\ ~ LinkedTo(call[c].user) \subseteq {call[c].driver}
    /\ Ends(c)
    /\ UNCHANGED rows

CheckDeleteDriver(c) ==
    /\ \E d \in LiveDrivers : Asks(c, [does |-> "deleteDriver", driver |-> d])
    /\ UNCHANGED rows

\* Calls that are about to make d a default driver.
Overtake(calls, d) ==
    [c \in Calls |->
        IF calls[c].does \in {"createVehicle", "updateVehicle"} /\ calls[c].driver = d
          THEN [calls[c] EXCEPT !.overtaken = TRUE]
          ELSE calls[c]]

\* Mutant: the vehicles keep the driver.
DeleteDriverOnly(c) ==
    /\ Does(c, "deleteDriver")
    /\ driver' = [driver EXCEPT ![call[c].driver] = "deleted"]
    /\ call' = [Overtake(call, call[c].driver) EXCEPT ![c] = Idle]
    /\ UNCHANGED <<duties, linked, vehicles, trips, uploads, strayed, cut, losses>>

\* deleteDriver's transaction: the profile keeps its user, the vehicles that are
\* not deleted lose their driver.
DeleteDriver(c) ==
    LET d == call[c].driver IN
    /\ Does(c, "deleteDriver")
    /\ driver' = [driver EXCEPT ![d] = "deleted"]
    /\ default' = [v \in Vehicles |-> IF default[v] = d /\ vehicle[v] = "live"
                                        THEN Nobody ELSE default[v]]
    /\ strayed' = strayed \ {v \in Vehicles : default'[v] = Nobody}
    /\ call' = [Overtake(call, d) EXCEPT ![c] = Idle]
    /\ UNCHANGED <<duties, linked, vehicle, trips, uploads, cut, losses>>

-----------------------------------------------------------------------------
(* Vehicles *)

\* createVehicle and updateVehicle: findVehicleOrThrow, and
\* assertDriverBelongsToOrganization for a default driver.
CheckVehicle(c) ==
    /\ \E v \in Vehicles, d \in LiveDrivers \union {Nobody} :
          /\ \/ Asks(c, [does |-> "createVehicle", vehicle |-> v, driver |-> d,
                         overtaken |-> FALSE])
             \/ /\ v \in LiveVehicles
                /\ Asks(c, [does |-> "updateVehicle", vehicle |-> v, driver |-> d,
                            overtaken |-> FALSE])
    /\ UNCHANGED rows

WriteVehicle(c) ==
    /\ \/ /\ Does(c, "createVehicle") /\ vehicle[call[c].vehicle] = "none"
          /\ vehicle' = [vehicle EXCEPT ![call[c].vehicle] = "live"]
       \/ /\ Does(c, "updateVehicle")
          /\ UNCHANGED vehicle
    /\ default' = [default EXCEPT ![call[c].vehicle] = call[c].driver]
    /\ strayed' = (strayed \ {call[c].vehicle})
                    \union (IF call[c].overtaken THEN {call[c].vehicle} ELSE {})
    /\ Ends(c)
    /\ UNCHANGED <<duties, drivers, trips, uploads, cut, losses>>

\* The plate is taken, perhaps by a vehicle that was deleted: 409.
VehicleConflicts(c) ==
    /\ Does(c, "createVehicle") /\ vehicle[call[c].vehicle] # "none"
    /\ Ends(c)
    /\ UNCHANGED rows

CheckDeleteVehicle(c) ==
    /\ \E v \in LiveVehicles : Asks(c, [does |-> "deleteVehicle", vehicle |-> v])
    /\ UNCHANGED rows

DeleteVehicle(c) ==
    /\ Does(c, "deleteVehicle")
    /\ vehicle' = [vehicle EXCEPT ![call[c].vehicle] = "deleted"]
    /\ Ends(c)
    /\ UNCHANGED <<duties, drivers, default, trips, uploads, strayed, cut, losses>>

-----------------------------------------------------------------------------
(* Trips and the drivers' portal *)

\* assertTripReferences: the vehicle and the driver are there; the driver's user
\* becomes a participant.
CheckTrip(c) ==
    /\ \E t \in Trips, v \in LiveVehicles \union {Nobody}, d \in LiveDrivers \union {Nobody} :
          Asks(c, [does |-> "createTrip", trip |-> t,
                   refs |-> [vehicle |-> v, driver |-> d],
                   crew |-> IF d = Nobody THEN {} ELSE {linked[d]} \ {Nobody}])
    /\ UNCHANGED rows

\* The rest of createTrip.
WriteTrip(c) ==
    LET t == call[c].trip IN
    /\ Does(c, "createTrip") /\ trip[t] = "none"
    /\ \E portal \in {"shown", "hidden"} : trip' = [trip EXCEPT ![t] = portal]
    /\ refs' = [refs EXCEPT ![t] = call[c].refs]
    /\ crew' = [crew EXCEPT ![t] = call[c].crew]
    /\ Ends(c)
    /\ UNCHANGED <<duties, drivers, vehicles, uploads, strayed, cut, losses>>

\* The code is taken: 409.
TripConflicts(c) ==
    /\ Does(c, "createTrip") /\ trip[call[c].trip] # "none"
    /\ Ends(c)
    /\ UNCHANGED rows

\* The portal shows a trip that was to start within the last days, unless it is
\* completed or cancelled or its declaration approved; any of this may change.
TripMoves(t) ==
    /\ trip[t] # "none"
    /\ trip' = [trip EXCEPT ![t] = IF @ = "shown" THEN "hidden" ELSE "shown"]
    /\ UNCHANGED <<duties, drivers, vehicles, refs, crew, uploads, call, strayed, cut,
                   losses>>

IsDriver(p, d) == d # Nobody /\ driver[d] = "live" /\ linked[d] = p

\* The where clause of listAssignedTripsForDriver and createDriverTripMedia.
Sees(p, t) ==
    /\ trip[t] = "shown"
    /\ \/ IsDriver(p, refs[t].driver)
       \/ p \in crew[t]
       \/ /\ refs[t].vehicle # Nobody /\ vehicle[refs[t].vehicle] = "live"
          /\ IsDriver(p, default[refs[t].vehicle])

\* createDriverTripMedia, up to its call of createEvent.
CheckUpload(c) ==
    /\ \E t \in Trips, f \in Files :
          /\ \E p \in People : Sees(p, t)
          /\ Asks(c, [does |-> "createEvent", upload |-> <<t, f>>])
    /\ UNCHANGED rows

\* createEvent under the key driver-media:<trip>:<file>, which returns the event
\* that is there already; DRIVER_MEDIA_UPLOADED changes no status and is taken in
\* any.
RecordUpload(c) ==
    /\ Does(c, "createEvent")
    /\ event' = [event EXCEPT ![call[c].upload] = TRUE]
    /\ call' = [call EXCEPT ![c].does = "createMedia"]
    /\ UNCHANGED <<duties, drivers, vehicles, trips, media, strayed, cut, losses>>

\* tripMediaAttachment.create, another row with every call.
AttachUpload(c) ==
    LET u == call[c].upload IN
    /\ Does(c, "createMedia") /\ media[u] < MaxMedia
    /\ media' = [media EXCEPT ![u] = @ + 1]
    /\ cut' = cut \ {u}
    /\ Ends(c)
    /\ UNCHANGED <<duties, drivers, vehicles, trips, event, strayed, losses>>

\* A call fails or its process dies before its write; the driver may send the file
\* again.
Lose(c) ==
    /\ ~ Does(c, "nothing") /\ losses < MaxLosses
    /\ losses' = losses + 1
    /\ cut' = IF Does(c, "createMedia") /\ media[call[c].upload] = 0
                THEN cut \union {call[c].upload} ELSE cut
    /\ Ends(c)
    /\ UNCHANGED <<duties, drivers, vehicles, trips, uploads, strayed>>

Next ==
    \/ \E c \in Calls :
          \/ CheckDriver(c) \/ WriteDriver(c) \/ DriverConflicts(c)
          \/ CheckDeleteDriver(c) \/ DeleteDriver(c)
          \/ CheckVehicle(c) \/ WriteVehicle(c) \/ VehicleConflicts(c)
          \/ CheckDeleteVehicle(c) \/ DeleteVehicle(c)
          \/ CheckTrip(c) \/ WriteTrip(c) \/ TripConflicts(c)
          \/ CheckUpload(c) \/ RecordUpload(c) \/ AttachUpload(c)
          \/ Lose(c)
    \/ \E t \in Trips : TripMoves(t)

Spec == Init /\ [][Next]_vars

-----------------------------------------------------------------------------
(* Properties *)

\* The default driver of a vehicle in use is not a deleted one, unless the
\* deletion overtook the call that set it between its check and its write.
DanglingOnlyByRace ==
    \A v \in Vehicles :
        vehicle[v] = "live" /\ default[v] # Nobody =>
            driver[default[v]] = "live" \/ v \in strayed

\* A media row belongs to an event of its upload, and an event of an upload gets
\* its media row unless the call that recorded it was cut off in between.
UploadsAreAttached ==
    \A u \in Uploads :
        /\ media[u] > 0 => event[u]
        /\ event[u] /\ media[u] = 0 =>
              u \in cut \/ \E c \in Calls : Does(c, "createMedia") /\ call[c].upload = u

FleetHoldsTogether == DanglingOnlyByRace /\ UploadsAreAttached
=============================================================================
