SPECIFICATION MCSpec
CONSTANTS
    poller = poller
    user = user
    d1 = d1
    d2 = d2
    Foreign = TRUE
    Untimed = {}
    Declarations = {d1, d2}
    OtherTrips = {}
    Runs = {poller}
    Users = {user}
    Marks <- MCMarks
    Before <- MCBefore
    UserTypes <- MCUserTypes
    MaxIncidents = 1
INVARIANT TypeOK
INVARIANT RecordedIsOnSource
INVARIANT CompletedIsFounded
PROPERTY CancelledIsFinal
PROPERTY OnlyAStaleDetailReopens
PROPERTY FinishedTripsEnd
