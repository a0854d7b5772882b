SPECIFICATION MCSpec
CONSTANTS
    ann = ann
    bob = bob
    q1 = q1
    q2 = q2
    a1 = a1
    a2 = a2
    i1 = i1
    inapp = inapp
    email = email
    p = p
    q = q
    l1 = l1
    l2 = l2
    poller = poller
    user = user
    worker = worker
    s1 = s1
    s2 = s2
    c1 = c1
    c2 = c2
    t1 = t1
    t2 = t2
    t3 = t3
    Members = {ann, bob}
    Founder = ann
    Requests = {q1, q2}
    Accepts = {a1, a2}
    Invitations = {i1}
    Invitee <- MCInvitee
    InvitedRole <- MCInvitedRole
    Updates <- MCUpdates
    InApp = {inapp}
    External = {email}
    RuleSets <- MCRuleSets
    NoticeCalls = {c1, c2}
    Senders = {w1, w2}
    MaxPublishes = 2
    MaxAttempts = 2
    MaxTears = 1
    Hosts = {p, q}
    Loads = {l1, l2}
    LoadHost <- MCLoadHost
    MaxWrites = 2
    MaxErrors = 1
    Pollers = {poller}
    Workers = {worker}
    Callers = {user}
    Host <- MCHost
    NoOne = NoOne
    Former = Former
    MaxFailures = 1
    MaxFaults = 1
    Slots = {s1, s2}
    Machine <- MCMachine
    Credentials = {"former", "present"}
    Fetches = {c1, c2}
    Trips = {t1, t2, t3}
    PlannedStart <- MCPlannedStart
    PlannedArrival <- MCPlannedArrival
    Created <- MCCreated
    Kinds <- MCKinds
    Filters <- MCFilters
    PageSize = 2
    Tick = 120
    MaxTime = 240
    Drivers = {d1, d2}
    Vehicles = {v1}
    Journeys = {t1}
    People = {ann}
    Files = {f1}
    Errands = {c1, c2}
    Rosters <- MCRosters
    MaxMedia = 2
    MaxLosses = 1
INVARIANT TypesOK
INVARIANT OwnerLostOnlyByRace
INVARIANT UsedOnce
INVARIANT SentTwiceOnlyIfTorn
INVARIANT OutcomesAreAccountedFor
INVARIANT StaleOnlyByRace
INVARIANT ForeignRunsOverlapOnlyExposed
INVARIANT ConnectedReadsItsAccount
INVARIANT OfferedIsAccepted
INVARIANT ListGoesOn
INVARIANT FleetHoldsTogether
PROPERTY QueuedIsSettled
PROPERTY SyncsGoOn
CHECK_DEADLOCK FALSE
