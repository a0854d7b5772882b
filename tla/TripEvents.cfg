CONSTANTS
    Trips = {t1, t2}
    Requests = {q1, q2, q3}
    Keys = {k1}
    NoKey = NoKey
    None = None
    Types <- MCTypes
    MaxAutomated = 1
    MaxFaults = 1
    Queries = {x, y}
    Clicks = {c1, c2}
    MaxPage = 2
    MaxSaved = 3
SPECIFICATION MCSpec
SYMMETRY MCSymmetry
CHECK_DEADLOCK FALSE
INVARIANTS TypesOK AnswersAreTruthful StatusFollowsTimeline DomainEventOnce
INVARIANTS ShowsWhatWasAskedFor RecordedOnceUnlessMisled
PROPERTY IllegalOnlyByOverlap
