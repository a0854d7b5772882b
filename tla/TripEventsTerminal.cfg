CONSTANTS
    Trips = {t1}
    Requests = {q1, q2}
    Keys = {k1}
    NoKey = NoKey
    None = None
    Types <- MCTypes
    MaxAutomated = 0
    MaxFaults = 0
SPECIFICATION Spec
CHECK_DEADLOCK FALSE
INVARIANT TerminalIsFinal
