\* Two channels, two calls of any kind that may overlap, and one fault.
SPECIFICATION Spec
CONSTANTS
    Channels = {v1, v2}
    Callers = {c1, c2}
    Ops = {"join", "play", "rejoin", "follow", "leave", "marker", "shutdown"}
    Faults = {"ignored", "moved", "early", "not found", "overtaken"}
    MaxCalls = 2
    MaxFaults = 1
INVARIANTS
    WaitingIsTimed
    TablesAreCleared
    AskedIsGiven
PROPERTIES
    CallReturns
CHECK_DEADLOCK FALSE
