\* Calls with one query after each other, and system commands that may time out.
CONSTANTS
    Clients = {search, system}
    QueryIds = {q1}
    FreshIds = {s1, s2}
    Bailing = {system}
    MayTimeout = {system}
    OneCaller = TRUE
    MayFail = TRUE
    MaxCalls = 4
SPECIFICATION FairSpec
INVARIANTS SlaveIsServed
PROPERTIES CallReturns EverySlaveEnds
CHECK_DEADLOCK FALSE
