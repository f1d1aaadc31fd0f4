\* Duplicate requests, failing downloads and lost files, with more threads than tasks that may wait on them.
CONSTANTS
    Files = {f1}
    Guilds = {g1}
    Jobs = {j1, j2, j3}
    PoolSize = 3
    MaxConcurrent = 1
    MaxRequests = 2
    MaxLosses = 1
    MayFail = TRUE
SPECIFICATION FairSpec
INVARIANTS TypeOK WaitingIsServed DownloadsBounded
PROPERTIES WaitEnds RetriesEnd
CHECK_DEADLOCK FALSE
