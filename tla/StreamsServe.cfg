\* Two streams share one thread.
CONSTANTS
    Guilds = {g1, g2}
    NThreads = 1
    MaxStarts = 1
    MayFail = TRUE
    MayStop = TRUE
SPECIFICATION FairSpec
PROPERTIES  StopEnds
