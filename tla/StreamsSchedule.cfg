\* More streams than threads: contexts share a thread, and files may fail to open.
CONSTANTS
    Guilds = {g1, g2, g3}
    NThreads = 2
    MaxStarts = 1
    MayFail = TRUE
    MayStop = FALSE
SPECIFICATION Spec
INVARIANTS OneOwner HeldIsLive
PROPERTIES ImplementsStreamLife
