\* One stream thread and the terminal's listener.
SPECIFICATION Spec
CONSTANTS
    Streams = {t1}
    Cli = TRUE
INVARIANTS
    TypeOK
    AllJoined
PROPERTIES
    MainEnds
CHECK_DEADLOCK FALSE
