\* Failed playback, restarts, and the queue command between a copy and the lock.
SPECIFICATION Spec
CONSTANTS
    Files = {f1, f2, f3}
    Users = {alice, bot}
    Bot = bot
    MaxAdds = 3
    MaxLoads = 1
    MaxRepeat = 0
    SkipAmounts = {1}
    InitModes = {"l_none", "l_queue"}
    Slips = {0, 1}
    Commands = {"add", "fail", "queue", "restart"}
    SameFileTwice = TRUE
INVARIANTS
    NoDuplicate
PROPERTIES
    OnlyCurrentDropped  RestoredBehindNew PlayingStaysFirst
SYMMETRY FileSymmetry
CHECK_DEADLOCK FALSE
