\* The queue loops, in any mode and with changes of mode, and two entries may play one file.
SPECIFICATION Spec
CONSTANTS
    Files = {f1, f2, f3}
    Users = {bot}
    Bot = bot
    MaxAdds = 3
    MaxLoads = 0
    MaxRepeat = 1
    SkipAmounts = {1, 2, 4}
    InitModes = {"l_none"}
    Slips = {0, 2}
    Commands = {"add", "skip", "loop", "move"}
    SameFileTwice = TRUE
PROPERTIES
    LoopKeepsEntries
SYMMETRY FileSymmetry
CHECK_DEADLOCK FALSE
