\* Adding on top, skipping, going back, stopping and removing.
SPECIFICATION Spec
CONSTANTS
    Files = {f1, f2, f3, f4}
    Users = {bot}
    Bot = bot
    MaxAdds = 4
    MaxLoads = 0
    MaxRepeat = 0
    SkipAmounts = {0, 1}
    InitModes = {"l_none", "l_song", "l_song_queue"}
    Slips = {0}
    Commands = {"add", "skip", "prev", "stop", "remove"}
    SameFileTwice = FALSE
INVARIANTS
    TypeOK
    

    
SYMMETRY FileSymmetry
CHECK_DEADLOCK FALSE
