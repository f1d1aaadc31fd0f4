\* Two threads, four changes of the player's state and one fault.
SPECIFICATION EmbedSpec
CONSTANTS
    Callers = {c1, c2}
    Ops = {"command", "button", "start"}
    Faults = {"overtaken", "deleted"}
    MaxChanges = 4
    MaxMessages = 3
    MaxFaults = 1
INVARIANTS
    EmbedTypeOK
    KnownIsFresh
    
CHECK_DEADLOCK FALSE
