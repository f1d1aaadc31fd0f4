SPECIFICATION Spec
CONSTANTS
    Users = {u1, u2}
    Bot = bot
    Threads = {t1, t2}
    Commands = {"pause", "play", "stop", "next"}
    MaxEvents = 4
INVARIANTS TypeOK PausedWhenAlone
PROPERTIES HandHolds 
CHECK_DEADLOCK FALSE
