\* One state, one user, two tasks and a handler of guild events, three
\* requests or events.
SPECIFICATION Spec
CONSTANTS
    States = {s1}
    Users = {u1}
    Tasks = {t1, t2}
    Handlers = {h1}
    MaxCalls = 3
INVARIANTS
    TypeOK
    StateIsTimed
    EntryIsTimed
PROPERTIES
    StatesEnd
CHECK_DEADLOCK FALSE
