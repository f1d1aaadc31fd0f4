----------------------------- MODULE StreamLife -----------------------------
(***************************************************************************)
(* What the stream threads promise for the streams of the guilds: a stream *)
(* is opened once, run by one thread at a time, and only the thread that   *)
(* runs it closes it.  A thread may go on with another stream in the step  *)
(* that ends its turn with one.                                            *)
(***************************************************************************)
CONSTANT Guilds

VARIABLES
    open,       \* guilds with an open stream
    running     \* guilds whose stream a thread is running

vars == <<open, running>>

Init == open = {} /\ running = {}

\* No stream, or one that no thread runs.
Waiting == {{}} \cup {{g} : g \in open \ running}

Open(g) ==
    /\ g \notin open
    /\ open' = open \cup {g}
    /\ UNCHANGED running

Take ==
    /\ \E next \in Waiting : running' = running \cup next
    /\ UNCHANGED open

Yield(g) ==
    /\ g \in running
    /\ \E next \in Waiting : running' = (running \ {g}) \cup next
    /\ UNCHANGED open

Close(g) ==
    /\ g \in running
    /\ open' = open \ {g}
    /\ \E next \in Waiting : running' = (running \ {g}) \cup next

Next ==
    \/ Take
    \/ \E g \in Guilds : Open(g) \/ Yield(g) \/ Close(g)

Spec == Init /\ [][Next]_vars
=============================================================================
