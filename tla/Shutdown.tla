------------------------------ MODULE Shutdown ------------------------------
(***************************************************************************)
(* The program's own threads from their start to join_all: the writer and  *)
(* the reader of the child worker's pipes, the listener of the terminal,   *)
(* the stream threads, the dashboard server and, once the main loop has    *)
(* seen a signal, the thread that goes round the main loop in its place    *)
(* while the main thread shuts the parts down.                             *)
(*                                                                         *)
(* Mutexes are held within a step, but for those that a condition variable *)
(* releases: a thread between its condition and its sleep is "sleepy".     *)
(* What the program does after undefined behaviour is any of: it stops, or *)
(* the main thread goes on.                                                *)
(*                                                                         *)
(* Definitions named X_<what> are X with a plausible mistake; no           *)
(* specification uses them.                                                *)
(***************************************************************************)
EXTENDS Integers, Sequences, SequencesExt, FiniteSets

CONSTANTS
    Streams,    \* the stream threads
    Cli         \* whether the terminal is listened to

ASSUME ConstantsAssumption ==
    /\ Cli \in BOOLEAN
    /\ Streams \cap {"main", "writer", "reader", "stdin", "server", "shutdown"} = {}

Threads == {"writer", "reader", "server", "shutdown"} \cup Streams
           \cup (IF Cli THEN {"stdin"} ELSE {})

VARIABLES
    running,    \* get_running_state
    r_s,        \* what the loop of the shutdown thread tests
    pc,         \* where each thread is
    main,       \* where the main thread is
    unlisted,   \* threads started and not yet dispatched
    joining,    \* the thread that join_all's iterator points to
    threads,    \* _threads
    done,       \* the threads of _threads that are marked done
    given,      \* stream threads with contexts to handle
    pipes,      \* the open ones among "write" and "read", the ends of the pipes
    child,      \* whether the child worker lives
    serving,    \* the server's own running state
    closes,     \* whether the server was asked to close
    missed      \* history: threads that were told to end when they could not notice

childVars  == <<pipes, child>>
serverVars == <<serving, closes>>
listVars   == <<unlisted, joining, threads, done>>
vars == <<running, r_s, pc, main, listVars, given, childVars, serverVars, missed>>

Init ==
    /\ running = TRUE
    /\ r_s = FALSE
    /\ pc = [t \in Threads |-> "new"]
    /\ main = "start"
    /\ unlisted = {}
    /\ joining = "main"
    /\ threads = <<>>
    /\ done = {}
    /\ given = {}
    /\ pipes = {"write", "read"}
    /\ child = TRUE
    /\ serving = FALSE
    /\ closes = FALSE
    /\ missed = {}

At(t, where) == pc[t] = where
Goto(t, where) == pc' = [pc EXCEPT ![t] = where]

\* on_sigint.
on_sigint ==
    /\ running
    /\ running' = FALSE
    /\ UNCHANGED <<r_s, pc, main, listVars, given, childVars, serverVars, missed>>

----------------------------------------------------------------------------
(***************************************************************************)
(* thread_manager.                                                         *)
(***************************************************************************)

\* A thread that is turned away when the program is exiting.
Dispatched_Refused(t) == IF running THEN Append(threads, t) ELSE threads

\* dispatch: the thread runs already, and is put into the list.
Dispatched(t) == Append(threads, t)

\* A thread that marks itself whether it is in the list or not.
set_done_Anyway(t) == done \cup {t}

\* set_done: a thread marks itself, if it is in the list by now.
set_done(t) == IF Contains(threads, t) THEN done \cup {t} ELSE done

\* A list without some of its elements, the others in their order.
Without(q, S) ==
    LET kept == {i \in DOMAIN q : q[i] \notin S}
        Rank(i) == Cardinality({j \in kept : j <= i})
    IN  [n \in 1..Cardinality(kept) |-> q[CHOOSE i \in kept : Rank(i) = n]]

\* join_done: the threads marked done are joined and erased.  Erasing while
\* join_all waits with an iterator is undefined.
join_done ==
    /\ threads' = Without(threads, done)
    /\ done' = {}
    /\ UNCHANGED <<unlisted, joining>>

----------------------------------------------------------------------------
(***************************************************************************)
(* The threads.                                                            *)
(***************************************************************************)

\* A thread leaves its loop, marks itself and exits.
Exits(t, from) ==
    /\ At(t, from)
    /\ done' = set_done(t)
    /\ Goto(t, "exited")
    /\ UNCHANGED <<running, r_s, main, unlisted, joining, threads, given, childVars, serverVars, missed>>

Moves(t, from, to) ==
    /\ At(t, from)
    /\ Goto(t, to)
    /\ UNCHANGED <<running, r_s, main, listVars, given, childVars, serverVars, missed>>

\* The test of get_running_state at the head of a thread's loop.
Tests(t, next) == IF running THEN Moves(t, "test", next) ELSE Exits(t, "test")

\* The writer: command_queue_routine, then wait_for_command, whose condition is
\* true when the program ends.  A command wakes it too.
Writer ==
    \/ Tests("writer", "look")
    \/ Moves("writer", "look", IF running THEN "sleepy" ELSE "test")
    \/ Moves("writer", "sleepy", "asleep")

send_command == Moves("writer", "asleep", "test")

\* The reader: a message, or the end of the pipe.  A read of a closed descriptor
\* returns -1, which as a size is large: the reader writes past its buffer.
Reader ==
    \/ Tests("reader", "read")
    \/ child /\ Moves("reader", "read", "reading")
    \/ ~child /\ Exits("reader", "reading")
    \/ ~child /\ "read" \in pipes /\ Exits("reader", "read")
    \/ "read" \notin pipes /\ Moves("reader", "read", "undefined")

Message == child /\ Moves("reader", "reading", "test")

\* The listener of the terminal polls for two seconds at a time, until the program
\* ends or the terminal is gone, and reads a line when there is something to read,
\* also when the line does not end.
Stdin ==
    /\ Cli
    /\ \/ Tests("stdin", "poll")
       \/ Moves("stdin", "poll", "test")
       \/ Moves("stdin", "poll", "getline")
       \/ Exits("stdin", "poll")

Enter == Cli /\ Moves("stdin", "getline", "test")

\* stream_thread_t::run: contexts are taken under the thread's mutex; without any,
\* the thread waits, and no condition says for what.  Handling them takes its time.
StreamThread(t) ==
    \/ Tests(t, "look")
    \/ t \notin given /\ Moves(t, "look", "sleepy")
    \/ /\ At(t, "look")
       /\ t \in given
       /\ given' = given \ {t}
       /\ Goto(t, "test")
       /\ UNCHANGED <<running, r_s, main, listVars, childVars, serverVars, missed>>
    \/ Moves(t, "sleepy", "asleep")

\* server::run, until its callback closes it.
Server ==
    \/ /\ At("server", "test")
       /\ serving' = TRUE
       /\ Goto("server", "serve")
       /\ UNCHANGED <<running, r_s, main, listVars, given, childVars, closes, missed>>
    \/ /\ At("server", "serve")
       /\ closes
       /\ serving' = FALSE
       /\ done' = set_done("server")
       /\ Goto("server", "exited")
       /\ UNCHANGED <<running, r_s, main, unlisted, joining, threads, given, childVars, closes, missed>>

\* The child worker ends with its pipe.
ChildEnds ==
    /\ child
    /\ "write" \notin pipes
    /\ child' = FALSE
    /\ UNCHANGED <<running, r_s, pc, main, listVars, given, pipes, serverVars, missed>>

----------------------------------------------------------------------------
(***************************************************************************)
(* main_loop, in the main thread and in the shutdown thread.               *)
(***************************************************************************)

\* check_stream_contexts gives a context to a thread, or none (one that has exited
\* does nothing with it); other routines of the body start no thread and end none.
notify_work(pcs) ==
    \/ UNCHANGED given /\ pc' = pcs
    \/ \E t \in Streams :
         /\ pcs[t] \notin {"sleepy", "exited"}
         /\ given' = given \cup {t}
         /\ pc' = IF pcs[t] = "asleep" THEN [pcs EXCEPT ![t] = "test"] ELSE pcs

MainLoop ==
    \/ /\ main = "loop"
       /\ r_s' = running
       /\ main' = IF running THEN "body" ELSE "spawn"
       /\ UNCHANGED <<running, pc, listVars, given, childVars, serverVars, missed>>
    \/ /\ main = "body"
       /\ notify_work(pc)
       /\ join_done
       /\ main' = "loop"
       /\ UNCHANGED <<running, r_s, childVars, serverVars, missed>>

\* The same loop reads r_s and assigns it what it read.
ShutdownLoop ==
    \/ IF r_s THEN Moves("shutdown", "test", "again") ELSE Exits("shutdown", "test")
    \/ /\ At("shutdown", "again")
       /\ r_s' = TRUE
       /\ Goto("shutdown", "body")
       /\ UNCHANGED <<running, main, listVars, given, childVars, serverVars, missed>>
    \/ /\ At("shutdown", "body")
       /\ notify_work([pc EXCEPT !["shutdown"] = "test"])
       /\ join_done
       /\ main' = IF main \in {"joining", "joined"} /\ done # {} THEN "undefined" ELSE main
       /\ UNCHANGED <<running, r_s, childVars, serverVars, missed>>

----------------------------------------------------------------------------
(***************************************************************************)
(* run: the main thread.                                                   *)
(***************************************************************************)

MainGoes(to) ==
    /\ main' = to
    /\ UNCHANGED <<running, given>>

Starts(S) ==
    /\ unlisted' = S
    /\ pc' = [t \in Threads |-> IF t \in S THEN "test" ELSE pc[t]]
    /\ MainGoes("dispatch")
    /\ UNCHANGED <<joining, threads, done, childVars, serverVars, missed>>

\* child::init, attach_listener, spawn_stream_thread and the server's thread, in
\* this order: each thread runs before it is dispatched.
StartsThread ==
    /\ main = "start"
    /\ UNCHANGED r_s
    /\ IF At("writer", "new") THEN Starts({"writer", "reader"})
       ELSE IF Cli /\ At("stdin", "new") THEN Starts({"stdin"})
       ELSE IF \E t \in Streams : At(t, "new") THEN \E t \in Streams : At(t, "new") /\ Starts({t})
       ELSE Starts({"server"})

\* The main loop follows the server's thread, and the shutdown the shutdown thread.
DispatchesThread ==
    /\ main = "dispatch"
    /\ \E t \in unlisted :
         /\ t = "reader" => unlisted = {t}
         /\ threads' = Dispatched(t)
         /\ unlisted' = unlisted \ {t}
         /\ MainGoes(CASE unlisted' # {} -> "dispatch"
                       [] t = "server"   -> "loop"
                       [] t = "shutdown" -> "child"
                       [] OTHER          -> "start")
    /\ UNCHANGED <<r_s, pc, joining, done, childVars, serverVars, missed>>

\* r_s is set again for the thread that takes the loop over.
StartsShutdown ==
    /\ main = "spawn"
    /\ r_s' = TRUE
    /\ Starts({"shutdown"})

\* child::shutdown with the pipe left open.
ShutsChild_Open ==
    /\ main = "child"
    /\ pc' = IF At("writer", "asleep") THEN [pc EXCEPT !["writer"] = "look"] ELSE pc
    /\ missed' = missed \cup {t \in {"writer"} : At(t, "sleepy")}
    /\ MainGoes("waitpid")
    /\ UNCHANGED <<r_s, listVars, childVars, serverVars>>

\* child::shutdown: the writer is woken, if it sleeps, without its mutex.
ShutsChild ==
    /\ main = "child"
    /\ pc' = IF At("writer", "asleep") THEN [pc EXCEPT !["writer"] = "look"] ELSE pc
    /\ pipes' = pipes \ {"write"}
    /\ missed' = missed \cup {t \in {"writer"} : At(t, "sleepy")}
    /\ MainGoes("waitpid")
    /\ UNCHANGED <<r_s, listVars, child, serverVars>>

ChildReaped ==
    /\ main = "waitpid"
    /\ ~child
    /\ pipes' = pipes \ {"read"}
    /\ MainGoes("server")
    /\ UNCHANGED <<r_s, pc, listVars, child, serverVars, missed>>

\* server::shutdown: nothing when the server is not up yet.
ShutsServer ==
    /\ main = "server"
    /\ closes' = serving
    /\ missed' = missed \cup {t \in {"server"} : ~serving}
    /\ MainGoes("streams")
    /\ UNCHANGED <<r_s, pc, listVars, childVars, serving>>

\* stream_shutdown: the threads that sleep are woken, without their mutex.  The
\* voice connections are closed after that.
ShutsStreams ==
    /\ main = "streams"
    /\ pc' = [t \in Threads |-> IF t \in Streams /\ At(t, "asleep") THEN "test" ELSE pc[t]]
    /\ missed' = missed \cup {t \in Streams : pc[t] \in {"look", "sleepy"}}
    /\ MainGoes("client")
    /\ UNCHANGED <<r_s, listVars, childVars, serverVars>>

\* client.shutdown, and the end of the shutdown thread's loop.
EndsLoop ==
    /\ main = "client"
    /\ r_s' = FALSE
    /\ missed' = missed \cup {t \in {"shutdown"} : At(t, "again")}
    /\ MainGoes("join")
    /\ UNCHANGED <<pc, listVars, childVars, serverVars>>

\* join_all: the iterator stays at the front, for every thread there is joinable.
\* The mutex is given up while a thread is waited for.
join_all ==
    \/ /\ main = "join"
       /\ IF threads = <<>> THEN MainGoes("ended") /\ UNCHANGED joining
                            ELSE MainGoes("joining") /\ joining' = Head(threads)
       /\ UNCHANGED <<r_s, pc, unlisted, threads, done, childVars, serverVars, missed>>
    \/ /\ main = "joining"
       /\ At(joining, "exited")
       /\ MainGoes("joined")
       /\ UNCHANGED <<r_s, pc, listVars, childVars, serverVars, missed>>
    \/ /\ main = "joined"
       /\ threads' = Tail(threads)
       /\ done' = done \ {joining}
       /\ joining' = "main"
       /\ MainGoes("join")
       /\ UNCHANGED <<r_s, pc, unlisted, childVars, serverVars, missed>>

\* The iterator is invalid: the main thread goes on, or the program stops.
Undefined ==
    /\ main = "undefined"
    /\ joining' = "main"
    /\ MainGoes("join") \/ MainGoes("crashed")
    /\ UNCHANGED <<r_s, pc, unlisted, threads, done, childVars, serverVars, missed>>

Main ==
    \/ StartsThread \/ DispatchesThread \/ MainLoop
    \/ StartsShutdown \/ ShutsChild \/ ChildReaped \/ ShutsServer \/ ShutsStreams
    \/ EndsLoop \/ join_all \/ Undefined

Thread(t) ==
    \/ t = "writer" /\ Writer
    \/ t = "reader" /\ Reader
    \/ t = "stdin" /\ Stdin
    \/ t \in Streams /\ StreamThread(t)
    \/ t = "server" /\ Server
    \/ t = "shutdown" /\ ShutdownLoop

Crashed == main = "crashed" \/ At("reader", "undefined")

Next ==
    /\ ~Crashed
    /\ \/ Main
       \/ \E t \in Threads : Thread(t)
       \/ ChildEnds \/ Message \/ send_command \/ Enter \/ on_sigint

\* The threads and the child worker go on.  Nobody needs to send a signal, a command
\* or a message, or to press a key.
Fairness ==
    /\ WF_vars(~Crashed /\ Main)
    /\ \A t \in Threads : WF_vars(~Crashed /\ Thread(t))
    /\ WF_vars(~Crashed /\ ChildEnds)

Spec == Init /\ [][Next]_vars /\ Fairness

----------------------------------------------------------------------------
\* Variables have their types; _threads has each dispatched thread once, only exited
\* threads are marked, and the iterator of join_all points to the front.
TypeOK ==
    /\ running \in BOOLEAN /\ r_s \in BOOLEAN
    /\ pc \in [Threads -> {"new", "test", "look", "sleepy", "asleep", "read", "reading", "undefined",
                           "poll", "getline", "serve", "again", "body", "exited"}]
    /\ main \in {"start", "dispatch", "loop", "body", "spawn", "child", "waitpid", "server", "streams",
                 "client", "join", "joining", "joined", "ended", "undefined", "crashed"}
    /\ unlisted \subseteq Threads
    /\ threads \in Seq(Threads)
    /\ \A i, j \in DOMAIN threads : threads[i] = threads[j] => i = j
    /\ \A t \in done : Contains(threads, t) /\ At(t, "exited")
    /\ joining \in Threads \cup {"main"}
    /\ main \in {"joining", "joined"} => threads # <<>> /\ joining = Head(threads)
    /\ given \subseteq Streams
    /\ pipes \subseteq {"write", "read"}
    /\ missed \subseteq Threads
    /\ child \in BOOLEAN /\ serving \in BOOLEAN /\ closes \in BOOLEAN

\* When run returns (run.cpp:958 joins, 962 returns) every thread has exited, also one
\* that ended before it was dispatched or that the main loop's join_done took out of
\* the list: none outlives the globals that it uses.
AllJoined == main = "ended" => \A t \in Threads : At(t, "exited")

\* The ways in which the shutdown comes to wait for ever.  A thread missed its only
\* wake-up: the writer or a stream thread was between its test and its sleep, the
\* server was not up yet, the shutdown thread had read its flag and not yet written
\* it back.  Or the terminal's listener waits for the rest of a line.
Stuck ==
    \/ \E t \in missed : ~At(t, "exited")
    \/ Cli /\ At("stdin", "getline")

\* A signal ends the program (run.cpp:642), unless it is stuck in one of these ways
\* or runs into one of the two kinds of undefined behaviour: join_done erasing threads
\* under join_all's iterator, the reader reading a descriptor just closed.
MainEnds == []running \/ <>(main = "ended" \/ Crashed) \/ <>[]Stuck

\* While join_all waits for a thread nobody else changes the list (the comment at
\* thread_manager.cpp:142).
ThreadsKept ==
    [][(main \in {"joining", "joined"} /\ threads' # threads) => (main = "joined" /\ main' = "join")]_vars

=============================================================================
