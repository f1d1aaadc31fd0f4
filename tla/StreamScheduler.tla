--------------------------- MODULE StreamScheduler ---------------------------
(***************************************************************************)
(* The stream threads (player_manager_stream.cpp): play () opens a stream  *)
(* context for a guild, the main loop hands contexts that need audio to a  *)
(* pool of stream threads, and a thread decodes a context until the voice  *)
(* client's buffer is full or the stream ends.                             *)
(*                                                                         *)
(* stream_ctxs' mutex is held by the main loop for a whole pass over the   *)
(* contexts (mpc # "sleep"); opening, erasing and releasing a context take *)
(* it for one step each.  The threads' own mutexes (t_m) are held for one  *)
(* step at a time.  A guild has one context at most, so that a context is  *)
(* named by its guild.                                                     *)
(*                                                                         *)
(* Definitions named X_<what> are X with a plausible mistake; no           *)
(* specification uses them.                                                *)
(***************************************************************************)
EXTENDS Integers, Sequences, FiniteSets

CONSTANTS
    Guilds,     \* guilds with a player
    NThreads,   \* number of stream threads
    MaxStarts,  \* bound: marker workers of a guild on their way to play ()
    MayFail,    \* whether a file may fail to open
    MayStop     \* whether users stop streams

ASSUME ConstantsAssumption ==
    /\ IsFiniteSet(Guilds)
    /\ NThreads \in Nat \ {0}
    /\ MaxStarts \in Nat
    /\ MayFail \in BOOLEAN
    /\ MayStop \in BOOLEAN

VARIABLES
    live,       \* the guilds of the contexts in stream_ctxs
    handled,    \* stream_ctx::handled
    pending,    \* stream_thread_t::ctxs, what the main loop gave the thread
    batch,      \* stream_thread_t::processing_ctxs, those still to do
    size,       \* stream_thread_t::ctxs_size
    wpc,        \* where each stream thread is
    mpc,        \* where the main loop is in check_stream_contexts
    todo,       \* the contexts its pass has not looked at yet
    target,     \* the context notify_work is called for
    at,         \* the thread notify_work looks at
    most,       \* notify_work's `max'
    least,      \* notify_work's `min'
    processing, \* guild_player_t::processing_audio
    stopping,   \* guild_player_t::stopping
    starting,   \* marker workers that have not called play () yet
    opening,    \* play () is between init_for_stream and submit_stream_ctx
    stopper     \* stop () is between its check and its assignment

ctxVars    == <<live, handled>>
listVars   == <<pending, batch, size, wpc>>
mainVars   == <<mpc, todo, target, at, most, least>>
playerVars == <<processing, stopping, starting, opening, stopper>>
vars       == <<ctxVars, listVars, mainVars, playerVars>>

Threads == 1..NThreads
Huge    == Cardinality(Guilds) + 2      \* SIZE_MAX
NoGuild == "none"

Init ==
    /\ live = {}
    /\ handled = [g \in Guilds |-> FALSE]
    /\ pending = [t \in Threads |-> <<>>]
    /\ batch = [t \in Threads |-> <<>>]
    /\ size = [t \in Threads |-> 0]
    /\ wpc = [t \in Threads |-> "top"]
    /\ mpc = "sleep"
    /\ todo = {}
    /\ target = NoGuild
    /\ at = 1
    /\ most = 0
    /\ least = Huge
    /\ processing = [g \in Guilds |-> FALSE]
    /\ stopping = [g \in Guilds |-> FALSE]
    /\ starting = [g \in Guilds |-> 0]
    /\ opening = [g \in Guilds |-> FALSE]
    /\ stopper = [g \in Guilds |-> FALSE]

----------------------------------------------------------------------------
(***************************************************************************)
(* The player: play () and stop ().                                        *)
(***************************************************************************)

\* A marker is handled while no audio is processed: its worker will call play ().
Marker(g) ==
    /\ ~processing[g]
    /\ starting[g] < MaxStarts
    /\ starting' = [starting EXCEPT ![g] = @ + 1]
    /\ UNCHANGED <<ctxVars, listVars, mainVars, processing, stopping, opening, stopper>>

\* play (), holding the player's mutex: init_for_stream.
PlayInit(g) ==
    /\ starting[g] > 0
    /\ ~opening[g]
    /\ starting' = [starting EXCEPT ![g] = @ - 1]
    /\ opening' = [opening EXCEPT ![g] = TRUE]
    /\ processing' = [processing EXCEPT ![g] = TRUE]
    /\ UNCHANGED <<ctxVars, listVars, mainVars, stopping, stopper>>

Submit_Anew(g, opens) ==
    /\ opening[g]
    /\ mpc = "sleep"
    /\ opens \/ MayFail
    /\ opening' = [opening EXCEPT ![g] = FALSE]
    /\ live' = IF opens THEN live \cup {g} ELSE live
    /\ handled' = [handled EXCEPT ![g] = FALSE]
    /\ UNCHANGED <<listVars, mainVars, processing, stopping, starting, stopper>>

\* submit_stream_ctx: it throws when the guild has a context or its file does
\* not open.
Submit(g, opens) ==
    /\ opening[g]
    /\ mpc = "sleep"
    /\ opens \/ MayFail
    /\ opening' = [opening EXCEPT ![g] = FALSE]
    /\ live' = IF opens THEN live \cup {g} ELSE live
    /\ handled' = [handled EXCEPT ![g] = @ /\ g \in live]
    /\ UNCHANGED <<listVars, mainVars, processing, stopping, starting, stopper>>

\* guild_player_t::stop looks whether audio is processed ...
StopBegin(g) ==
    /\ MayStop
    /\ processing[g]
    /\ ~stopper[g]
    /\ stopper' = [stopper EXCEPT ![g] = TRUE]
    /\ UNCHANGED <<ctxVars, listVars, mainVars, processing, stopping, starting, opening>>

\* ... and then tells the stream to stop.
StopEnd(g) ==
    /\ stopper[g]
    /\ stopper' = [stopper EXCEPT ![g] = FALSE]
    /\ stopping' = [stopping EXCEPT ![g] = TRUE]
    /\ UNCHANGED <<ctxVars, listVars, mainVars, processing, starting, opening>>

----------------------------------------------------------------------------
(***************************************************************************)
(* The main loop: check_stream_contexts and notify_work.                   *)
(***************************************************************************)

\* Every 50 ms the main loop takes the lock and looks at every context.
PassBegin ==
    /\ mpc = "sleep"
    /\ mpc' = "scan"
    /\ todo' = live
    /\ UNCHANGED <<ctxVars, listVars, target, at, most, least, playerVars>>

PassEnd ==
    /\ mpc = "scan"
    /\ todo = {}
    /\ mpc' = "sleep"
    /\ UNCHANGED <<ctxVars, listVars, todo, target, at, most, least, playerVars>>

\* A handled context, or one whose buffered audio still lasts, is left alone.
Leave(g) ==
    /\ mpc = "scan"
    /\ g \in todo
    /\ todo' = todo \ {g}
    /\ UNCHANGED <<ctxVars, listVars, mpc, target, at, most, least, playerVars>>

\* need_handler: the context gets a thread.
Notify(g) ==
    /\ mpc = "scan"
    /\ g \in todo
    /\ ~handled[g]
    /\ mpc' = "first"
    /\ todo' = todo \ {g}
    /\ target' = g
    /\ at' = 1
    /\ most' = 0
    /\ least' = Huge
    /\ UNCHANGED <<ctxVars, listVars, playerVars>>

\* notify_work returned.
Marked_Not ==
    /\ mpc' = "scan"
    /\ target' = NoGuild
    /\ UNCHANGED <<live, handled, todo, at, most, least, playerVars>>

Marked ==
    /\ handled' = [handled EXCEPT ![target] = TRUE]
    /\ mpc' = "scan"
    /\ target' = NoGuild
    /\ UNCHANGED <<live, todo, at, most, least, playerVars>>

\* The context goes to thread t, which is woken.
Give(t) ==
    /\ pending' = [pending EXCEPT ![t] = Append(@, target)]
    /\ wpc' = [wpc EXCEPT ![t] = IF @ = "wait" THEN "top" ELSE @]
    /\ UNCHANGED <<batch, size>>
    /\ Marked

Larger(m, n)  == IF m < n THEN n ELSE m
Smaller(m, n) == IF m > n THEN n ELSE m

\* First pass: an idle thread gets the context; of busy ones the sizes are taken.
FirstPass ==
    /\ mpc = "first"
    /\ at <= NThreads
    /\ \/ size[at] = 0 /\ Give(at)
       \/ /\ size[at] # 0
          /\ most' = Larger(most, size[at])
          /\ least' = Smaller(least, size[at])
          /\ at' = at + 1
          /\ UNCHANGED <<ctxVars, listVars, mpc, todo, target, playerVars>>

\* All threads are busy.
AllBusy ==
    /\ mpc = "first"
    /\ at > NThreads
    /\ mpc' = "second"
    /\ at' = 1
    /\ most' = IF most = least THEN most + 1 ELSE most
    /\ UNCHANGED <<ctxVars, listVars, todo, target, least, playerVars>>

\* Second pass: the first thread whose size is not the largest one seen gets it.
SecondPass ==
    /\ mpc = "second"
    /\ at <= NThreads
    /\ \/ size[at] # most /\ Give(at)
       \/ /\ size[at] = most
          /\ at' = at + 1
          /\ UNCHANGED <<ctxVars, listVars, mpc, todo, target, most, least, playerVars>>

\* Every thread had that size when it was looked at: nobody got the context,
\* which is marked as handled all the same.
NobodyLess ==
    /\ mpc = "second"
    /\ at > NThreads
    /\ Marked
    /\ UNCHANGED listVars

----------------------------------------------------------------------------
(***************************************************************************)
(* A stream thread: stream_thread_t::run.                                  *)
(***************************************************************************)

Top_Copied(t) ==
    /\ wpc[t] = "top"
    /\ batch' = [batch EXCEPT ![t] = pending[t]]
    /\ size' = [size EXCEPT ![t] = Len(pending[t])]
    /\ wpc' = [wpc EXCEPT ![t] = IF pending[t] = <<>> THEN "wait" ELSE "run"]
    /\ UNCHANGED <<ctxVars, mainVars, playerVars, pending>>

\* The thread takes what it was given, or waits.
Top(t) ==
    /\ wpc[t] = "top"
    /\ batch' = [batch EXCEPT ![t] = pending[t]]
    /\ pending' = [pending EXCEPT ![t] = <<>>]
    /\ size' = [size EXCEPT ![t] = Len(pending[t])]
    /\ wpc' = [wpc EXCEPT ![t] = IF pending[t] = <<>> THEN "wait" ELSE "run"]
    /\ UNCHANGED <<ctxVars, mainVars, playerVars>>

\* The context is done: the next of the batch, or the next batch.
Advance(t) ==
    /\ batch' = [batch EXCEPT ![t] = Tail(@)]
    /\ wpc' = [wpc EXCEPT ![t] = IF Len(batch[t]) = 1 THEN "top" ELSE "run"]
    /\ UNCHANGED <<pending, size>>

Filled_Stopping(t) ==
    /\ wpc[t] = "run"
    /\ wpc' = [wpc EXCEPT ![t] = "release"]
    /\ UNCHANGED <<ctxVars, pending, batch, size, mainVars, playerVars>>

\* stream_ctx::run until need_handler says that the buffer is full.
Filled(t) ==
    /\ wpc[t] = "run"
    /\ ~stopping[Head(batch[t])]
    /\ wpc' = [wpc EXCEPT ![t] = "release"]
    /\ UNCHANGED <<ctxVars, pending, batch, size, mainVars, playerVars>>

\* stream_ctx::run returns an error: the file's end, no voice client, or the
\* player is stopping.
RunEnds(t) ==
    /\ wpc[t] = "run"
    /\ wpc' = [wpc EXCEPT ![t] = "erase"]
    /\ UNCHANGED <<ctxVars, pending, batch, size, mainVars, playerVars>>

Release_StillHandled(t) ==
    /\ wpc[t] = "release"
    /\ mpc = "sleep"
    /\ Advance(t)
    /\ UNCHANGED <<ctxVars, mainVars, playerVars>>

\* Under the lock: the main loop may hand the context out again.
Release(t) ==
    /\ wpc[t] = "release"
    /\ mpc = "sleep"
    /\ handled' = [handled EXCEPT ![Head(batch[t])] = FALSE]
    /\ Advance(t)
    /\ UNCHANGED <<live, mainVars, playerVars>>

\* erase_ctx, under the lock: the context's destructor ends the stream
\* (done_streaming).  The marker inserted afterwards is any later Marker step.
Erase(t) ==
    LET g == Head(batch[t])
    IN  /\ wpc[t] = "erase"
        /\ mpc = "sleep"
        /\ live' = live \ {g}
        /\ handled' = [handled EXCEPT ![g] = FALSE]
        /\ processing' = [processing EXCEPT ![g] = FALSE]
        /\ stopping' = [stopping EXCEPT ![g] = FALSE]
        /\ Advance(t)
        /\ UNCHANGED <<mainVars, starting, opening, stopper>>

----------------------------------------------------------------------------
Player ==
    \E g \in Guilds :
        \/ Marker(g)
        \/ PlayInit(g)
        \/ \E opens \in BOOLEAN : Submit(g, opens)
        \/ StopBegin(g)
        \/ StopEnd(g)

Main ==
    \/ PassBegin
    \/ PassEnd
    \/ \E g \in Guilds : Leave(g) \/ Notify(g)
    \/ FirstPass
    \/ AllBusy
    \/ SecondPass
    \/ NobodyLess

Worker(t) == Top(t) \/ Filled(t) \/ RunEnds(t) \/ Release(t) \/ Erase(t)

Next == Player \/ Main \/ \E t \in Threads : Worker(t)

Spec == Init /\ [][Next]_vars

\* The main loop and the threads are never stopped for good.  The main loop
\* sleeps between its passes, so that a thread that asks for the lock again and
\* again gets it; decoding is faster than listening, so that a buffer fills;
\* and what a voice client has buffered is played, so that again and again it
\* needs more when the main loop looks.
Fairness ==
    /\ WF_vars(Main)
    /\ \A g \in Guilds :
        /\ SF_vars(Notify(g))
        /\ WF_vars(StopEnd(g))
        /\ SF_vars(\E opens \in BOOLEAN : Submit(g, opens))
    /\ \A t \in Threads :
        /\ WF_vars(Top(t))
        /\ WF_vars(Filled(t) \/ RunEnds(t))
        /\ SF_vars(Release(t))
        /\ SF_vars(Erase(t))

FairSpec == Spec /\ Fairness
----------------------------------------------------------------------------
(***************************************************************************)
(* Properties.                                                             *)
(***************************************************************************)

Positions == {"sleep", "scan", "first", "second"}

TypeOK ==
    /\ live \subseteq Guilds
    /\ handled \in [Guilds -> BOOLEAN]
    /\ pending \in [Threads -> Seq(Guilds)]
    /\ batch \in [Threads -> Seq(Guilds)]
    /\ size \in [Threads -> Nat]
    /\ wpc \in [Threads -> {"top", "wait", "run", "release", "erase"}]
    /\ mpc \in Positions
    /\ todo \subseteq Guilds
    /\ target \in Guilds \cup {NoGuild}
    /\ at \in 1..(NThreads + 1)
    /\ most \in Nat
    /\ least \in Nat
    /\ processing \in [Guilds -> BOOLEAN]
    /\ stopping \in [Guilds -> BOOLEAN]
    /\ starting \in [Guilds -> 0..MaxStarts]
    /\ opening \in [Guilds -> BOOLEAN]
    /\ stopper \in [Guilds -> BOOLEAN]

Lists == {"pending", "batch"}
List(t, l) == IF l = "pending" THEN pending[t] ELSE batch[t]

Held(g) ==
    \E t \in Threads, l \in Lists : \E i \in 1..Len(List(t, l)) : List(t, l)[i] = g

Running(g) ==
    \E t \in Threads : wpc[t] \in {"run", "release", "erase"} /\ Head(batch[t]) = g

\* A context is in one place of one thread's lists at most: no two threads run
\* one decoder, and none is left with a pointer another one deletes.
OneOwner ==
    \A t, u \in Threads : \A l, m \in Lists :
        \A i \in 1..Len(List(t, l)), j \in 1..Len(List(u, m)) :
            List(t, l)[i] = List(u, m)[j] => t = u /\ l = m /\ i = j

\* What a thread was given is a context that still exists and that the main
\* loop will not hand out again.
HeldIsLive == \A g \in Guilds : Held(g) => g \in live /\ handled[g]

\* A context marked as handled has a thread that handles it.
HandledIsHeld == \A g \in live : handled[g] => Held(g)

\* Every open stream gets a thread again and again, until it ends.
EveryStreamRuns == \A g \in Guilds : g \in live ~> (Running(g) \/ g \notin live)

\* A stream that is told to stop ends.
StopEnds == \A g \in Guilds : stopping[g] /\ g \in live ~> g \notin live

\* The threads implement the life of a stream.
SL == INSTANCE StreamLife WITH
        open    <- live,
        running <- {g \in Guilds : Running(g)}

ImplementsStreamLife == SL!Spec
=============================================================================
