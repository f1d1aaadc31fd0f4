----------------------------- MODULE TrackQueue -----------------------------
(***************************************************************************)
(* The track queue of one guild's player: the commands that reorder it and *)
(* the track-marker handler that decides what plays next.                  *)
(*                                                                         *)
(* Every command is one atomic step here, also the ones the code runs      *)
(* without the player's mutex (marked "unlocked"), but for the play        *)
(* command, whose thread adds the track in one step and publishes the      *)
(* queue, which settles it, in a later one.                                *)
(*                                                                         *)
(* The voice client and the stream are reduced to `phase':                 *)
(*   idle      nothing buffered, no marker due                             *)
(*   start     an "s" marker is due (decide_play)                          *)
(*   starting  the handler chose current_track and spawned its worker      *)
(*   playing   the stream of current_track is running                      *)
(*   end       the stream ended or was stopped and its "e" marker is due   *)
(***************************************************************************)
EXTENDS TrackQueueOps

CONSTANTS
    Files,          \* audio files (MCTrack::filename)
    Users,          \* users who add tracks
    Bot,            \* the bot's own user, who owns the tracks it loads itself
    MaxAdds,        \* bound: number of entries ever added
    MaxLoads,       \* bound: number of restarts
    MaxRepeat,      \* bound on the repeat count asked for by the loop command
    SkipAmounts,    \* amounts given to the skip command
    InitModes,      \* loop modes the guild's saved configuration may hold
    Slips,          \* queue positions given to the play command, 0 for none
    Commands,       \* the commands users give in this instance
    SameFileTwice   \* whether two entries may play the same file

ASSUME ConstantsAssumption ==
    /\ Bot \in Users
    /\ MaxAdds \in Nat
    /\ MaxLoads \in Nat
    /\ MaxRepeat \in Nat
    /\ SkipAmounts \subseteq Int
    /\ Slips \subseteq Nat
    /\ InitModes \subseteq LoopModes
    /\ SameFileTwice \in BOOLEAN

VARIABLES
    queue,      \* guild_player_t::queue
    shifted,    \* guild_player_t::shifted_track
    current,    \* guild_player_t::current_track
    loop_mode,  \* guild_player_t::loop_mode
    stopped,    \* guild_player_t::stopped
    phase,      \* where the playback of current is (see above)
    saved,      \* the guild's row of guilds_current_queue
    loaded,     \* guild_player_t::saved_queue_loaded
    redo,       \* the failed entry whose download will put it back, or NoTrack
    snap,       \* queue size a queue command took before locking, or NoSnap
    publishing, \* threads that have added a track and not yet published the queue
    adds,       \* entries added so far: the next key
    loads,      \* restarts so far
    asked       \* history: what the last command asks of the marker handler

playerVars == <<queue, shifted, current, loop_mode, stopped>>
dbVars     == <<saved, loaded, loads>>
vars       == <<playerVars, phase, dbVars, redo, snap, publishing, adds, asked>>

Track  == [key : 1..MaxAdds, file : Files, user : Users, repeat : 0..MaxRepeat]
\* MCTrack {}: the empty current_track.
NoTrack == [key |-> 0]
NoSnap  == -1
NoKey   == 0
Next1(k) == [next |-> k, gone |-> NoKey]
Nothing == Next1(NoKey)
Phases  == {"idle", "start", "starting", "playing", "end"}

Init ==
    /\ queue = <<>>
    /\ shifted = 0
    /\ current = NoTrack
    /\ loop_mode \in InitModes
    /\ stopped = FALSE
    /\ phase = "idle"
    /\ saved = <<>>
    /\ loaded = FALSE
    /\ redo = NoTrack
    /\ snap = NoSnap
    /\ publishing = 0
    /\ adds = 0
    /\ loads = 0
    /\ asked = Nothing

----------------------------------------------------------------------------
(***************************************************************************)
(* Commands.                                                               *)
(***************************************************************************)

\* stop () and skip_to_next_marker (): a running stream ends and its "e"
\* marker becomes due; nothing happens when no stream is running.
StoppedPhase == IF phase = "playing" THEN "end" ELSE phase

KeySet(q) == {q[i].key : i \in 1..Len(q)}
KeyAt(q, i) == IF i \in 1..Len(q) THEN q[i].key ELSE NoKey

\* The first entry of q is the one playing, and no stop command was given
\* since it was chosen.
PlaysFirst(q) == phase = "playing" /\ KeyAt(q, 1) = current.key /\ ~stopped

FilesInUse ==
    {queue[i].file : i \in 1..Len(queue)} \cup {saved[i].file : i \in 1..Len(saved)}
    \cup {t.file : t \in {current, redo} \ {NoTrack}}

\* add_track (unlocked): a new entry, at the end, at the position `slip', or
\* on top.
AddTrack(file, user, top, slip) ==
    /\ "add" \in Commands
    /\ adds < MaxAdds
    /\ SameFileTwice \/ file \notin FilesInUse
    /\ LET t == [key |-> adds + 1, file |-> file, user |-> user, repeat |-> 0]
       IN  queue' = Added(queue, t, top, slip)
    /\ shifted' = ShiftedAfterAdd(queue, shifted, top, slip)
    /\ adds' = adds + 1
    /\ publishing' = publishing + 1
    /\ asked' = Nothing
    /\ UNCHANGED <<current, loop_mode, stopped, phase, dbVars, redo, snap>>

\* decide_play: an "s" marker when nothing plays and somebody listens.
DecidedPhase(listening) == IF phase = "idle" /\ listening THEN "start" ELSE phase

\* The rest of the thread that added a track: publish_queue reads the queue,
\* which settles it (unlocked), and decide_play starts playback.
Publish(listening) ==
    /\ publishing > 0
    /\ publishing' = publishing - 1
    /\ queue' = Settled(queue, shifted)
    /\ shifted' = 0
    /\ phase' = DecidedPhase(listening)
    /\ UNCHANGED <<current, loop_mode, stopped, dbVars, redo, snap, adds, asked>>

\* current_track.repeat = 0, unless it is the empty track.
NotRepeated(t) == IF t = NoTrack THEN t ELSE [t EXCEPT !.repeat = 0]

\* manager::skip and, for one track, the dashboard's handle_next.
Skip(amount, remove) ==
    LET q == Settled(queue, shifted)
    IN  /\ "skip" \in Commands
        /\ queue' = SkippedQueue(q, loop_mode, amount, remove, FALSE)
        /\ shifted' = 0
        /\ current' = NotRepeated(current)
        /\ phase' = StoppedPhase
        /\ asked' = IF PlaysFirst(q)
                    THEN [next |-> KeyAt(q, IF amount < 1 THEN 2 ELSE amount + 1),
                          gone |-> IF remove THEN current.key ELSE NoKey]
                    ELSE Nothing
        /\ UNCHANGED <<loop_mode, stopped, dbVars, redo, snap, publishing, adds>>

\* button_run_prev and handle_prev.
Prev ==
    LET q == Settled(queue, shifted)
    IN  /\ "prev" \in Commands
        /\ queue' = LastToFront(q)
        /\ shifted' = 0
        /\ current' = NotRepeated(current)
        /\ phase' = IF q = <<>> THEN phase ELSE StoppedPhase
        /\ asked' = IF PlaysFirst(q) /\ Len(q) > 1 THEN Next1(KeyAt(q, Len(q))) ELSE Nothing
        /\ UNCHANGED <<loop_mode, stopped, dbVars, redo, snap, publishing, adds>>

\* The stop command (unlocked): the stream ends, and `stopped' keeps the
\* marker handler from dropping the track when playback is resumed.
Stop ==
    /\ "stop" \in Commands
    /\ queue # <<>> \/ phase \in {"playing", "end"}
    /\ phase' = StoppedPhase
    /\ stopped' = TRUE
    /\ asked' = IF phase = "playing" /\ KeyAt(queue, shifted + 1) = current.key
                THEN Next1(current.key) ELSE Nothing
    /\ UNCHANGED <<queue, shifted, current, loop_mode, dbVars, redo, snap, publishing, adds>>

\* The move command.  It takes the lock but settles the queue only when it
\* publishes it, after the move.
Move(fr, to) ==
    /\ "move" \in Commands
    /\ Len(queue) > 2
    /\ fr \in 1..(Len(queue) - 1)
    /\ to \in 1..(Len(queue) - 1)
    /\ fr # to
    /\ queue' = Settled(Moved(queue, fr, to), shifted)
    /\ shifted' = 0
    /\ asked' = Nothing
    /\ UNCHANGED <<current, loop_mode, stopped, phase, dbVars, redo, snap, publishing, adds>>

\* The remove command (unlocked).
RemoveTrack(pos, amount, to) ==
    LET q == Settled(queue, shifted)
    IN  /\ "remove" \in Commands
        /\ queue' = RemovedTracks(q, pos, amount, to)
        /\ shifted' = 0
        /\ asked' = Nothing
        /\ UNCHANGED <<current, loop_mode, stopped, phase, dbVars, redo, snap, publishing, adds>>

\* get_queue (unlocked): any reader of the queue settles it.
GetQueue ==
    /\ shifted > 0
    /\ queue' = Settled(queue, shifted)
    /\ shifted' = 0
    /\ UNCHANGED <<current, loop_mode, stopped, phase, dbVars, redo, snap, publishing, adds, asked>>

\* The loop command (unlocked), asking for a number of repeats of the song.
LoopAmount(n) ==
    LET q == Settled(queue, shifted)
    IN  /\ "loop" \in Commands
        /\ current # NoTrack
        /\ current' = [current EXCEPT !.repeat = n]
        /\ queue' = FrontRepeat(IF q = <<>> THEN <<current>> ELSE q, n)
        /\ shifted' = 0
        /\ asked' = Nothing
        /\ UNCHANGED <<loop_mode, stopped, phase, dbVars, redo, snap, publishing, adds>>

\* The loop command, changing the mode.
SetLoopMode(mode) ==
    /\ "loop" \in Commands
    /\ mode # loop_mode
    /\ loop_mode' = mode
    /\ queue' = Settled(queue, shifted)
    /\ shifted' = 0
    /\ asked' = Nothing
    /\ UNCHANGED <<current, stopped, phase, dbVars, redo, snap, publishing, adds>>

----------------------------------------------------------------------------
(***************************************************************************)
(* The queue command: it loads the saved queue, takes a copy of the queue  *)
(* without the lock, and modifies the queue under the lock, using the size *)
(* of that copy.                                                           *)
(***************************************************************************)

\* load_guild_current_queue: once after a restart, the saved entries go to
\* the end of the queue.
Restored == [i \in 1..Len(saved) |-> [saved[i] EXCEPT !.user = Bot, !.repeat = 0]]

Loaded_Again(q) == q \o Restored
Loaded_InFront(q) == IF loaded THEN q ELSE Restored \o q

Loaded(q) == IF loaded THEN q ELSE q \o Restored

QueueSnapshot ==
    /\ "queue" \in Commands
    /\ snap = NoSnap
    /\ LET q == Settled(Loaded(queue), shifted)
       IN  /\ queue' = q
           /\ snap' = IF q = <<>> THEN NoSnap ELSE Len(q)
    /\ shifted' = 0
    /\ loaded' = TRUE
    /\ asked' = Nothing
    /\ UNCHANGED <<current, loop_mode, stopped, phase, saved, loads, redo, publishing, adds>>

\* handle_option: what the locked part leaves of the settled queue q.  An
\* index past the end throws, which leaves the settled queue.
QueueModified(q) ==
    \/ /\ queue' = IF snap >= 2 /\ q # <<>> THEN <<q[1]>> ELSE q      \* m_clear
    \/ /\ queue' \in IF Len(q) >= 3 THEN Shuffles(q) ELSE {q}         \* m_shuffle
    \/ /\ queue' = IF snap >= 3 /\ snap <= Len(q)                     \* m_reverse
                   THEN ReversedTail(q, snap) ELSE q
    \/ \E users \in SUBSET Users : queue' \in RemovedUsers(q, users)  \* m_clear_left, m_clear_musicat

QueueApply ==
    /\ snap # NoSnap
    /\ QueueModified(Settled(queue, shifted))
    /\ shifted' = 0
    /\ snap' = NoSnap
    /\ asked' = Nothing
    /\ UNCHANGED <<current, loop_mode, stopped, phase, dbVars, redo, publishing, adds>>

----------------------------------------------------------------------------
(***************************************************************************)
(* Playback: the marker handler and its worker.                            *)
(***************************************************************************)

AfterEnd_Unrepeated(q) ==
    IF stopped \/ q[1].file # current.file THEN q
    ELSE [q EXCEPT ![1].repeat = current.repeat - 1]

AfterEnd_Resumed(q) ==
    IF q[1].file = current.file /\ loop_mode = "l_none" THEN Tail(q) ELSE q

AfterEnd_Always(q) == IF loop_mode = "l_none" THEN Tail(q) ELSE q

AfterEnd_NoLoop(q) ==
    IF stopped \/ q[1].file # current.file \/ loop_mode \in SongModes THEN q ELSE Tail(q)

\* The loop mode at the end of a track: what handle_on_track_marker does to
\* the settled queue q when the "e" marker of current is handled.
AfterEnd(q) ==
    IF stopped \/ q[1].file # current.file THEN q
    ELSE IF current.repeat > 0 /\ q[1].repeat > 0
         THEN [q EXCEPT ![1].repeat = current.repeat - 1]
         ELSE CASE loop_mode = "l_none"  -> Tail(q)
                [] loop_mode = "l_queue" -> Append(Tail(q), q[1])
                [] OTHER                 -> q

SavedAfter_NotEmpty(r) == IF loaded /\ r # <<>> THEN r ELSE saved

\* The handler saves the queue r it leaves (and deletes the row of an empty
\* one), unless it has just loaded it.
SavedAfter(r) == IF loaded THEN r ELSE saved

\* handle_on_track_marker, the part under the lock.  `meta' is the marker;
\* `listening' whether the bot's channel has a listener.
TrackMarker(meta, listening) ==
    /\ phase = IF meta = "e" THEN "end" ELSE "start"
    /\ loaded' = TRUE
    /\ LET q == Settled(Loaded(queue), shifted)
           r == IF q # <<>> /\ meta = "e" /\ current # NoTrack THEN AfterEnd(q) ELSE q
       IN  \/ /\ q = <<>>
              /\ phase' = "idle"
              /\ UNCHANGED <<queue, shifted, current, stopped, saved>>
           \/ /\ q # <<>> /\ r = <<>>
              /\ queue' = r /\ shifted' = 0
              /\ current' = NoTrack
              /\ saved' = SavedAfter(r)
              /\ phase' = "idle"
              /\ UNCHANGED stopped
           \/ /\ q # <<>> /\ r # <<>>
              /\ queue' = r /\ shifted' = 0
              /\ current' = r[1]
              /\ stopped' = FALSE
              /\ saved' = SavedAfter(r)
              /\ phase' = IF listening THEN "starting" ELSE "idle"
    /\ UNCHANGED <<loop_mode, loads, redo, snap, publishing, adds, asked>>

\* handle_on_voice_ready: an idle voice client that becomes ready starts playback.
VoiceReady ==
    /\ phase = "idle"
    /\ phase' = "start"
    /\ UNCHANGED <<playerVars, dbVars, redo, snap, publishing, adds, asked>>

\* The worker finds the file and play () starts the stream.
WorkerPlays ==
    /\ phase = "starting"
    /\ phase' = "playing"
    /\ asked' = Nothing
    /\ UNCHANGED <<playerVars, dbVars, redo, snap, publishing, adds>>

\* The worker finds no file: it skips the first entry of the queue and asks
\* for the next one, which `stopped' keeps from being dropped as well; after
\* three failures it only skips.  The file may be downloaded again.
WorkerFails(giveUp, download) ==
    /\ "fail" \in Commands
    /\ phase = "starting"
    /\ redo = NoTrack
    /\ queue' = SkippedQueue(Settled(queue, shifted), loop_mode, 1, TRUE, TRUE)
    /\ shifted' = 0
    /\ current' = NotRepeated(current)
    /\ stopped' = IF giveUp THEN stopped ELSE TRUE
    /\ phase' = IF giveUp THEN "idle" ELSE "end"
    /\ redo' = IF download /\ ~giveUp THEN current' ELSE NoTrack
    /\ asked' = Nothing
    /\ UNCHANGED <<loop_mode, dbVars, snap, publishing, adds>>

\* The download of the missing file is over: under the lock the entry goes on
\* top and the queue is published, which settles it.
Redownloaded(listening) ==
    /\ redo # NoTrack
    /\ queue' = Settled(Added(queue, redo, TRUE, 0), ShiftedAfterAdd(queue, shifted, TRUE, 0))
    /\ shifted' = 0
    /\ phase' = DecidedPhase(listening)
    /\ redo' = NoTrack
    /\ asked' = Nothing
    /\ UNCHANGED <<current, loop_mode, stopped, dbVars, snap, publishing, adds>>

\* The stream reaches the end of the file and its marker is handled next.
StreamEnds ==
    /\ phase = "playing"
    /\ phase' = "end"
    /\ LET q == Settled(queue, shifted)
           again == \/ current.repeat > 0
                    \/ loop_mode \in SongModes
                    \/ loop_mode = "l_queue" /\ Len(q) = 1
       IN  asked' = IF ~PlaysFirst(q) THEN Nothing
                    ELSE Next1(IF again THEN current.key ELSE KeyAt(q, 2))
    /\ UNCHANGED <<playerVars, dbVars, redo, snap, publishing, adds>>

\* The process restarts: only the database keeps the queue.
Restart ==
    /\ "restart" \in Commands
    /\ loads < MaxLoads
    /\ loads' = loads + 1
    /\ queue' = <<>> /\ shifted' = 0 /\ current' = NoTrack
    /\ loop_mode' \in InitModes /\ stopped' = FALSE
    /\ phase' = "idle" /\ loaded' = FALSE /\ redo' = NoTrack
    /\ snap' = NoSnap /\ publishing' = 0 /\ asked' = Nothing
    /\ UNCHANGED <<saved, adds>>

----------------------------------------------------------------------------
\* The arguments the commands let through: the play command gives a position
\* or asks for the top, the remove command checks its positions against a copy
\* of the queue, which may have changed since (its amount matters only when no
\* later position is given).
AddCommand ==
    \E f \in Files, u \in Users :
        \/ AddTrack(f, u, TRUE, 0)
        \/ \E slip \in Slips : AddTrack(f, u, FALSE, slip)

RemoveCommand ==
    \E pos \in 1..(MaxAdds - 1) :
        \/ \E n \in 1..(MaxAdds - 1) : RemoveTrack(pos, n, NoTo)
        \/ \E to \in pos..(MaxAdds - 1) : RemoveTrack(pos, 1, to)

Command ==
    \/ AddCommand
    \/ \E listening \in BOOLEAN : Publish(listening)
    \/ \E n \in SkipAmounts, remove \in BOOLEAN : Skip(n, remove)
    \/ Prev
    \/ Stop
    \/ \E fr, to \in 1..(MaxAdds - 1) : Move(fr, to)
    \/ RemoveCommand
    \/ GetQueue
    \/ \E n \in 0..MaxRepeat : LoopAmount(n)
    \/ \E m \in LoopModes : SetLoopMode(m)
    \/ QueueSnapshot
    \/ QueueApply

Playback ==
    \/ \E meta \in {"s", "e"}, listening \in BOOLEAN : TrackMarker(meta, listening)
    \/ VoiceReady
    \/ WorkerPlays
    \/ \E giveUp, download \in BOOLEAN : WorkerFails(giveUp, download)
    \/ \E listening \in BOOLEAN : Redownloaded(listening)
    \/ StreamEnds

Next == Command \/ Playback \/ Restart

Spec == Init /\ [][Next]_vars
----------------------------------------------------------------------------
(***************************************************************************)
(* Properties.                                                             *)
(***************************************************************************)

TypeOK ==
    /\ queue \in Seq(Track)
    /\ shifted \in Nat
    /\ current \in Track \cup {NoTrack}
    /\ loop_mode \in LoopModes
    /\ stopped \in BOOLEAN
    /\ phase \in Phases
    /\ saved \in Seq(Track)
    /\ loaded \in BOOLEAN
    /\ redo \in Track \cup {NoTrack}
    /\ snap \in Nat \cup {NoSnap}
    /\ adds \in 0..MaxAdds
    /\ publishing \in 0..adds
    /\ loads \in 0..MaxLoads
    /\ asked \in [next : 0..MaxAdds, gone : 0..MaxAdds]

\* shifted_track always points into the queue, so that reset_shifted never
\* dereferences an iterator past its end (player.cpp, reset_shifted), whatever
\* order commands, markers and restarts come in.
ShiftedInRange == shifted = 0 \/ shifted < Len(queue)

\* No sequence of commands, rotations, failed downloads and restarts makes an
\* entry appear twice in the queue or vanish into a copy of another.
NoDuplicate == Len(queue) = Cardinality(KeySet(queue))

\* The entry that plays is the one shifted_track points at.
PlayingIsFirst == KeyAt(queue, shifted + 1) = current.key

\* While a stream goes on no command takes the playing track away from the
\* place shifted_track keeps for it: tracks put on top, removals, shuffles and
\* readers that settle the queue all leave it there.
PlayingStaysFirst ==
    [][phase = "playing" /\ phase' = "playing" /\ PlayingIsFirst => PlayingIsFirst']_vars

\* What plays next is what was asked for: the next entry after a track ended
\* or was skipped (according to the loop mode), the last one after "previous",
\* the same one after "stop", provided no other command came in between.  A
\* track skipped with "remove" has left the queue by then.
ExpectedNext ==
    phase = "starting" =>
        /\ asked.next \in {NoKey, current.key}
        /\ asked.gone # NoKey => asked.gone \notin KeySet(queue)
\* Playback itself drops one entry at most, the one it was playing or failed to
\* play: the marker handler and the worker act on a queue that commands may
\* have reordered since the track was chosen.
OnlyCurrentDropped ==
    [][ loaded' /\ phase' # phase /\ phase \in {"start", "starting", "end"}
          => \A k \in KeySet(queue) : k \in KeySet(queue') \cup {current.key} ]_vars

\* With the queue looping no entry is lost, except to the commands that remove
\* entries: not by the end of a track, not by a skip that keeps, not by a reader.
LoopKeepsEntries ==
    [][ \/ loop_mode \notin QueueModes
        \/ KeySet(queue) \subseteq KeySet(queue')
        \/ \E n \in SkipAmounts : Skip(n, TRUE)
        \/ RemoveCommand
        \/ QueueApply
        \/ \E giveUp, download \in BOOLEAN : WorkerFails(giveUp, download)
        \/ Restart ]_vars

\* Every marker handled brings the saved queue up to date, whichever way the
\* handler leaves, so that a restart brings back no finished track and misses
\* none.  (Not the first marker after a restart, which loads the saved queue,
\* and not one that finds the queue already emptied by a skip.)
SavedFollowsQueue ==
    [][ loaded /\ loaded' /\ queue # <<>>
        /\ phase \in {"start", "end"} /\ phase' \in {"idle", "starting"}
          => KeySet(saved') = KeySet(queue') ]_vars

\* What a restart brings back comes in its saved order, and behind the entries
\* users added before it was loaded.
RestoredBehindNew ==
    [][ ~loaded /\ loaded' /\ queue' # <<>>
          => /\ Len(queue') = Len(queue) + Len(saved)
             /\ \A i \in 1..Len(saved) : queue'[Len(queue) + i].key = saved[i].key ]_vars

\* The queue implements the listener's playlist.
PL == INSTANCE Playlist WITH
        Keys    <- 1..MaxAdds,
        list    <- [i \in 1..Len(queue) |-> Settled(queue, shifted)[i].key],
        playing <- IF phase = "playing" THEN current.key ELSE 0

ImplementsPlaylist == PL!Spec
=============================================================================
