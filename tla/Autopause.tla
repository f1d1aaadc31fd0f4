----------------------------- MODULE Autopause -----------------------------
(***************************************************************************)
(* Pausing in one guild: by hand, when nobody listens, and when the bot is *)
(* muted by a moderator; and the timers that resume what was not paused by *)
(* hand.  Commands and the handlers of voice events run on the threads of  *)
(* a pool, timers in the main loop.  The voice client's flag and the table *)
(* manually_paused are written one after the other, by each of them.       *)
(*                                                                         *)
(* Users leave the voice channel or come to it.  What follows one to       *)
(* another channel is in VoiceConnection.                                  *)
(*                                                                         *)
(* Definitions named X_<what> are X with a plausible mistake; no           *)
(* specification uses them.                                                *)
(***************************************************************************)
EXTENDS Integers, Sequences, SequencesExt, FiniteSets

CONSTANTS
    Users,      \* who may listen
    Bot,        \* the bot's own user
    Threads,    \* threads of the library's pool
    Commands,   \* what users may do
    MaxEvents   \* bound: number of commands, of arrivals and departures, and
                \* of times the bot is muted or unmuted

AllCommands == {"pause", "play", "stop", "next"}

ASSUME ConstantsAssumption ==
    /\ Bot \notin Users
    /\ Commands \subseteq AllCommands
    /\ MaxEvents \in Nat

VARIABLES
    paused,     \* the voice client's flag
    audio,      \* what the voice client has: a track, a marker, nothing
    manually,   \* whether the guild is in manually_paused
    timers,     \* rt_v: the users whose resume timer is pending
    heard,      \* the library's cache: who is in the bot's channel
    muted,      \* the library's cache: whether the bot is muted
    cached,     \* the same as the program remembers it
    jobs,       \* events whose handler has not begun
    pc,         \* where each thread is
    job,        \* the event its handler is about
    main,       \* the timer the main loop is at, and where it is with it
    byHand,     \* history: whether it was last paused by hand
    raced,      \* history: whether a step came between another's look and act
    mixed,      \* history: whether the bot was muted while nobody listened
    events      \* number of commands, moves and mutes so far

client  == <<paused, audio>>
cache   == <<heard, muted, cached>>
threads == <<pc, job>>
history == <<byHand, raced, mixed>>
vars == <<client, manually, timers, cache, jobs, threads, main, history, events>>

NoJob == [kind |-> "none", user |-> Bot]
Job(kind, u) == [kind |-> kind, user |-> u]
Kinds == {"come", "go", "mute", "unmute", "marker"}
IsMute(j) == j.kind \in {"mute", "unmute"}
Resting == [at |-> "idle", user |-> Bot]

Init ==
    /\ paused = FALSE
    /\ audio = "track"
    /\ manually = FALSE
    /\ timers = {}
    /\ heard \in (SUBSET Users) \ {{}}
    /\ muted = FALSE
    /\ cached = FALSE
    /\ jobs = <<>>
    /\ pc = [t \in Threads |-> "idle"]
    /\ job = [t \in Threads |-> NoJob]
    /\ main = Resting
    /\ byHand = FALSE
    /\ raced = FALSE
    /\ mixed = FALSE
    /\ events = 0

Bounded ==
    /\ events < MaxEvents
    /\ events' = events + 1

At(t, where) == pc[t] = where
Goto(t, where) == pc' = [pc EXCEPT ![t] = where]

Pending(kinds) == \E i \in DOMAIN jobs : jobs[i].kind \in kinds

\* What a thread acts on is not so any more.
Races(b) == raced' = (raced \/ b)

----------------------------------------------------------------------------
(***************************************************************************)
(* Commands of a user in the bot's channel.                                *)
(***************************************************************************)

Calling(t, command) ==
    /\ At(t, "idle")
    /\ command \in Commands
    /\ heard # {}
    /\ Bounded

\* pause, and the button and the dashboard's message: only what plays.
Pause(t) ==
    /\ Calling(t, "pause")
    /\ ~paused
    /\ paused' = TRUE
    /\ Goto(t, "set_manually_paused")
    /\ UNCHANGED <<audio, manually, timers, cache, jobs, job, main, history>>

set_manually_paused_Never(t) ==
    /\ At(t, "set_manually_paused")
    /\ byHand' = TRUE
    /\ Races(timers # {} \/ ~paused \/ Pending({"marker"}))
    /\ Goto(t, "idle")
    /\ UNCHANGED <<client, manually, timers, cache, jobs, job, main, mixed, events>>

\* Whoever is about to resume by then will not look again.
set_manually_paused(t) ==
    /\ At(t, "set_manually_paused")
    /\ manually' = TRUE
    /\ byHand' = TRUE
    /\ Races(timers # {} \/ ~paused \/ Pending({"marker"}))
    /\ Goto(t, "idle")
    /\ UNCHANGED <<client, timers, cache, jobs, job, main, mixed, events>>

\* play, and what the dashboard and the button do: unpause.
Play(t) ==
    /\ Calling(t, "play")
    /\ paused
    /\ manually' = FALSE
    /\ byHand' = FALSE
    /\ Goto(t, "unpause")
    /\ UNCHANGED <<client, timers, cache, jobs, job, main, raced, mixed>>

Unpause(t) ==
    /\ At(t, "unpause")
    /\ paused' = FALSE
    /\ Races(manually \/ heard = {})
    /\ Goto(t, "idle")
    /\ UNCHANGED <<audio, manually, timers, cache, jobs, job, main, byHand, mixed, events>>

\* skip_playback: whatever is left of the track is dropped.
skip_playback ==
    /\ audio # "none" \/ \E s \in Threads : pc[s] \in {"start", "play"}
    /\ audio' = IF audio = "none" THEN "none" ELSE "marker"
    /\ paused' = FALSE

Skip(t) ==
    /\ Calling(t, "next")
    /\ skip_playback
    /\ byHand' = FALSE
    /\ Races(audio = "none" /\ manually)
    /\ UNCHANGED <<manually, timers, cache, jobs, threads, main, mixed>>

Stop(t) ==
    /\ Calling(t, "stop")
    /\ skip_playback
    /\ byHand' = FALSE
    /\ Goto(t, "stop")
    /\ UNCHANGED <<manually, timers, cache, jobs, job, main, raced, mixed>>

\* The pause keeps the marker in the voice client.
StopPauses(t) ==
    /\ At(t, "stop")
    /\ paused' = TRUE
    /\ Goto(t, "set_manually_paused")
    /\ UNCHANGED <<audio, manually, timers, cache, jobs, job, main, history, events>>

Command(t) ==
    \/ Pause(t) \/ Play(t) \/ Skip(t) \/ Stop(t)

CommandProceeds(t) ==
    \/ set_manually_paused(t) \/ Unpause(t) \/ StopPauses(t)

----------------------------------------------------------------------------
(***************************************************************************)
(* What happens outside of the program.                                    *)
(***************************************************************************)

Reported(kind, u) == jobs' = Append(jobs, Job(kind, u))

\* The bot is muted, or the end of it is not dealt with yet.
MutesPending ==
    \/ muted \/ cached \/ Bot \in timers
    \/ Pending({"mute", "unmute"})
    \/ \E t \in Threads : IsMute(job[t])

Come(u) ==
    /\ u \notin heard
    /\ heard' = heard \cup {u}
    /\ Reported("come", u)
    /\ Bounded
    /\ UNCHANGED <<client, manually, timers, muted, cached, threads, main, history>>

Go(u) ==
    /\ u \in heard
    /\ heard' = heard \ {u}
    /\ Reported("go", u)
    /\ Races(main.user = u)
    /\ mixed' = (mixed \/ MutesPending)
    /\ Bounded
    /\ UNCHANGED <<client, manually, timers, muted, cached, threads, main, byHand>>

\* A moderator mutes the bot, or ends it.
Mute ==
    /\ muted' = ~muted
    /\ Reported(IF muted THEN "unmute" ELSE "mute", Bot)
    /\ mixed' = (mixed \/ heard = {})
    /\ Bounded
    /\ UNCHANGED <<client, manually, timers, heard, cached, threads, main, byHand, raced>>

\* The track is over, and the voice client comes to its marker.  A paused one
\* does neither.
TrackEnds ==
    /\ audio = "track"
    /\ ~paused
    /\ audio' = "marker"
    /\ UNCHANGED <<paused, manually, timers, cache, jobs, threads, main, history, events>>

MarkerReached ==
    /\ audio = "marker"
    /\ ~paused
    /\ audio' = "none"
    /\ Reported("marker", Bot)
    /\ UNCHANGED <<paused, manually, timers, cache, threads, main, history, events>>

Outside ==
    \/ \E u \in Users : Come(u) \/ Go(u)
    \/ Mute \/ TrackEnds \/ MarkerReached

----------------------------------------------------------------------------
(***************************************************************************)
(* Handlers of events.  One may overtake another.                          *)
(***************************************************************************)

Returns(t) ==
    /\ Goto(t, "idle")
    /\ job' = [job EXCEPT ![t] = NoJob]

\* A voice event's handler ends; that of the bot's own remembers the bot's state.
Ends(t) ==
    IF IsMute(job[t]) THEN Goto(t, "cache") /\ UNCHANGED job ELSE Returns(t)

Continues(t, where) == Goto(t, where) /\ UNCHANGED job

Starts(t, j, where) ==
    /\ job' = [job EXCEPT ![t] = j]
    /\ Goto(t, where)

\* handle_non_sha_voice_state_update looks at the table first, and leaves what
\* was paused by hand alone.
BeginMove(t, j) ==
    /\ j.kind \in {"come", "go"}
    /\ IF manually THEN UNCHANGED threads ELSE Starts(t, j, "look")
    /\ UNCHANGED <<manually, raced>>

\* So does check_autopause, for the bot's own event.
BeginMute(t, j, i) ==
    /\ IsMute(j)
    /\ Starts(t, j, IF manually THEN "cache" ELSE "compare")
    /\ Races(\/ \E k \in 1 .. i - 1 : IsMute(jobs[k])
             \/ \E s \in Threads : IsMute(job[s]))
    /\ UNCHANGED manually

\* handle_on_track_marker takes the guild out of the table.
BeginMarker(t, j) ==
    /\ j.kind = "marker"
    /\ manually' = FALSE
    /\ Starts(t, j, "start")
    /\ UNCHANGED raced

Begin(t) ==
    /\ At(t, "idle")
    /\ \E i \in DOMAIN jobs :
        /\ jobs' = RemoveAt(jobs, i)
        /\ BeginMove(t, jobs[i]) \/ BeginMute(t, jobs[i], i) \/ BeginMarker(t, jobs[i])
    /\ UNCHANGED <<client, timers, cache, main, byHand, mixed, events>>

\* Somebody left while it plays, or came while it is paused.
Look(t) ==
    /\ At(t, "look")
    /\ IF audio = "track" /\ (job[t].kind = "come" <=> paused)
       THEN Continues(t, IF paused THEN "create_resume_timer" ELSE "set_autopause")
       ELSE Returns(t)
    /\ UNCHANGED <<client, manually, timers, cache, jobs, main, history, events>>

\* check_autopause: what changed since the state the program remembers.
check_autopause(t) ==
    /\ At(t, "compare")
    /\ Goto(t, CASE ~paused /\ muted /\ ~cached -> "set_autopause"
                 [] paused /\ ~muted /\ cached -> "create_resume_timer"
                 [] OTHER                      -> "cache")
    /\ UNCHANGED <<client, manually, timers, cache, jobs, job, main, history, events>>

\* set_autopause: not by hand, and nobody listens; a muted bot is not heard.
set_autopause(t) ==
    /\ At(t, "set_autopause")
    /\ IF ~manually /\ (IsMute(job[t]) \/ heard = {})
       THEN Continues(t, "pause")
       ELSE Ends(t)
    /\ UNCHANGED <<client, manually, timers, cache, jobs, main, history, events>>

AutoPauses(t) ==
    /\ At(t, "pause")
    /\ paused' = TRUE
    /\ Races(manually \/ (~IsMute(job[t]) /\ (heard # {} \/ audio # "track")))
    /\ Ends(t)
    /\ UNCHANGED <<audio, manually, timers, cache, jobs, main, byHand, mixed, events>>

create_resume_timer(t) ==
    /\ At(t, "create_resume_timer")
    /\ IF manually THEN Ends(t) ELSE Continues(t, "push")
    /\ UNCHANGED <<client, manually, timers, cache, jobs, main, history, events>>

PushesTimer_OneForAll(t) ==
    /\ At(t, "push")
    /\ main = Resting
    /\ timers' = IF timers = {} THEN {job[t].user} ELSE timers
    /\ Races(manually)
    /\ Ends(t)
    /\ UNCHANGED <<client, manually, cache, jobs, main, byHand, mixed, events>>

\* One for each user, under the lock that the main loop holds while it looks at
\* the timers.
PushesTimer(t) ==
    /\ At(t, "push")
    /\ main = Resting
    /\ timers' = timers \cup {job[t].user}
    /\ Races(manually)
    /\ Ends(t)
    /\ UNCHANGED <<client, manually, cache, jobs, main, byHand, mixed, events>>

vcs_setting_handle_connected(t) ==
    /\ At(t, "cache")
    /\ cached' = (job[t].kind = "mute")
    /\ Returns(t)
    /\ UNCHANGED <<client, manually, timers, heard, muted, jobs, main, history, events>>

\* The next track, if there is one and somebody listens.
StartsTrack(t) ==
    /\ At(t, "start")
    /\ Returns(t) \/ (heard # {} /\ Continues(t, "play"))
    /\ UNCHANGED <<client, manually, timers, cache, jobs, main, history, events>>

Streams(t) ==
    /\ At(t, "play")
    /\ audio' = "track"
    /\ Races(heard = {})
    /\ Returns(t)
    /\ UNCHANGED <<paused, manually, timers, cache, jobs, main, byHand, mixed, events>>

Handle(t) ==
    \/ Begin(t) \/ Look(t) \/ check_autopause(t) \/ set_autopause(t)
    \/ AutoPauses(t) \/ create_resume_timer(t) \/ PushesTimer(t)
    \/ vcs_setting_handle_connected(t) \/ StartsTrack(t) \/ Streams(t)

----------------------------------------------------------------------------
(***************************************************************************)
(* check_resume_timers, in the main loop.                                  *)
(***************************************************************************)

Expires_Anyway(u) ==
    /\ main = Resting
    /\ u \in timers
    /\ main' = [at |-> "clear", user |-> u]
    /\ UNCHANGED <<client, manually, timers, cache, jobs, threads, history, events>>

\* The time of a timer is over: whoever it is for must still be there.
Expires(u) ==
    /\ main = Resting
    /\ u \in timers
    /\ IF u \in heard \cup {Bot}
       THEN main' = [at |-> "clear", user |-> u] /\ UNCHANGED timers
       ELSE timers' = timers \ {u} /\ UNCHANGED main
    /\ UNCHANGED <<client, manually, cache, jobs, threads, history, events>>

clear_manually_paused_Erases ==
    /\ main.at = "clear"
    /\ manually' = FALSE
    /\ timers' = timers \ {main.user}
    /\ main' = [main EXCEPT !.at = "resume"]
    /\ UNCHANGED <<client, cache, jobs, threads, history, events>>

\* unpause.
clear_manually_paused ==
    /\ main.at = "clear"
    /\ manually' = FALSE
    /\ main' = [main EXCEPT !.at = "resume"]
    /\ UNCHANGED <<client, timers, cache, jobs, threads, history, events>>

Resumes ==
    /\ main.at = "resume"
    /\ paused' = FALSE
    /\ timers' = timers \ {main.user}
    /\ main' = Resting
    /\ UNCHANGED <<audio, manually, cache, jobs, threads, history, events>>

check_resume_timers ==
    \/ \E u \in Users \cup {Bot} : Expires(u)
    \/ clear_manually_paused
    \/ Resumes

----------------------------------------------------------------------------
Proceed(t) == CommandProceeds(t) \/ Handle(t)

Next ==
    \/ \E t \in Threads : Command(t) \/ Proceed(t)
    \/ check_resume_timers
    \/ Outside

\* Threads go on, and the main loop looks at its timers.  Nobody has to come, to
\* go, or to use a command, and a track may go on for ever.
Spec ==
    /\ Init /\ [][Next]_vars
    /\ \A t \in Threads : WF_vars(Proceed(t))
    /\ WF_vars(check_resume_timers)

----------------------------------------------------------------------------
Places == {"idle", "set_manually_paused", "unpause", "stop", "look", "compare",
           "set_autopause", "pause", "create_resume_timer", "push", "cache",
           "start", "play"}
JobType == [kind : Kinds, user : Users \cup {Bot}]

\* Every variable has its type, the timer that the main loop is at stays in the
\* list until it is done with (check_resume_timers), and only the bot's own events
\* are about its being muted.
TypeOK ==
    /\ {paused, manually, muted, cached, byHand, raced, mixed} \subseteq BOOLEAN
    /\ audio \in {"track", "marker", "none"}
    /\ timers \subseteq Users \cup {Bot}
    /\ heard \subseteq Users
    /\ jobs \in Seq(JobType)
    /\ \A i \in DOMAIN jobs : IsMute(jobs[i]) => jobs[i].user = Bot
    /\ pc \in [Threads -> Places]
    /\ job \in [Threads -> JobType \cup {NoJob}]
    /\ main = Resting \/ (main.at \in {"clear", "resume"} /\ main.user \in timers)
    /\ events \in 0 .. MaxEvents

\* What was paused by hand is not resumed by those who come, by the end of a mute
\* or by the main loop; unless a timer, a command or a marker's handler that had
\* begun to end the pause came in between (manually_paused is not looked at
\* again).  Only a command ends it (is_manually_paused in
\* player_manager_events.cpp:262, player_manager_util.cpp:1391 and
\* player_manager_timer.cpp:57).
HandHolds == [][paused /\ byHand /\ ~paused' => ~byHand' \/ raced']_vars

AtRest ==
    /\ jobs = <<>>
    /\ \A t \in Threads : At(t, "idle")
    /\ timers = {}

\* At rest nothing is played to an empty channel, also when users came and went
\* while a timer was pending; unless the last one left between the main loop's
\* look at the channel and its resuming, or the bot was muted as well
\* (set_autopause, check_resume_timers).
PausedWhenAlone ==
    AtRest /\ heard = {} /\ audio = "track" /\ ~raced /\ ~mixed => paused

\* A pause that nobody asked for ends when somebody listens: whoever comes, and
\* in whichever order the events are handled, a timer is there for one of those
\* who are still there (create_resume_timer, is_rt_duplicate); unless somebody
\* came between the look at the listeners and the pause.
PauseEnds ==
    paused /\ ~byHand /\ heard # {}
    ~> ~paused \/ byHand \/ heard = {} \/ audio # "track" \/ muted \/ raced
=============================================================================
