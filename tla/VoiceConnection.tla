--------------------------- MODULE VoiceConnection ---------------------------
(***************************************************************************)
(* The voice connection of one guild: three tables of guilds that are      *)
(* connecting, disconnecting and waiting for their voice client, shared by *)
(* the commands that ask for a connection, the handlers of the gateway's   *)
(* events and the timers of ten seconds that clear what no event cleared.  *)
(*                                                                         *)
(* Requests to the gateway are one sequence.  Its answers are handled by a *)
(* pool of threads, where one may overtake another.  A voice server may    *)
(* never answer; Discord may ignore a request that comes too quick.        *)
(*                                                                         *)
(* Definitions named X_<what> are X with a plausible mistake; no           *)
(* specification uses them.                                                *)
(***************************************************************************)
EXTENDS Integers, Sequences, SequencesExt, FiniteSets

CONSTANTS
    Channels,   \* the voice channels of the guild
    Callers,    \* threads of the program
    Ops,        \* what the callers do
    Faults,     \* what may go wrong
    MaxCalls,   \* bound: number of calls
    MaxFaults   \* bound: number of kinds of faults

NoChannel == "none"
AllOps == {"join", "play", "rejoin", "follow", "leave", "marker", "shutdown"}

ASSUME ConstantsAssumption ==
    /\ NoChannel \notin Channels
    /\ Ops \subseteq AllOps
    /\ Faults \subseteq {"ignored", "moved", "early", "not found", "overtaken"}
    /\ MaxCalls \in Nat
    /\ MaxFaults \in Nat

VARIABLES
    connecting,     \* the channel in the table of that name
    disconnecting,  \* whether the guild is in the table
    waiting,        \* whether the guild is in waiting_vc_ready
    timers,         \* pending timers, by the table they clear
    voice,          \* the library's voiceconn of the guild
    toDiscord,      \* voice state updates sent
    bot,            \* the channel the bot is in
    jobs,           \* events whose handler has not run
    pc,             \* where each caller is
    target,         \* the channel its play command is to ask for after the search
    heard,          \* channels with a listener
    wanted,         \* history: the last channel asked for
    disturbed,      \* history: whether a call began while an answer or a call was on its way
    faults,         \* history: the faults that happened
    calls

tables      == <<connecting, disconnecting, waiting>>
discordVars == <<toDiscord, bot, jobs>>
callerVars  == <<pc, target>>
history     == <<wanted, disturbed, calls, faults>>
vars == <<tables, timers, voice, discordVars, callerVars, heard, history>>

Timers == {"disconnecting", "connecting", "waiting"}

\* The state of a voiceconn's voice client: none yet, not ready, ready.  marked
\* says whether a track marker was put into it, which starts the player.
NoVoice == [channel |-> NoChannel, client |-> "none", marked |-> FALSE]
Connection(ch, c, m) == [channel |-> ch, client |-> c, marked |-> m]

Init ==
    /\ connecting = NoChannel
    /\ disconnecting = FALSE
    /\ waiting = FALSE
    /\ timers = [t \in Timers |-> 0]
    /\ voice = NoVoice
    /\ toDiscord = <<>>
    /\ bot = NoChannel
    /\ jobs = <<>>
    /\ pc = [c \in Callers |-> "idle"]
    /\ target = [c \in Callers |-> NoChannel]
    /\ heard \in SUBSET Channels
    /\ wanted = NoChannel
    /\ calls = 0
    /\ disturbed = FALSE
    /\ faults = {}

\* What may go wrong: Discord ignores a request, the bot is moved or thrown out,
\* a timer fires while an answer is still on its way, a track is not found, an
\* event overtakes another.
Fault(f) ==
    /\ f \in Faults \ faults
    /\ Cardinality(faults) < MaxFaults
    /\ faults' = faults \cup {f}

At(c, where) == pc[c] = where
Goto(c, where) == pc' = [pc EXCEPT ![c] = where]
Armed(t) == timers' = [timers EXCEPT ![t] = @ + 1]

----------------------------------------------------------------------------
(***************************************************************************)
(* The tables.                                                             *)
(***************************************************************************)

\* set_disconnecting: only with a voice connection.
SetsDisconnecting == disconnecting' = (disconnecting \/ voice # NoVoice)

SetsWaiting_Untimed(v) ==
    IF v.client = "ready"
    THEN UNCHANGED <<waiting, timers>>
    ELSE waiting' = TRUE /\ UNCHANGED timers

\* set_waiting_vc_ready on a connection v, which arms the timer in the same
\* critical section.
SetsWaiting(v) ==
    IF v.client = "ready"
    THEN UNCHANGED <<waiting, timers>>
    ELSE waiting' = TRUE /\ Armed("waiting")

\* disconnect_voice: the update is queued, and the library's entry forgotten.
DisconnectsVoice ==
    /\ toDiscord' = Append(toDiscord, NoChannel)
    /\ voice' = NoVoice

\* clear_wait_vc_ready.
ClearsWaiting ==
    /\ connecting' = NoChannel
    /\ waiting' = FALSE

----------------------------------------------------------------------------
(***************************************************************************)
(* Calls.  Each is a sequence of critical sections.                        *)
(***************************************************************************)

\* Nothing is on its way.
Quiet ==
    /\ toDiscord = <<>>
    /\ jobs = <<>>
    /\ voice.client # "connecting"
    /\ \A c \in Callers : At(c, "idle") \/ At(c, "awaiting")

Calling(c, op) ==
    /\ At(c, "idle")
    /\ op \in Ops
    /\ calls < MaxCalls
    /\ calls' = calls + 1
    /\ disturbed' = (disturbed \/ ~Quiet)
    /\ UNCHANGED faults

\* set_reconnect: the tables get their entries, one after the other.
set_reconnect(ch, from) ==
    /\ IF from # NoChannel THEN SetsDisconnecting ELSE UNCHANGED disconnecting
    /\ connecting' = ch
    /\ SetsWaiting(voice)

full_reconnect(c, ch, from) ==
    /\ set_reconnect(ch, from)
    /\ wanted' = ch
    /\ Goto(c, "leave")
    /\ UNCHANGED <<voice, discordVars, heard>>

\* join_voice, for a user in channel ch, when nobody listens where the bot is.
Join(c, ch) ==
    /\ Calling(c, "join")
    /\ ch \in heard
    /\ bot \notin heard
    /\ full_reconnect(c, ch, bot)
    /\ UNCHANGED target

\* on_channel_update when the region changed, and check_health for a connection
\* that is not ready: the same channel again.
Rejoin(c) ==
    /\ voice # NoVoice
    /\ Calling(c, "rejoin")
    /\ full_reconnect(c, voice.channel, voice.channel)
    /\ UNCHANGED target

\* handle_non_sha_voice_state_update, for a listener who went to channel ch
\* while the bot was paused.
Follow(c, ch) ==
    /\ Calling(c, "follow")
    /\ voice.client # "none"
    /\ ch # voice.channel
    /\ ch \in heard
    /\ bot \in heard
    /\ full_reconnect(c, ch, voice.channel)
    /\ UNCHANGED target

\* The play command of a user in channel ch, where the bot is: nothing to set up.
PlayHere(c, ch) ==
    /\ ch \in heard
    /\ bot = ch
    /\ voice.channel = ch
    /\ Calling(c, "play")
    /\ Goto(c, "download")
    /\ UNCHANGED <<tables, timers, voice, discordVars, target, heard, wanted>>

\* The same for a bot that is alone in another channel: it is brought over, and
\* asked for again after the search.
PlayThere(c, ch) ==
    /\ ch \in heard
    /\ bot \notin {NoChannel, ch}
    /\ bot \notin heard
    /\ voice.channel \in {bot, NoChannel}
    /\ Calling(c, "play")
    /\ target' = [target EXCEPT ![c] = ch]
    /\ full_reconnect(c, ch, bot)

\* The same when the library and Discord disagree, or both have no connection:
\* what there is of one is dropped.
PlayAnew(c, ch) ==
    /\ ch \in heard
    /\ \/ bot = NoChannel
       \/ voice.channel \notin {bot, NoChannel}
       \/ bot = ch /\ voice = NoVoice
    /\ Calling(c, "play")
    /\ target' = [target EXCEPT ![c] = ch]
    /\ IF bot # NoChannel THEN SetsDisconnecting ELSE UNCHANGED disconnecting
    /\ IF voice # NoVoice THEN DisconnectsVoice ELSE UNCHANGED <<voice, toDiscord>>
    /\ Goto(c, "search")
    /\ UNCHANGED <<connecting, waiting, timers, bot, jobs, heard, wanted>>

\* run_add_track_thread, when the search is done: it asks for the channel that
\* the command decided on.
Searched(c) ==
    /\ At(c, "search")
    /\ connecting' = target[c]
    /\ SetsWaiting(voice)
    /\ wanted' = target[c]
    /\ target' = [target EXCEPT ![c] = NoChannel]
    /\ Goto(c, "download")
    /\ UNCHANGED <<disconnecting, voice, discordVars, heard, disturbed, calls, faults>>

\* The track is there, or was not found and the thread returns.
Downloaded(c) ==
    /\ At(c, "download")
    /\ \/ Goto(c, "reconnect") /\ UNCHANGED faults
       \/ Goto(c, "idle") /\ Fault("not found")
    /\ UNCHANGED <<tables, timers, voice, discordVars, target, heard, wanted, disturbed, calls>>

\* The leave command, for a user in the bot's channel.
Leave(c) ==
    /\ bot \in heard
    /\ Calling(c, "leave")
    /\ SetsDisconnecting
    /\ DisconnectsVoice
    /\ wanted' = NoChannel
    /\ UNCHANGED <<connecting, waiting, timers, bot, jobs, callerVars, heard>>

\* Shutdown leaves every voice session, and waits for each.
Shutdown(c) ==
    /\ voice # NoVoice
    /\ Calling(c, "shutdown")
    /\ SetsDisconnecting
    /\ DisconnectsVoice
    /\ wanted' = NoChannel
    /\ Goto(c, "wait_for_disconnecting")
    /\ UNCHANGED <<connecting, waiting, timers, bot, jobs, target, heard>>

\* A marker of a playing connection; its thread waits for the voice client.
Marker(c) ==
    /\ voice.client = "ready"
    /\ ~disconnecting
    /\ Calling(c, "marker")
    /\ Goto(c, "wait_for_vc_ready")
    /\ UNCHANGED <<tables, timers, voice, discordVars, target, heard, wanted>>

disconnect_voice(c) ==
    /\ At(c, "leave")
    /\ DisconnectsVoice
    /\ Goto(c, "reconnect")
    /\ UNCHANGED <<tables, timers, bot, jobs, target, heard, history>>

ReconnectWaits_Hasty(c) ==
    /\ At(c, "reconnect")
    /\ Goto(c, "connect")
    /\ UNCHANGED <<tables, timers, voice, discordVars, target, heard, history>>

ReconnectWaits_Untimed(c) ==
    /\ At(c, "reconnect")
    /\ Goto(c, IF disconnecting THEN "leaving" ELSE "connect")
    /\ UNCHANGED <<tables, timers, voice, discordVars, target, heard, history>>

\* reconnect: while the guild is disconnecting, a timer and a wait.
ReconnectWaits(c) ==
    /\ At(c, "reconnect")
    /\ IF disconnecting
       THEN Armed("disconnecting") /\ Goto(c, "leaving")
       ELSE Goto(c, "connect") /\ UNCHANGED timers
    /\ UNCHANGED <<tables, voice, discordVars, target, heard, history>>

Left(c) ==
    /\ At(c, "leaving")
    /\ ~disconnecting
    /\ Goto(c, "connect")
    /\ UNCHANGED <<tables, timers, voice, discordVars, target, heard, history>>

\* connect_voice: the library keeps a connection to the same channel.
connect_voice(ch) ==
    IF voice.channel = ch
    THEN UNCHANGED <<voice, toDiscord>>
    ELSE /\ voice' = Connection(ch, "none", FALSE)
         /\ toDiscord' = Append(toDiscord, ch)

\* A play command that reconnected goes on to search.
AfterReconnect(c) == IF target[c] = NoChannel THEN "idle" ELSE "search"

\* The rest of reconnect: the channel is the one in the table by now.
Connect(c) ==
    /\ At(c, "connect")
    /\ IF connecting # NoChannel
       THEN connect_voice(connecting) /\ Armed("connecting") /\ Goto(c, "joining")
       ELSE Goto(c, AfterReconnect(c)) /\ UNCHANGED <<voice, toDiscord, timers>>
    /\ UNCHANGED <<tables, bot, jobs, target, heard, history>>

Joined(c) ==
    /\ At(c, "joining")
    /\ connecting = NoChannel
    /\ Goto(c, AfterReconnect(c))
    /\ UNCHANGED <<tables, timers, voice, discordVars, target, heard, history>>

\* wait_for_vc_ready and wait_for_disconnecting: a look, a timer, and a wait.
wait_for_vc_ready(c) ==
    /\ At(c, "wait_for_vc_ready")
    /\ IF waiting
       THEN Armed("waiting") /\ Goto(c, "awaiting")
       ELSE Goto(c, "idle") /\ UNCHANGED timers
    /\ UNCHANGED <<tables, voice, discordVars, target, heard, history>>

wait_for_disconnecting(c) ==
    /\ At(c, "wait_for_disconnecting")
    /\ IF disconnecting
       THEN Armed("disconnecting") /\ Goto(c, "gone")
       ELSE Goto(c, "idle") /\ UNCHANGED timers
    /\ UNCHANGED <<tables, voice, discordVars, target, heard, history>>

Waited(c) ==
    /\ \/ At(c, "awaiting") /\ ~waiting
       \/ At(c, "gone") /\ ~disconnecting
    /\ Goto(c, "idle")
    /\ UNCHANGED <<tables, timers, voice, discordVars, target, heard, history>>

Proceed(c) ==
    \/ Searched(c)
    \/ Downloaded(c)
    \/ disconnect_voice(c)
    \/ ReconnectWaits(c)
    \/ Left(c)
    \/ Connect(c)
    \/ Joined(c)
    \/ wait_for_vc_ready(c)
    \/ wait_for_disconnecting(c)
    \/ Waited(c)

Call(c) ==
    \/ \E ch \in Channels : Join(c, ch) \/ Follow(c, ch) \/ PlayHere(c, ch) \/ PlayThere(c, ch) \/ PlayAnew(c, ch)
    \/ Rejoin(c)
    \/ Leave(c)
    \/ Shutdown(c)
    \/ Marker(c)

----------------------------------------------------------------------------
(***************************************************************************)
(* Discord and the library, which takes an answer in before the program's  *)
(* handler runs.                                                           *)
(***************************************************************************)

JoinedJob(ch) == [event |-> "state", channel |-> ch]
LeftJob       == JoinedJob(NoChannel)
ReadyJob      == [event |-> "ready", channel |-> NoChannel]

\* The bot is in channel ch now: the voice of the library goes on connecting,
\* or is dropped.
BotGoesTo(ch) ==
    /\ bot' = ch
    /\ voice' = IF ch = NoChannel THEN NoVoice
                ELSE IF voice.channel = ch /\ voice.client = "none"
                THEN [voice EXCEPT !.client = "connecting"]
                ELSE voice
    /\ jobs' = Append(jobs, JoinedJob(ch))

\* Discord carries out the next request, or ignores it.
Answer ==
    /\ toDiscord # <<>>
    /\ toDiscord' = Tail(toDiscord)
    /\ \/ /\ Head(toDiscord) # bot
          /\ BotGoesTo(Head(toDiscord))
          /\ UNCHANGED faults
       \/ /\ IF Head(toDiscord) = bot THEN UNCHANGED faults ELSE Fault("ignored")
          /\ UNCHANGED <<bot, voice, jobs>>
    /\ UNCHANGED <<tables, timers, callerVars, heard, wanted, disturbed, calls>>

\* The voice server accepts the connection.
Accept ==
    /\ voice.client = "connecting"
    /\ voice' = [voice EXCEPT !.client = "ready"]
    /\ jobs' = Append(jobs, ReadyJob)
    /\ UNCHANGED <<tables, timers, toDiscord, bot, callerVars, heard, history>>

\* Somebody with the right to do so moves the bot, or throws it out.
Move(ch) ==
    /\ bot \notin {NoChannel, ch}
    /\ Fault("moved")
    /\ BotGoesTo(ch)
    /\ UNCHANGED <<tables, timers, toDiscord, callerVars, heard, wanted, disturbed, calls>>

\* Listeners come and go.
Listen(ch) ==
    /\ heard' = IF ch \in heard THEN heard \ {ch} ELSE heard \cup {ch}
    /\ UNCHANGED <<tables, timers, voice, discordVars, callerVars, history>>

----------------------------------------------------------------------------
(***************************************************************************)
(* Handlers and timers.                                                    *)
(***************************************************************************)

HandleLeft_Connected ==
    /\ disconnecting' = (disconnecting /\ voice = NoVoice)
    /\ UNCHANGED <<connecting, waiting, timers, voice, toDiscord>>

\* handle_sha_voice_state_update, when the bot left.
HandleLeft ==
    /\ disconnecting' = FALSE
    /\ UNCHANGED <<connecting, waiting, timers, voice, toDiscord>>

\* The same for a bot that was moved to a channel the library does not connect
\* to: it leaves, and is to come back when there are listeners.
HandleMoved ==
    /\ SetsDisconnecting
    /\ DisconnectsVoice
    /\ IF bot \in heard
       THEN connecting' = bot /\ SetsWaiting(NoVoice)
       ELSE connecting' = NoChannel /\ UNCHANGED <<waiting, timers>>

\* The same when the bot joined: the connection asked for is there.
HandleJoined ==
    IF voice # NoVoice /\ bot # NoChannel /\ voice.channel # bot
    THEN HandleMoved
    ELSE /\ IF voice.client = "ready"
            THEN ClearsWaiting
            ELSE connecting' = NoChannel /\ waiting' = waiting
         /\ UNCHANGED <<disconnecting, timers, voice, toDiscord>>

\* handle_on_voice_ready: the marker that starts the player, unless the guild
\* is disconnecting.  (The disconnect it then asks for takes the guild's id for
\* a shard's, finds none and does nothing.)
HandleReady ==
    /\ ClearsWaiting
    /\ voice' = [voice EXCEPT !.marked = @ \/ (voice.client = "ready" /\ ~disconnecting)]
    /\ UNCHANGED <<disconnecting, timers, toDiscord>>

\* A thread takes event i up.
Handle(i) ==
    /\ jobs' = RemoveAt(jobs, i)
    /\ IF i = 1 THEN UNCHANGED faults ELSE Fault("overtaken")
    /\ IF jobs[i] = ReadyJob THEN HandleReady
       ELSE IF jobs[i] = LeftJob THEN HandleLeft
       ELSE HandleJoined
    /\ UNCHANGED <<bot, callerVars, heard, wanted, disturbed, calls>>

\* The state a timer finds when its event is not going to come any more.
Still ==
    /\ toDiscord = <<>>
    /\ jobs = <<>>
    /\ \A c \in Callers :
         \/ pc[c] \in {"idle", "search"}
         \/ At(c, "leaving") /\ disconnecting
         \/ At(c, "joining") /\ connecting # NoChannel
         \/ At(c, "awaiting") /\ waiting
         \/ At(c, "gone") /\ disconnecting

TimerClears(t) ==
    CASE t = "disconnecting" -> disconnecting' = FALSE /\ UNCHANGED <<connecting, waiting>>
      [] t = "connecting" -> connecting' = NoChannel /\ UNCHANGED <<disconnecting, waiting>>
      [] t = "waiting" -> ClearsWaiting /\ UNCHANGED disconnecting

TimerFires(t) ==
    /\ timers[t] > 0
    /\ timers' = [timers EXCEPT ![t] = @ - 1]
    /\ IF Still THEN UNCHANGED faults ELSE Fault("early")
    /\ TimerClears(t)
    /\ UNCHANGED <<voice, discordVars, callerVars, heard, wanted, disturbed, calls>>

Next ==
    \/ \E c \in Callers : Call(c) \/ Proceed(c)
    \/ Answer
    \/ Accept
    \/ \E ch \in Channels \cup {NoChannel} : Move(ch)
    \/ \E ch \in Channels : Listen(ch)
    \/ \E i \in DOMAIN jobs : Handle(i)
    \/ \E t \in Timers : TimerFires(t)

\* Threads run, timers fire and Discord answers or ignores; a voice server may
\* stay silent.
Fairness ==
    /\ \A c \in Callers : WF_vars(Proceed(c))
    /\ WF_vars(Answer)
    /\ WF_vars(jobs # <<>> /\ Handle(1))
    /\ \A t \in Timers : WF_vars(TimerFires(t))

Spec == Init /\ [][Next]_vars /\ Fairness

----------------------------------------------------------------------------
Places == {"idle", "search", "download", "leave", "reconnect", "leaving", "connect",
           "joining", "wait_for_vc_ready", "awaiting", "wait_for_disconnecting", "gone"}

ChannelOrNone == Channels \cup {NoChannel}

\* Every variable keeps its type: a timer fires once, and what is sent and handled
\* names a channel or none.
TypeOK ==
    /\ connecting \in ChannelOrNone
    /\ disconnecting \in BOOLEAN
    /\ waiting \in BOOLEAN
    /\ timers \in [Timers -> Nat]
    /\ voice \in [channel : ChannelOrNone, client : {"none", "connecting", "ready"}, marked : BOOLEAN]
    /\ toDiscord \in Seq(ChannelOrNone)
    /\ bot \in ChannelOrNone
    /\ jobs \in Seq([event : {"state", "ready"}, channel : ChannelOrNone])
    /\ pc \in [Callers -> Places]
    /\ target \in [Callers -> ChannelOrNone]
    /\ heard \subseteq Channels
    /\ wanted \in ChannelOrNone
    /\ disturbed \in BOOLEAN
    /\ calls \in 0..MaxCalls
    /\ faults \subseteq Faults

\* A guild that waits for its voice client has a timer that ends the wait,
\* whatever became of the timers of its earlier connections: set_waiting_vc_ready
\* arms one for every entry, and a timer that fires takes no newer entry's timer
\* with it.
WaitingIsTimed == waiting => timers["waiting"] > 0

Settled ==
    /\ Still
    /\ Quiet
    /\ \A t \in Timers : timers[t] = 0

\* When all has come to rest no entry is left in the tables: no marker is turned
\* away as `disconnecting', no later call connects to an old channel.  (An entry
\* of `disconnecting' stays when Discord ignores what the leave command asks for,
\* which arms no timer; one of `connecting', when run_add_track_thread gives up
\* after it set one for a client that is ready.)
TablesAreCleared ==
    Settled => /\ ~waiting
               /\ "ignored" \notin faults => ~disconnecting
               /\ "not found" \notin faults => connecting = NoChannel

\* Calls that do not overlap do what they were asked to: at rest the bot is in
\* the last channel asked for, the library has the connection to it, and the
\* track marker that starts the player was put in; or there is none of these.
AskedIsGiven ==
    Settled /\ ~disturbed /\ faults \subseteq {"overtaken"} =>
        /\ bot = wanted
        /\ voice = IF wanted = NoChannel THEN NoVoice ELSE Connection(wanted, "ready", TRUE)

\* Whoever waits for Discord goes on: every wait of reconnect, of
\* wait_for_vc_ready and of wait_for_disconnecting ends by an event or a timer.
CallReturns == \A c \in Callers : ~At(c, "idle") ~> At(c, "idle")
=============================================================================
