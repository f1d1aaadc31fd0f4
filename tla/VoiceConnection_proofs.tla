------------------------ MODULE VoiceConnection_proofs ------------------------
(***************************************************************************)
(* For any number of channels, callers, calls and faults: the tables keep  *)
(* their types, a guild in waiting_vc_ready has a timer, the tables are    *)
(* empty when all has come to rest (EndsInv), and calls that do not        *)
(* overlap do what they were asked to (InOrderInv).                        *)
(***************************************************************************)
EXTENDS VoiceConnection, SequenceTheorems, TLAPS

IInv == TypeOK /\ WaitingIsTimed

Jobs   == [event : {"state", "ready"}, channel : ChannelOrNone]
Voices == [channel : ChannelOrNone, client : {"none", "connecting", "ready"}, marked : BOOLEAN]

----------------------------------------------------------------------------
\* A request or an event behind the others.
LEMMA Appended ==
    ASSUME NEW S, NEW s \in Seq(S), NEW e \in S
    PROVE  Append(s, e) \in Seq(S)
  OBVIOUS

\* The first request, and what is left behind it.
LEMMA FirstOf ==
    ASSUME NEW S, NEW s \in Seq(S), s # <<>>
    PROVE  Head(s) \in S /\ Tail(s) \in Seq(S)
  BY HeadTailProperties

\* Any event may be taken out.
LEMMA TakenOut ==
    ASSUME NEW S, NEW s \in Seq(S), NEW i \in DOMAIN s
    PROVE  s[i] \in S /\ RemoveAt(s, i) \in Seq(S)
<1>1. i \in 1..Len(s) /\ Len(s) \in Nat
  BY LenProperties
<1>2. \A j \in 1..Len(s) : s[j] \in S
  BY ElementOfSeq
<1>3. /\ SubSeq(s, 1, i - 1) \in Seq(S)
      /\ SubSeq(s, i + 1, Len(s)) \in Seq(S)
  BY <1>1, <1>2, SubSeqProperties
<1> QED
  BY <1>1, <1>2, <1>3, ConcatProperties DEF RemoveAt

\* No channel is a value of its own type, and the records of a connection and of
\* an event have theirs.
LEMMA Records ==
    /\ NoChannel \in ChannelOrNone
    /\ NoVoice \in Voices
    /\ ReadyJob \in Jobs /\ LeftJob \in Jobs
    /\ \A ch \in ChannelOrNone : JoinedJob(ch) \in Jobs /\ Connection(ch, "none", FALSE) \in Voices
  BY DEF ChannelOrNone, NoVoice, Voices, ReadyJob, LeftJob, JoinedJob, Jobs, Connection

\* Arming a timer.
LEMMA ArmedOK ==
    ASSUME TypeOK, NEW t \in Timers, Armed(t)
    PROVE  /\ timers' \in [Timers -> Nat]
           /\ timers'[t] > 0
           /\ \A u \in Timers : timers'[u] >= timers[u]
  BY DEF TypeOK, Armed

----------------------------------------------------------------------------
\* The tables.

\* set_waiting_vc_ready keeps the types, and arms the timer of a new entry.
LEMMA SetsWaitingOK ==
    ASSUME IInv, NEW v, SetsWaiting(v)
    PROVE  waiting' \in BOOLEAN /\ timers' \in [Timers -> Nat] /\ WaitingIsTimed'
<1>1. CASE v.client = "ready"
  <2>1. waiting' = waiting /\ timers' = timers
    BY <1>1 DEF SetsWaiting
  <2> QED
    BY <2>1 DEF IInv, TypeOK, WaitingIsTimed
<1>2. CASE v.client # "ready"
  <2>1. waiting' = TRUE /\ timers' \in [Timers -> Nat] /\ timers'["waiting"] > 0
    BY <1>2, ArmedOK DEF SetsWaiting, IInv, Timers
  <2> QED
    BY <2>1 DEF WaitingIsTimed
<1> QED
  BY <1>1, <1>2

\* A step that arms timers or leaves them alone, and makes no entry.
LEMMA StillTimed ==
    ASSUME IInv, waiting' => waiting,
           \/ UNCHANGED timers
           \/ \E t \in Timers : Armed(t)
    PROVE  timers' \in [Timers -> Nat] /\ WaitingIsTimed'
<1>1. timers' \in [Timers -> Nat] /\ \A u \in Timers : timers'[u] >= timers[u]
  BY ArmedOK DEF IInv, TypeOK
<1>2. timers["waiting"] > 0 => timers'["waiting"] > 0
  BY <1>1 DEF IInv, TypeOK, Timers
<1>3. waiting => timers["waiting"] > 0
  BY DEF IInv, WaitingIsTimed
<1> QED
  BY <1>1, <1>2, <1>3, Zenon DEF WaitingIsTimed

\* set_disconnecting and disconnect_voice.
LEMMA SetsDisconnectingOK ==
    ASSUME TypeOK, SetsDisconnecting
    PROVE  disconnecting' \in BOOLEAN
  BY DEF TypeOK, SetsDisconnecting

\* disconnect_voice asks Discord for no channel.
LEMMA DisconnectsVoiceOK ==
    ASSUME TypeOK, DisconnectsVoice
    PROVE  toDiscord' \in Seq(ChannelOrNone) /\ voice' \in Voices
<1>1. toDiscord \in Seq(ChannelOrNone)
  BY DEF TypeOK
<1> QED
  BY <1>1, Records, Appended DEF DisconnectsVoice

\* full_reconnect, up to its first critical section.
LEMMA FullReconnectOK ==
    ASSUME IInv, NEW c \in Callers, NEW ch \in ChannelOrNone, NEW from, full_reconnect(c, ch, from)
    PROVE  /\ connecting' \in ChannelOrNone /\ disconnecting' \in BOOLEAN /\ waiting' \in BOOLEAN
           /\ timers' \in [Timers -> Nat] /\ wanted' \in ChannelOrNone /\ pc' \in [Callers -> Places]
           /\ WaitingIsTimed'
           /\ UNCHANGED <<voice, discordVars, heard>>
<1>1. SetsWaiting(voice)
  BY DEF full_reconnect, set_reconnect
<1>2. disconnecting' \in BOOLEAN
  BY SetsDisconnectingOK DEF full_reconnect, set_reconnect, IInv, TypeOK
<1>3. pc' \in [Callers -> Places]
  BY DEF full_reconnect, Goto, Places, IInv, TypeOK
<1> QED
  BY <1>1, <1>2, <1>3, SetsWaitingOK DEF full_reconnect, set_reconnect

\* A fault is one of the faults.
LEMMA FaultOK ==
    ASSUME TypeOK, NEW f, UNCHANGED faults \/ Fault(f)
    PROVE  faults' \subseteq Faults
  BY DEF TypeOK, Fault

----------------------------------------------------------------------------
\* Init: the tables are empty.
LEMMA InitOK == Init => IInv
<1> SUFFICES ASSUME Init PROVE IInv
  OBVIOUS
<1>1. voice \in Voices /\ NoChannel \in ChannelOrNone
  BY Records DEF Init
<1>2. timers \in [Timers -> Nat] /\ pc \in [Callers -> Places]
  BY DEF Init, Places
<1>3. calls \in 0..MaxCalls
  <2>1. MaxCalls \in Nat
    BY ConstantsAssumption
  <2>2. calls = 0
    BY DEF Init
  <2> QED
    BY <2>1, <2>2
<1>4. /\ toDiscord = <<>> /\ jobs = <<>> /\ heard \subseteq Channels /\ faults = {}
      /\ target \in [Callers -> ChannelOrNone] /\ disturbed = FALSE
      /\ connecting = NoChannel /\ bot = NoChannel /\ wanted = NoChannel
      /\ disconnecting = FALSE /\ waiting = FALSE
  BY <1>1 DEF Init
<1>5. toDiscord \in Seq(ChannelOrNone) /\ jobs \in Seq(Jobs) /\ faults \subseteq Faults
  BY <1>4
<1>6. TypeOK
  BY <1>1, <1>2, <1>3, <1>4, <1>5, Zenon DEF TypeOK, Voices, Jobs
<1>7. WaitingIsTimed
  BY <1>4 DEF WaitingIsTimed
<1> QED
  BY <1>6, <1>7 DEF IInv

\* A call is one more, and keeps the list of faults.
LEMMA CallingOK ==
    ASSUME TypeOK, NEW c, NEW o, Calling(c, o)
    PROVE  calls' \in 0..MaxCalls /\ disturbed' \in BOOLEAN /\ faults' \subseteq Faults
<1>1. calls' \in 0..MaxCalls
  <2>1. calls < MaxCalls /\ calls' = calls + 1
    BY DEF Calling
  <2>2. calls \in 0..MaxCalls /\ MaxCalls \in Nat
    BY ConstantsAssumption DEF TypeOK
  <2> QED
    BY <2>1, <2>2
<1>2. disturbed' \in BOOLEAN
  BY Zenon DEF Calling, TypeOK
<1> QED
  BY <1>1, <1>2 DEF Calling, TypeOK

\* A call that asks for another connection, for a user of the play command also
\* a second time.
LEMMA ReconnectOK ==
    ASSUME IInv, NEW c \in Callers, NEW ch \in ChannelOrNone, NEW from, NEW o,
           full_reconnect(c, ch, from), Calling(c, o),
           target' \in [Callers -> ChannelOrNone]
    PROVE  IInv'
<1>1. calls' \in 0..MaxCalls /\ disturbed' \in BOOLEAN /\ faults' \subseteq Faults
  BY CallingOK DEF IInv
<1>2. UNCHANGED <<voice, discordVars, heard>>
  BY FullReconnectOK
<1>3. TypeOK'
  BY <1>1, <1>2, FullReconnectOK DEF IInv, TypeOK, discordVars
<1> QED
  BY <1>3, FullReconnectOK DEF IInv

\* The other calls make no entry in waiting_vc_ready.
LEMMA OtherCallOK ==
    ASSUME IInv, NEW c \in Callers,
           \/ \E ch \in Channels : PlayHere(c, ch) \/ PlayAnew(c, ch)
           \/ Leave(c) \/ Shutdown(c) \/ Marker(c)
    PROVE  IInv'
<1>1. UNCHANGED <<connecting, waiting, timers, bot, jobs, heard>>
  BY DEF PlayHere, PlayAnew, Leave, Shutdown, Marker, tables, discordVars
<1>2. calls' \in 0..MaxCalls /\ disturbed' \in BOOLEAN /\ faults' \subseteq Faults
  BY CallingOK DEF IInv, PlayHere, PlayAnew, Leave, Shutdown, Marker
<1>3. disconnecting' \in BOOLEAN
  BY SetsDisconnectingOK DEF IInv, TypeOK, PlayHere, PlayAnew, Leave, Shutdown, Marker, tables
<1>4. toDiscord' \in Seq(ChannelOrNone) /\ voice' \in Voices
  <2>1. DisconnectsVoice \/ UNCHANGED <<voice, toDiscord>>
    BY DEF PlayHere, PlayAnew, Leave, Shutdown, Marker, discordVars
  <2>2. UNCHANGED <<voice, toDiscord>> => toDiscord' \in Seq(ChannelOrNone) /\ voice' \in Voices
    BY DEF IInv, TypeOK, Voices
  <2> QED
    BY <2>1, <2>2, DisconnectsVoiceOK DEF IInv
<1>5. pc' \in [Callers -> Places]
  BY DEF IInv, TypeOK, PlayHere, PlayAnew, Leave, Shutdown, Marker, Goto, Places, callerVars
<1>6. target' \in [Callers -> ChannelOrNone] /\ wanted' \in ChannelOrNone
  <2>1. /\ target \in [Callers -> ChannelOrNone] /\ wanted \in ChannelOrNone
        /\ NoChannel \in ChannelOrNone /\ Channels \subseteq ChannelOrNone
    BY DEF IInv, TypeOK, ChannelOrNone
  <2>2. target' = target \/ \E ch \in Channels : target' = [target EXCEPT ![c] = ch]
    BY DEF PlayHere, PlayAnew, Leave, Shutdown, Marker, callerVars
  <2>3. wanted' \in {wanted, NoChannel}
    BY DEF PlayHere, PlayAnew, Leave, Shutdown, Marker
  <2> QED
    BY <2>1, <2>2, <2>3
<1>7. TypeOK'
  BY <1>1, <1>2, <1>3, <1>4, <1>5, <1>6 DEF IInv, TypeOK, Voices
<1>8. WaitingIsTimed'
  BY <1>1 DEF IInv, WaitingIsTimed
<1> QED
  BY <1>7, <1>8 DEF IInv

\* Any call.
LEMMA CallOK ==
    ASSUME IInv, NEW c \in Callers, Call(c)
    PROVE  IInv'
<1>1. ASSUME NEW ch \in Channels, Join(c, ch) \/ Follow(c, ch)
      PROVE  IInv'
  BY <1>1, ReconnectOK DEF Join, Follow, IInv, TypeOK, ChannelOrNone
<1>2. ASSUME NEW ch \in Channels, PlayThere(c, ch)
      PROVE  IInv'
  <2>1. target' \in [Callers -> ChannelOrNone] /\ ch \in ChannelOrNone
    BY <1>2 DEF PlayThere, IInv, TypeOK, ChannelOrNone
  <2> QED
    BY <1>2, <2>1, ReconnectOK DEF PlayThere
<1>3. CASE Rejoin(c)
  <2>1. voice.channel \in ChannelOrNone /\ target' \in [Callers -> ChannelOrNone]
    BY <1>3 DEF Rejoin, IInv, TypeOK
  <2> QED
    BY <1>3, <2>1, ReconnectOK DEF Rejoin
<1> QED
  BY <1>1, <1>2, <1>3, OtherCallOK DEF Call

\* connect_voice asks for the channel it is given.
LEMMA ConnectVoiceOK ==
    ASSUME TypeOK, NEW ch \in ChannelOrNone, connect_voice(ch)
    PROVE  toDiscord' \in Seq(ChannelOrNone) /\ voice' \in Voices
<1>1. toDiscord \in Seq(ChannelOrNone) /\ voice \in Voices
  BY DEF TypeOK, Voices
<1> QED
  BY <1>1, Records, Appended DEF connect_voice

\* run_add_track_thread asks for the channel the command decided on.
LEMMA SearchedOK ==
    ASSUME IInv, NEW c \in Callers, Searched(c)
    PROVE  IInv'
<1>1. waiting' \in BOOLEAN /\ timers' \in [Timers -> Nat] /\ WaitingIsTimed'
  BY SetsWaitingOK DEF Searched
<1>2. target[c] \in ChannelOrNone /\ target' \in [Callers -> ChannelOrNone]
  BY Records DEF Searched, IInv, TypeOK
<1>3. pc' \in [Callers -> Places]
  BY DEF Searched, Goto, Places, IInv, TypeOK
<1>4. TypeOK'
  BY <1>1, <1>2, <1>3 DEF Searched, IInv, TypeOK, discordVars
<1> QED
  BY <1>1, <1>4 DEF IInv

\* The other steps of a caller leave the tables alone, and arm timers.
LEMMA ProceedOK ==
    ASSUME IInv, NEW c \in Callers, Proceed(c)
    PROVE  IInv'
<1>1. CASE ~Searched(c)
  <2> DEFINE Step == \/ Downloaded(c) \/ disconnect_voice(c) \/ ReconnectWaits(c) \/ Left(c)
                     \/ Connect(c) \/ Joined(c) \/ wait_for_vc_ready(c) \/ wait_for_disconnecting(c)
                     \/ Waited(c)
  <2>1. Step
    BY <1>1 DEF Proceed
  <2>2. UNCHANGED <<connecting, disconnecting, waiting, bot, jobs, target, heard, wanted, disturbed, calls>>
    BY <2>1 DEF Downloaded, disconnect_voice, ReconnectWaits, Left, Connect, Joined,
                wait_for_vc_ready, wait_for_disconnecting, Waited, tables, discordVars, history
  <2>3. UNCHANGED timers \/ \E t \in Timers : Armed(t)
    BY <2>1 DEF Downloaded, disconnect_voice, ReconnectWaits, Left, Connect, Joined,
                wait_for_vc_ready, wait_for_disconnecting, Waited, Timers
  <2>4. timers' \in [Timers -> Nat] /\ WaitingIsTimed'
    BY <2>2, <2>3, StillTimed
  <2>5. faults' \subseteq Faults
    BY <2>1, FaultOK
       DEF Downloaded, disconnect_voice, ReconnectWaits, Left, Connect, Joined,
           wait_for_vc_ready, wait_for_disconnecting, Waited, history, IInv
  <2>6. toDiscord' \in Seq(ChannelOrNone) /\ voice' \in Voices
    <3>1. UNCHANGED <<voice, toDiscord>> \/ DisconnectsVoice \/ connect_voice(connecting)
      BY <2>1 DEF Downloaded, disconnect_voice, ReconnectWaits, Left, Connect, Joined,
                  wait_for_vc_ready, wait_for_disconnecting, Waited, discordVars
    <3>2. UNCHANGED <<voice, toDiscord>> => toDiscord' \in Seq(ChannelOrNone) /\ voice' \in Voices
      BY DEF IInv, TypeOK, Voices
    <3>3. connecting \in ChannelOrNone
      BY DEF IInv, TypeOK
    <3> QED
      BY <3>1, <3>2, <3>3, DisconnectsVoiceOK, ConnectVoiceOK DEF IInv
  <2>7. pc' \in [Callers -> Places]
    <3>1. \E where \in Places : Goto(c, where)
      BY <2>1 DEF Downloaded, disconnect_voice, ReconnectWaits, Left, Connect, Joined,
                  wait_for_vc_ready, wait_for_disconnecting, Waited, AfterReconnect, Places
    <3> QED
      BY <3>1 DEF Goto, IInv, TypeOK
  <2>8. TypeOK'
    BY <2>2, <2>4, <2>5, <2>6, <2>7 DEF IInv, TypeOK, Voices
  <2> QED
    BY <2>4, <2>8 DEF IInv
<1> QED
  BY <1>1, SearchedOK

----------------------------------------------------------------------------
\* Discord, the voice server and the listeners change no table.

\* The bot's channel and the connection that follows it.
LEMMA BotGoesToOK ==
    ASSUME TypeOK, NEW ch \in ChannelOrNone, BotGoesTo(ch)
    PROVE  bot' \in ChannelOrNone /\ voice' \in Voices /\ jobs' \in Seq(Jobs)
<1>1. jobs \in Seq(Jobs) /\ voice \in Voices
  BY DEF TypeOK, Jobs, Voices
<1>2. jobs' \in Seq(Jobs)
  BY <1>1, Records, Appended DEF BotGoesTo
<1>3. voice' \in Voices
  <2>1. [voice EXCEPT !.client = "connecting"] \in Voices
    BY <1>1 DEF Voices
  <2> QED
    BY <1>1, <2>1, Records DEF BotGoesTo
<1> QED
  BY <1>2, <1>3 DEF BotGoesTo

\* Discord and the users.
LEMMA OutsideOK ==
    ASSUME IInv,
           \/ Answer
           \/ Accept
           \/ \E ch \in ChannelOrNone : Move(ch)
           \/ \E ch \in Channels : Listen(ch)
    PROVE  IInv'
<1>1. UNCHANGED <<tables, timers, callerVars, wanted, disturbed, calls>>
  BY DEF Answer, Accept, Move, Listen, history
<1>2. faults' \subseteq Faults
  BY FaultOK DEF IInv, Answer, Accept, Move, Listen, history
<1>3. heard' \subseteq Channels
  BY DEF IInv, TypeOK, Answer, Accept, Move, Listen
<1>4. toDiscord' \in Seq(ChannelOrNone)
  <2>1. CASE Answer
    BY <2>1, FirstOf DEF Answer, IInv, TypeOK
  <2>2. CASE ~Answer
    BY <2>2 DEF Accept, Move, Listen, IInv, TypeOK, discordVars
  <2> QED
    BY <2>1, <2>2
<1>5. bot' \in ChannelOrNone /\ voice' \in Voices /\ jobs' \in Seq(Jobs)
  <2>1. bot \in ChannelOrNone /\ voice \in Voices /\ jobs \in Seq(Jobs)
    BY DEF IInv, TypeOK, Voices, Jobs
  <2>2. CASE Answer
    <3>1. Head(toDiscord) \in ChannelOrNone
      BY <2>2, FirstOf DEF Answer, IInv, TypeOK
    <3>2. BotGoesTo(Head(toDiscord)) \/ UNCHANGED <<bot, voice, jobs>>
      BY <2>2 DEF Answer
    <3> QED
      BY <2>1, <3>1, <3>2, BotGoesToOK DEF IInv
  <2>3. CASE Accept
    <3>1. [voice EXCEPT !.client = "ready"] \in Voices
      BY <2>1 DEF Voices
    <3> QED
      BY <2>1, <2>3, <3>1, Records, Appended DEF Accept
  <2>4. CASE \E ch \in ChannelOrNone : Move(ch)
    BY <2>4, BotGoesToOK DEF Move, IInv
  <2>5. CASE \E ch \in Channels : Listen(ch)
    BY <2>1, <2>5 DEF Listen, discordVars
  <2> QED
    BY <2>2, <2>3, <2>4, <2>5
<1>6. TypeOK'
  BY <1>1, <1>2, <1>3, <1>4, <1>5 DEF IInv, TypeOK, tables, callerVars, Voices, Jobs
<1>7. WaitingIsTimed'
  BY <1>1 DEF IInv, WaitingIsTimed, tables
<1> QED
  BY <1>6, <1>7 DEF IInv

----------------------------------------------------------------------------
\* Handlers and timers.

\* A bot that was moved to listeners gets an entry, with its timer.
LEMMA HandleMovedOK ==
    ASSUME IInv, HandleMoved
    PROVE  /\ connecting' \in ChannelOrNone /\ disconnecting' \in BOOLEAN /\ waiting' \in BOOLEAN
           /\ timers' \in [Timers -> Nat] /\ voice' \in Voices /\ toDiscord' \in Seq(ChannelOrNone)
           /\ WaitingIsTimed'
<1>1. connecting' \in ChannelOrNone
  BY Records DEF HandleMoved, IInv, TypeOK
<1>2. waiting' \in BOOLEAN /\ timers' \in [Timers -> Nat] /\ WaitingIsTimed'
  <2>1. CASE bot \in heard
    BY <2>1, SetsWaitingOK DEF HandleMoved
  <2>2. CASE bot \notin heard
    BY <2>2 DEF HandleMoved, IInv, TypeOK, WaitingIsTimed
  <2> QED
    BY <2>1, <2>2
<1> QED
  BY <1>1, <1>2, SetsDisconnectingOK, DisconnectsVoiceOK DEF HandleMoved, IInv

\* The other handlers make no entry.
LEMMA OtherHandlersOK ==
    ASSUME IInv, HandleLeft \/ HandleReady \/ (HandleJoined /\ ~HandleMoved)
    PROVE  /\ connecting' \in ChannelOrNone /\ disconnecting' \in BOOLEAN /\ waiting' \in BOOLEAN
           /\ timers' \in [Timers -> Nat] /\ voice' \in Voices /\ toDiscord' \in Seq(ChannelOrNone)
           /\ WaitingIsTimed'
<1>1. UNCHANGED <<timers, toDiscord>>
  BY DEF HandleLeft, HandleReady, HandleJoined
<1>2. connecting' \in {connecting, NoChannel} /\ disconnecting' \in {disconnecting, FALSE}
  BY DEF HandleLeft, HandleReady, HandleJoined, ClearsWaiting
<1>3. waiting' = waiting \/ waiting' = FALSE
  BY DEF HandleLeft, HandleReady, HandleJoined, ClearsWaiting
<1>4. voice' \in Voices
  <2>1. voice \in Voices /\ \A b \in BOOLEAN : [voice EXCEPT !.marked = b] \in Voices
    BY DEF IInv, TypeOK, Voices
  <2>2. voice' = voice \/ \E b \in BOOLEAN : voice' = [voice EXCEPT !.marked = b]
    BY DEF HandleLeft, HandleReady, HandleJoined, IInv, TypeOK
  <2> QED
    BY <2>1, <2>2
<1>5. WaitingIsTimed'
  BY <1>1, <1>3 DEF IInv, WaitingIsTimed
<1>6. connecting' \in ChannelOrNone /\ disconnecting' \in BOOLEAN /\ waiting' \in BOOLEAN
  BY <1>2, <1>3, Records DEF IInv, TypeOK
<1> QED
  BY <1>1, <1>4, <1>5, <1>6 DEF IInv, TypeOK

\* A thread takes an event up.
LEMMA HandleOK ==
    ASSUME IInv, NEW i \in DOMAIN jobs, Handle(i)
    PROVE  IInv'
<1>1. jobs' \in Seq(Jobs)
  <2>1. jobs \in Seq(Jobs)
    BY DEF IInv, TypeOK, Jobs
  <2> QED
    BY <2>1, TakenOut DEF Handle
<1>2. faults' \subseteq Faults
  BY FaultOK DEF Handle, IInv
<1>3. HandleReady \/ HandleLeft \/ HandleJoined
  BY DEF Handle
<1>4. /\ connecting' \in ChannelOrNone /\ disconnecting' \in BOOLEAN /\ waiting' \in BOOLEAN
      /\ timers' \in [Timers -> Nat] /\ voice' \in Voices /\ toDiscord' \in Seq(ChannelOrNone)
      /\ WaitingIsTimed'
  BY <1>3, HandleMovedOK, OtherHandlersOK, Zenon
<1>5. TypeOK'
  BY <1>1, <1>2, <1>4 DEF Handle, IInv, TypeOK, callerVars, Jobs, Voices
<1> QED
  BY <1>4, <1>5 DEF IInv

\* The timer of waiting_vc_ready clears the entry it was armed for, or a later
\* one, whose timer goes on for nothing.
LEMMA TimerFiresOK ==
    ASSUME IInv, NEW t \in Timers, TimerFires(t)
    PROVE  IInv'
<1>1. timers' = [timers EXCEPT ![t] = timers[t] - 1] /\ timers[t] > 0 /\ timers \in [Timers -> Nat]
  BY DEF TimerFires, IInv, TypeOK
<1>2. timers' \in [Timers -> Nat]
  BY <1>1
<1>3. t \in {"disconnecting", "connecting", "waiting"} /\ TimerClears(t)
  BY DEF TimerFires, Timers
<1>4. connecting' \in ChannelOrNone /\ disconnecting' \in BOOLEAN /\ waiting' \in BOOLEAN
  BY <1>3, Records DEF TimerClears, ClearsWaiting, IInv, TypeOK
<1>5. faults' \subseteq Faults
  BY FaultOK DEF TimerFires, IInv
<1>6. TypeOK'
  BY <1>2, <1>4, <1>5 DEF TimerFires, IInv, TypeOK, discordVars, callerVars
<1>7. WaitingIsTimed'
  <2>1. CASE t = "waiting"
    <3>1. waiting' = FALSE
      BY <2>1, <1>3 DEF TimerClears, ClearsWaiting
    <3> QED
      BY <3>1 DEF WaitingIsTimed
  <2>2. CASE t # "waiting"
    <3>1. waiting' = waiting
      BY <2>2, <1>3 DEF TimerClears
    <3>2. timers'["waiting"] = timers["waiting"]
      BY <1>1, <2>2 DEF Timers
    <3> QED
      BY <3>1, <3>2 DEF IInv, WaitingIsTimed
  <2> QED
    BY <2>1, <2>2
<1> QED
  BY <1>6, <1>7 DEF IInv

----------------------------------------------------------------------------
\* Every step keeps the invariant.
LEMMA StepOK == IInv /\ [Next]_vars => IInv'
<1> SUFFICES ASSUME IInv, [Next]_vars PROVE IInv'
  OBVIOUS
<1>1. ASSUME NEW c \in Callers, Call(c) \/ Proceed(c)
      PROVE  IInv'
  BY <1>1, CallOK, ProceedOK
<1>2. CASE Answer \/ Accept \/ (\E ch \in Channels \cup {NoChannel} : Move(ch)) \/ (\E ch \in Channels : Listen(ch))
  BY <1>2, OutsideOK DEF ChannelOrNone
<1>3. ASSUME NEW i \in DOMAIN jobs, Handle(i)
      PROVE  IInv'
  BY <1>3, HandleOK
<1>4. ASSUME NEW t \in Timers, TimerFires(t)
      PROVE  IInv'
  BY <1>4, TimerFiresOK
<1>5. CASE UNCHANGED vars
  BY <1>5 DEF vars, tables, discordVars, callerVars, history, IInv, TypeOK, WaitingIsTimed
<1> QED
  BY <1>1, <1>2, <1>3, <1>4, <1>5 DEF Next

\* The invariant holds of every behaviour.
LEMMA IInvHolds == Spec => []IInv
  BY InitOK, StepOK, PTL DEF Spec

\* The tables, the timers and the requests and events on their way keep their
\* types: a timer fires once, and every request names a channel or none.
THEOREM TypeCorrect == Spec => []TypeOK
<1>1. IInv => TypeOK
  BY DEF IInv
<1> QED
  BY <1>1, IInvHolds, PTL

\* An entry of waiting_vc_ready (player_manager_util.cpp:911) has a pending timer,
\* for any number of overlapping calls: no marker waits for a voice client for ever.
THEOREM WaitingCorrect == Spec => []WaitingIsTimed
<1>1. IInv => WaitingIsTimed
  BY DEF IInv
<1> QED
  BY <1>1, IInvHolds, PTL

----------------------------------------------------------------------------
(***************************************************************************)
(* What empties the tables: an entry of `disconnecting' ends by its timer, *)
(* by an event that is on its way, or by the timer that a caller is about  *)
(* to arm; one of `connecting' by a timer, or by that of a caller that is  *)
(* on its way to connect.                                                  *)
(***************************************************************************)
\* Where the bot is when request i comes up, and after the last one.
Before(i) == IF i = 1 THEN bot ELSE toDiscord[i - 1]
LastSent  == IF toDiscord = <<>> THEN bot ELSE toDiscord[Len(toDiscord)]

\* The bot is to leave, or left.
ToLeave == \E i \in 1..Len(toDiscord) : toDiscord[i] = NoChannel /\ Before(i) # NoChannel
HasLeft == \E i \in 1..Len(jobs) : jobs[i] = LeftJob

\* The library has a connection only where the last request leads to one.
VoiceIsSent == voice # NoVoice /\ "ignored" \notin faults => LastSent # NoChannel

\* Something takes the guild out of `disconnecting'.
DisconnectingEnds ==
    disconnecting /\ "ignored" \notin faults =>
        \/ timers["disconnecting"] > 0
        \/ ToLeave
        \/ HasLeft
        \/ \E c \in Callers : pc[c] \in {"leave", "reconnect", "wait_for_disconnecting"}

\* Something takes the guild out of `connecting'.
ConnectingEnds ==
    connecting # NoChannel /\ "not found" \notin faults =>
        \/ timers["connecting"] > 0
        \/ timers["waiting"] > 0
        \/ \E c \in Callers : pc[c] \in {"leave", "reconnect", "leaving", "connect", "download"}

\* The inductive invariant of TablesAreCleared.
EndsInv == IInv /\ VoiceIsSent /\ DisconnectingEnds /\ ConnectingEnds
\* A request behind the others is the last one, and none before it changes.
LEMMA AskedLast ==
    ASSUME TypeOK, NEW x \in ChannelOrNone, toDiscord' = Append(toDiscord, x), bot' = bot
    PROVE  /\ LastSent' = x
           /\ ToLeave => ToLeave'
           /\ x = NoChannel /\ LastSent # NoChannel => ToLeave'
<1> DEFINE s == toDiscord'
<1>0. PICK n \in Nat : n = Len(toDiscord)
  BY LenProperties DEF TypeOK
<1>1. toDiscord \in Seq(ChannelOrNone) /\ n \in Nat /\ Len(toDiscord) = n
  BY <1>0 DEF TypeOK
<1>2. /\ s \in Seq(ChannelOrNone) /\ Len(s) = n + 1 /\ s[n + 1] = x
      /\ \A i \in 1..n : s[i] = toDiscord[i]
  BY <1>1, AppendProperties
<1>3. s # <<>> /\ (toDiscord = <<>> <=> n = 0)
  BY <1>1, <1>2, EmptySeq
<1>4. LastSent' = s[Len(s)]
  BY <1>3 DEF LastSent
<1>5. \A i \in 1..n : Before(i)' = Before(i)
  BY <1>1, <1>2 DEF Before
<1>6. ToLeave' <=> \E i \in 1..Len(s) : s[i] = NoChannel /\ Before(i)' # NoChannel
  BY DEF ToLeave, Before
<1>7. Before(n + 1)' = LastSent
  <2>1. CASE n = 0
    BY <1>1, <2>1, <1>3 DEF Before, LastSent
  <2>2. CASE n # 0
    <3>1. n \in 1..n /\ n + 1 # 1 /\ (n + 1) - 1 = n
      BY <1>1, <2>2
    <3>2. s[(n + 1) - 1] = toDiscord[n]
      BY <1>2, <3>1
    <3> QED
      BY <1>1, <1>3, <2>2, <3>1, <3>2 DEF Before, LastSent
  <2> QED
    BY <2>1, <2>2
<1>8. n + 1 \in 1..Len(s) /\ \A i \in 1..n : i \in 1..Len(s)
  BY <1>1, <1>2
<1>9. ToLeave => ToLeave'
  BY <1>1, <1>2, <1>5, <1>6, <1>8 DEF ToLeave
<1>10. x = NoChannel /\ LastSent # NoChannel => ToLeave'
  BY <1>2, <1>6, <1>7, <1>8
<1> HIDE DEF s
<1> QED
  BY <1>1, <1>2, <1>4, <1>9, <1>10

\* The first request taken, and the bot where it leads to: the last is the same,
\* and the bot is to leave still, or just did.
LEMMA AnsweredFirst ==
    ASSUME TypeOK, toDiscord # <<>>, toDiscord' = Tail(toDiscord), bot' = Head(toDiscord)
    PROVE  /\ LastSent' = LastSent
           /\ ToLeave => ToLeave' \/ (bot # NoChannel /\ bot' = NoChannel)
<1> DEFINE s == toDiscord'
<1>0. PICK n \in Nat : n = Len(toDiscord)
  BY LenProperties DEF TypeOK
<1>1. toDiscord \in Seq(ChannelOrNone) /\ n \in Nat /\ n # 0 /\ Len(toDiscord) = n
  BY <1>0, EmptySeq DEF TypeOK
<1>2. /\ s \in Seq(ChannelOrNone) /\ Len(s) = n - 1
      /\ \A i \in 1..(n - 1) : s[i] = toDiscord[i + 1]
      /\ bot' = toDiscord[1]
  BY <1>1, HeadTailProperties
<1>3. s = <<>> <=> n = 1
  BY <1>1, <1>2, EmptySeq
<1>4. LastSent' = LastSent
  <2>1. LastSent = toDiscord[n]
    BY <1>1 DEF LastSent
  <2>2. CASE n = 1
    BY <1>2, <1>3, <2>1, <2>2 DEF LastSent
  <2>3. CASE n # 1
    <3>1. n - 1 \in 1..(n - 1) /\ (n - 1) + 1 = n
      BY <1>1, <2>3
    <3>2. s[Len(s)] = toDiscord[n]
      BY <1>2, <3>1
    <3> QED
      BY <1>3, <2>1, <2>3, <3>2 DEF LastSent
  <2> QED
    BY <2>2, <2>3
<1>5. ASSUME ToLeave
      PROVE  ToLeave' \/ (bot # NoChannel /\ bot' = NoChannel)
  <2>1. PICK i \in 1..n : toDiscord[i] = NoChannel /\ Before(i) # NoChannel
    BY <1>1, <1>5 DEF ToLeave
  <2>2. CASE i = 1
    BY <1>2, <2>1, <2>2 DEF Before
  <2>3. CASE i # 1
    <3> DEFINE j == i - 1
    <3>1. j \in 1..(n - 1) /\ j + 1 = i /\ j \in 1..Len(s)
      BY <1>1, <1>2, <2>1, <2>3
    <3>2. s[j] = NoChannel
      BY <1>2, <2>1, <3>1
    <3>3. Before(i) = toDiscord[j]
      BY <2>3 DEF Before
    <3>4. Before(j)' = toDiscord[j]
      <4>1. CASE j = 1
        BY <1>2, <4>1 DEF Before
      <4>2. CASE j # 1
        <5>1. j - 1 \in 1..(n - 1) /\ (j - 1) + 1 = j
          BY <3>1, <4>2
        <5>2. s[j - 1] = toDiscord[j]
          BY <1>2, <5>1
        <5> QED
          BY <4>2, <5>2 DEF Before
      <4> QED
        BY <4>1, <4>2
    <3>5. ToLeave' <=> \E k \in 1..Len(s) : s[k] = NoChannel /\ Before(k)' # NoChannel
      BY DEF ToLeave, Before
    <3> QED
      BY <2>1, <3>1, <3>2, <3>3, <3>4, <3>5
  <2> QED
    BY <2>2, <2>3
<1> QED
  BY <1>4, <1>5

\* An event behind the others hides none.
LEMMA EventBehind ==
    ASSUME TypeOK, NEW e \in Jobs, jobs' = Append(jobs, e)
    PROVE  (HasLeft => HasLeft') /\ (e = LeftJob => HasLeft')
<1> DEFINE n == Len(jobs)
<1>1. jobs \in Seq(Jobs) /\ n \in Nat
  BY LenProperties DEF TypeOK, Jobs
<1>2. /\ Len(jobs') = n + 1 /\ jobs'[n + 1] = e
      /\ \A i \in 1..n : jobs'[i] = jobs[i]
  BY <1>1, AppendProperties
<1>3. n + 1 \in 1..(n + 1) /\ \A i \in 1..n : i \in 1..(n + 1)
  BY <1>1
<1> QED
  BY <1>2, <1>3 DEF HasLeft

\* An event that is taken up leaves the others behind.
LEMMA EventTaken ==
    ASSUME TypeOK, NEW i \in DOMAIN jobs, jobs' = RemoveAt(jobs, i), jobs[i] # LeftJob, HasLeft
    PROVE  HasLeft'
<1> DEFINE n == Len(jobs)
           a == SubSeq(jobs, 1, i - 1)
           b == SubSeq(jobs, i + 1, n)
<1>1. jobs \in Seq(Jobs) /\ n \in Nat /\ i \in 1..n /\ \A j \in 1..n : jobs[j] \in Jobs
  BY LenProperties, ElementOfSeq DEF TypeOK, Jobs
<1>2. PICK k \in 1..n : jobs[k] = LeftJob
  BY DEF HasLeft
<1>3. /\ a \in Seq(Jobs) /\ Len(a) = (i - 1) - 1 + 1
      /\ \A j \in 1..((i - 1) - 1 + 1) : a[j] = jobs[1 + j - 1]
  <2>1. \A j \in 1..(i - 1) : jobs[j] \in Jobs
    BY <1>1
  <2>2. a \in Seq(Jobs) /\ Len(a) = (IF 1 <= i - 1 THEN (i - 1) - 1 + 1 ELSE 0)
    BY <1>1, <2>1, SubSeqProperties
  <2>3. \A j \in 1..((i - 1) - 1 + 1) : a[j] = jobs[1 + j - 1]
    BY <1>1, <2>1, SubSeqProperties
  <2> HIDE DEF a
  <2>4. (IF 1 <= i - 1 THEN (i - 1) - 1 + 1 ELSE 0) = (i - 1) - 1 + 1
    BY <1>1
  <2> QED
    BY <2>2, <2>3, <2>4
<1>4. /\ b \in Seq(Jobs) /\ Len(b) = n - i
      /\ \A j \in 1..(n - (i + 1) + 1) : b[j] = jobs[(i + 1) + j - 1]
  <2>1. \A j \in (i + 1)..n : jobs[j] \in Jobs
    BY <1>1
  <2>2. b \in Seq(Jobs) /\ Len(b) = (IF i + 1 <= n THEN n - (i + 1) + 1 ELSE 0)
    BY <1>1, <2>1, SubSeqProperties
  <2>3. \A j \in 1..(n - (i + 1) + 1) : b[j] = jobs[(i + 1) + j - 1]
    BY <1>1, <2>1, SubSeqProperties
  <2> HIDE DEF b
  <2>4. (IF i + 1 <= n THEN n - (i + 1) + 1 ELSE 0) = n - i
    BY <1>1
  <2> QED
    BY <2>2, <2>3, <2>4
<1>5. jobs' = a \o b
  BY DEF RemoveAt
<1> HIDE DEF a, b
<1>6. /\ Len(jobs') = Len(a) + Len(b)
      /\ \A j \in 1..(Len(a) + Len(b)) : jobs'[j] = IF j <= Len(a) THEN a[j] ELSE b[j - Len(a)]
  BY <1>3, <1>4, <1>5, ConcatProperties
<1>7. CASE k < i
  <2>1. k \in 1..((i - 1) - 1 + 1) /\ 1 + k - 1 = k /\ k <= Len(a) /\ k \in 1..(Len(a) + Len(b))
    BY <1>1, <1>3, <1>4, <1>7
  <2>2. a[k] = LeftJob
    BY <1>2, <1>3, <2>1
  <2> QED
    BY <1>6, <2>1, <2>2 DEF HasLeft
<1>8. CASE k > i
  <2> DEFINE m == k - i
             j == k - 1
  <2>1. /\ m \in 1..(n - (i + 1) + 1) /\ (i + 1) + m - 1 = k
        /\ j \in 1..(Len(a) + Len(b)) /\ ~(j <= Len(a)) /\ j - Len(a) = m
    <3>1. n \in Nat /\ i \in 1..n /\ k \in 1..n /\ k > i
      BY <1>1, <1>2, <1>8
    <3>2. Len(a) = i - 1 /\ Len(b) = n - i /\ Len(a) + Len(b) = n - 1
      BY <1>3, <1>4, <3>1
    <3>3. m \in 1..(n - (i + 1) + 1) /\ (i + 1) + m - 1 = k
      BY <3>1
    <3>4. j \in 1..(n - 1) /\ ~(j <= i - 1) /\ j - (i - 1) = m
      BY <3>1
    <3> QED
      BY <3>2, <3>3, <3>4
  <2> HIDE DEF m, j
  <2>2. b[m] = LeftJob
    BY <1>2, <1>4, <2>1
  <2>3. jobs'[j] = LeftJob
    BY <1>6, <2>1, <2>2
  <2> QED
    BY <1>6, <2>1, <2>3 DEF HasLeft
<1> QED
  BY <1>1, <1>2, <1>7, <1>8

\* What the library does for a caller.
LEMMA VoiceKeeps ==
    ASSUME TypeOK, VoiceIsSent, faults \subseteq faults', bot' = bot,
           \/ UNCHANGED <<voice, toDiscord>>
           \/ DisconnectsVoice
           \/ \E ch \in Channels : connect_voice(ch)
    PROVE  VoiceIsSent'
<1>1. CASE UNCHANGED <<voice, toDiscord>>
  BY <1>1 DEF VoiceIsSent, LastSent
<1>2. CASE DisconnectsVoice
  BY <1>2 DEF VoiceIsSent, DisconnectsVoice
<1>3. ASSUME NEW ch \in Channels, connect_voice(ch), ~UNCHANGED <<voice, toDiscord>>
      PROVE  VoiceIsSent'
  <2>1. toDiscord' = Append(toDiscord, ch) /\ ch \in ChannelOrNone /\ ch # NoChannel
    BY <1>3, ConstantsAssumption DEF connect_voice, ChannelOrNone
  <2>2. LastSent' = ch
    BY <2>1, AskedLast
  <2> QED
    BY <2>1, <2>2 DEF VoiceIsSent
<1> QED
  BY <1>1, <1>2, <1>3

\* A step that makes no entry of disconnecting, or asks the bot to leave with it.
LEMMA DisconnectingKeeps ==
    ASSUME TypeOK, VoiceIsSent, DisconnectingEnds, faults \subseteq faults', UNCHANGED <<bot, jobs>>,
           timers["disconnecting"] > 0 => timers'["disconnecting"] > 0,
           toDiscord' = toDiscord \/ \E x \in ChannelOrNone : toDiscord' = Append(toDiscord, x),
           disconnecting' => disconnecting \/ (voice # NoVoice /\ toDiscord' = Append(toDiscord, NoChannel)),
           \A d \in Callers : pc[d] \in {"leave", "reconnect", "wait_for_disconnecting"}
                              => pc'[d] \in {"leave", "reconnect", "wait_for_disconnecting"}
    PROVE  DisconnectingEnds'
<1> SUFFICES ASSUME disconnecting', "ignored" \notin faults'
             PROVE  \/ timers'["disconnecting"] > 0
                    \/ ToLeave'
                    \/ HasLeft'
                    \/ \E c \in Callers : pc'[c] \in {"leave", "reconnect", "wait_for_disconnecting"}
  BY DEF DisconnectingEnds
<1>1. "ignored" \notin faults
  OBVIOUS
<1>2. ToLeave => ToLeave'
  <2>1. CASE toDiscord' = toDiscord
    BY <2>1 DEF ToLeave, Before
  <2>2. CASE \E x \in ChannelOrNone : toDiscord' = Append(toDiscord, x)
    BY <2>2, AskedLast
  <2> QED
    BY <2>1, <2>2
<1>3. HasLeft => HasLeft'
  BY DEF HasLeft
<1>4. CASE disconnecting
  BY <1>1, <1>2, <1>3, <1>4 DEF DisconnectingEnds
<1>5. CASE voice # NoVoice /\ toDiscord' = Append(toDiscord, NoChannel)
  <2>1. LastSent # NoChannel /\ NoChannel \in ChannelOrNone
    BY <1>1, <1>5, Records DEF VoiceIsSent
  <2> QED
    BY <1>5, <2>1, AskedLast
<1> QED
  BY <1>4, <1>5

\* A step that makes no entry of connecting.
LEMMA ConnectingKeeps ==
    ASSUME ConnectingEnds, faults \subseteq faults', connecting' # NoChannel => connecting' = connecting,
           timers["connecting"] > 0 => timers'["connecting"] > 0,
           timers["waiting"] > 0 => timers'["waiting"] > 0,
           \A d \in Callers : pc[d] \in {"leave", "reconnect", "leaving", "connect", "download"}
                              => pc'[d] \in {"leave", "reconnect", "leaving", "connect", "download"}
    PROVE  ConnectingEnds'
<1> SUFFICES ASSUME connecting' # NoChannel, "not found" \notin faults'
             PROVE  \/ timers'["connecting"] > 0
                    \/ timers'["waiting"] > 0
                    \/ \E c \in Callers : pc'[c] \in {"leave", "reconnect", "leaving", "connect", "download"}
  BY DEF ConnectingEnds
<1>1. connecting # NoChannel /\ "not found" \notin faults
  OBVIOUS
<1> QED
  BY <1>1 DEF ConnectingEnds

\* Arming a timer stops none.
LEMMA TimersKept ==
    ASSUME TypeOK, UNCHANGED timers \/ \E t \in Timers : Armed(t)
    PROVE  \A u \in Timers : timers[u] > 0 => timers'[u] > 0
<1>1. timers \in [Timers -> Nat]
  BY DEF TypeOK
<1>2. \A u \in Timers : timers'[u] >= timers[u] /\ timers'[u] \in Nat
  <2>1. CASE UNCHANGED timers
    BY <1>1, <2>1
  <2>2. CASE \E t \in Timers : Armed(t)
    BY <2>2, ArmedOK
  <2> QED
    BY <2>1, <2>2
<1> QED
  BY <1>1, <1>2

\* set_reconnect: the caller is to leave and to connect.
LEMMA FullReconnectEnds ==
    ASSUME EndsInv, NEW c \in Callers, NEW ch, NEW from, NEW o, full_reconnect(c, ch, from), Calling(c, o)
    PROVE  VoiceIsSent' /\ DisconnectingEnds' /\ ConnectingEnds'
<1>1. UNCHANGED <<voice, discordVars, faults>> /\ pc'[c] = "leave"
  BY DEF full_reconnect, Calling, Goto, EndsInv, IInv, TypeOK
<1>2. VoiceIsSent'
  BY <1>1 DEF EndsInv, VoiceIsSent, LastSent, discordVars
<1> QED
  BY <1>1, <1>2 DEF DisconnectingEnds, ConnectingEnds

\* The other calls.
LEMMA OtherCallEnds ==
    ASSUME EndsInv, NEW c \in Callers,
           \/ \E ch \in Channels : PlayHere(c, ch) \/ PlayAnew(c, ch)
           \/ Leave(c) \/ Shutdown(c) \/ Marker(c)
    PROVE  VoiceIsSent' /\ DisconnectingEnds' /\ ConnectingEnds'
<1>1. UNCHANGED <<connecting, timers, bot, jobs, faults>>
  BY DEF PlayHere, PlayAnew, Leave, Shutdown, Marker, Calling, tables, discordVars
<1>2. UNCHANGED <<voice, toDiscord>> \/ DisconnectsVoice
  BY DEF PlayHere, PlayAnew, Leave, Shutdown, Marker, discordVars
<1>3. disconnecting' => disconnecting \/ (voice # NoVoice /\ DisconnectsVoice)
  BY DEF PlayHere, PlayAnew, Leave, Shutdown, Marker, SetsDisconnecting, tables
<1>4. \A d \in Callers : pc[d] # "idle" => pc'[d] = pc[d]
  BY DEF PlayHere, PlayAnew, Leave, Shutdown, Marker, Calling, At, Goto, callerVars, EndsInv, IInv, TypeOK
<1>5. VoiceIsSent'
  BY <1>1, <1>2, VoiceKeeps DEF EndsInv, IInv
<1>6. NoChannel \in ChannelOrNone
  BY Records
<1>7. DisconnectingEnds'
  BY <1>1, <1>2, <1>3, <1>4, <1>6, DisconnectingKeeps DEF EndsInv, IInv, DisconnectsVoice
<1>8. ConnectingEnds'
  BY <1>1, <1>4, ConnectingKeeps DEF EndsInv
<1> QED
  BY <1>5, <1>7, <1>8

\* Any call.
LEMMA CallEnds ==
    ASSUME EndsInv, NEW c \in Callers, Call(c)
    PROVE  VoiceIsSent' /\ DisconnectingEnds' /\ ConnectingEnds'
<1>1. ASSUME NEW ch \in Channels, Join(c, ch) \/ Follow(c, ch) \/ PlayThere(c, ch)
      PROVE  VoiceIsSent' /\ DisconnectingEnds' /\ ConnectingEnds'
  BY <1>1, FullReconnectEnds DEF Join, Follow, PlayThere
<1>2. CASE Rejoin(c)
  BY <1>2, FullReconnectEnds DEF Rejoin
<1> QED
  BY <1>1, <1>2, OtherCallEnds DEF Call

\* A step of a caller that leaves the tables alone.
LEMMA ProceedEnds ==
    ASSUME EndsInv, NEW c \in Callers, Proceed(c)
    PROVE  VoiceIsSent' /\ DisconnectingEnds' /\ ConnectingEnds'
<1> USE DEF At, Goto
<1>1. /\ TypeOK /\ VoiceIsSent /\ DisconnectingEnds /\ ConnectingEnds
      /\ pc \in [Callers -> Places] /\ faults \subseteq Faults /\ timers \in [Timers -> Nat]
      /\ "disconnecting" \in Timers /\ "connecting" \in Timers /\ "waiting" \in Timers
  BY DEF EndsInv, IInv, TypeOK, Timers
<1>2. /\ UNCHANGED <<bot, jobs, disconnecting>> /\ faults \subseteq faults'
      /\ pc' = [pc EXCEPT ![c] = pc'[c]]
  BY <1>1 DEF Proceed, Searched, Downloaded, disconnect_voice, ReconnectWaits, Left, Connect, Joined,
              wait_for_vc_ready, wait_for_disconnecting, Waited, tables, discordVars, history, Fault
<1>3. UNCHANGED timers \/ \E t \in Timers : Armed(t)
  BY DEF Proceed, Searched, SetsWaiting, Downloaded, disconnect_voice, ReconnectWaits, Left, Connect,
         Joined, wait_for_vc_ready, wait_for_disconnecting, Waited, Timers
<1>4. \A u \in Timers : timers[u] > 0 => timers'[u] > 0
  BY <1>1, <1>3, TimersKept
<1>5. \A d \in Callers : d # c => pc'[d] = pc[d]
  BY <1>1, <1>2
<1>6. UNCHANGED <<voice, toDiscord>> \/ DisconnectsVoice \/ \E ch \in Channels : connect_voice(ch)
  BY <1>1 DEF Proceed, Searched, Downloaded, disconnect_voice, ReconnectWaits, Left, Connect, Joined,
              wait_for_vc_ready, wait_for_disconnecting, Waited, discordVars, TypeOK, ChannelOrNone
<1>7. toDiscord' = toDiscord \/ \E x \in ChannelOrNone : toDiscord' = Append(toDiscord, x)
  BY <1>6 DEF DisconnectsVoice, connect_voice, ChannelOrNone
<1>8. VoiceIsSent'
  BY <1>1, <1>2, <1>6, VoiceKeeps
<1>9. CASE ReconnectWaits(c) \/ wait_for_disconnecting(c)
  <2>1. UNCHANGED <<connecting, disconnecting>>
    BY <1>9 DEF ReconnectWaits, wait_for_disconnecting, tables
  <2>2. disconnecting => Armed("disconnecting")
    BY <1>9 DEF ReconnectWaits, wait_for_disconnecting
  <2>3. disconnecting => timers'["disconnecting"] > 0
    BY <1>1, <2>2, ArmedOK
  <2>4. DisconnectingEnds'
    BY <2>1, <2>3 DEF DisconnectingEnds
  <2>5. pc[c] \in {"leave", "reconnect", "leaving", "connect", "download"}
        => pc'[c] \in {"leave", "reconnect", "leaving", "connect", "download"}
    BY <1>1, <1>9 DEF ReconnectWaits, wait_for_disconnecting
  <2>6. ConnectingEnds'
    BY <1>1, <1>2, <1>4, <1>5, <2>1, <2>5, ConnectingKeeps
  <2> QED
    BY <1>8, <2>4, <2>6
<1>10. CASE Searched(c)
  <2>1. pc[c] = "search" /\ pc'[c] = "download"
    BY <1>1, <1>10 DEF Searched
  <2>2. DisconnectingEnds'
    BY <1>1, <1>2, <1>4, <1>5, <1>7, <2>1, DisconnectingKeeps
  <2>3. ConnectingEnds'
    BY <2>1 DEF ConnectingEnds
  <2> QED
    BY <1>8, <2>2, <2>3
<1>11. CASE Connect(c)
  <2>1. connecting' = connecting /\ pc[c] = "connect"
    BY <1>11 DEF Connect, tables
  <2>2. connecting # NoChannel => Armed("connecting")
    BY <1>11 DEF Connect
  <2>3. connecting # NoChannel => timers'["connecting"] > 0
    BY <1>1, <2>2, ArmedOK
  <2>4. ConnectingEnds'
    BY <2>1, <2>3 DEF ConnectingEnds
  <2>5. DisconnectingEnds'
    BY <1>1, <1>2, <1>4, <1>5, <1>7, <2>1, DisconnectingKeeps
  <2> QED
    BY <1>8, <2>4, <2>5
<1>12. CASE Downloaded(c)
  <2>1. UNCHANGED <<connecting, disconnecting>> /\ pc[c] = "download"
    BY <1>12 DEF Downloaded, tables
  <2>2. pc'[c] = "reconnect" \/ "not found" \in faults'
    BY <1>1, <1>12 DEF Downloaded, Fault
  <2>3. DisconnectingEnds'
    BY <1>1, <1>2, <1>4, <1>5, <1>7, <2>1, DisconnectingKeeps
  <2>4. ConnectingEnds'
    BY <1>1, <1>2, <1>4, <1>5, <2>1, <2>2, ConnectingKeeps DEF ConnectingEnds
  <2> QED
    BY <1>8, <2>3, <2>4
<1>13. CASE disconnect_voice(c) \/ Left(c) \/ Joined(c) \/ wait_for_vc_ready(c) \/ Waited(c)
  <2>1. connecting' = connecting
    BY <1>13 DEF disconnect_voice, Left, Joined, wait_for_vc_ready, Waited, tables
  <2>2. \/ pc[c] = "leave" /\ pc'[c] = "reconnect"
        \/ pc[c] = "leaving" /\ pc'[c] = "connect"
        \/ pc[c] \in {"joining", "wait_for_vc_ready", "awaiting", "gone"}
    BY <1>1, <1>13 DEF disconnect_voice, Left, Joined, wait_for_vc_ready, Waited
  <2>3. DisconnectingEnds'
    BY <1>1, <1>2, <1>4, <1>5, <1>7, <2>2, DisconnectingKeeps
  <2>4. ConnectingEnds'
    BY <1>1, <1>2, <1>4, <1>5, <2>1, <2>2, ConnectingKeeps
  <2> QED
    BY <1>8, <2>3, <2>4
<1> QED
  BY <1>9, <1>10, <1>11, <1>12, <1>13 DEF Proceed

\* Discord and the library.
LEMMA AnswerEnds ==
    ASSUME EndsInv, Answer
    PROVE  VoiceIsSent' /\ DisconnectingEnds' /\ ConnectingEnds'
<1>1. TypeOK /\ VoiceIsSent /\ DisconnectingEnds /\ ConnectingEnds
  BY DEF EndsInv, IInv
<1>2. /\ toDiscord # <<>> /\ toDiscord' = Tail(toDiscord)
      /\ UNCHANGED <<tables, timers, pc>> /\ faults \subseteq faults'
  BY DEF Answer, Fault, callerVars
<1>3. ConnectingEnds'
  BY <1>1, <1>2, ConnectingKeeps DEF tables
<1>4. CASE "ignored" \in faults'
  BY <1>3, <1>4 DEF VoiceIsSent, DisconnectingEnds
<1>5. CASE "ignored" \notin faults'
  <2>1. "ignored" \notin faults /\ Head(toDiscord) \in ChannelOrNone
    BY <1>1, <1>2, <1>5, FirstOf DEF TypeOK
  <2>2. \/ BotGoesTo(Head(toDiscord))
        \/ Head(toDiscord) = bot /\ UNCHANGED <<bot, voice, jobs>>
    BY <1>5 DEF Answer, Fault
  <2>3. bot' = Head(toDiscord)
    BY <2>2 DEF BotGoesTo
  <2>4. LastSent' = LastSent /\ (ToLeave => ToLeave' \/ (bot # NoChannel /\ bot' = NoChannel))
    BY <1>1, <1>2, <2>3, AnsweredFirst
  <2>5. voice' # NoVoice => voice # NoVoice
    BY <2>2 DEF BotGoesTo, NoVoice
  <2>6. VoiceIsSent'
    BY <1>1, <2>1, <2>4, <2>5 DEF VoiceIsSent
  <2>7. HasLeft => HasLeft'
    <3>1. CASE UNCHANGED jobs
      BY <3>1 DEF HasLeft
    <3>2. CASE BotGoesTo(Head(toDiscord))
      BY <1>1, <2>1, <3>2, Records, EventBehind DEF BotGoesTo
    <3> QED
      BY <2>2, <3>1, <3>2
  <2>8. bot # NoChannel /\ bot' = NoChannel => HasLeft'
    <3> SUFFICES ASSUME bot # NoChannel, bot' = NoChannel PROVE HasLeft'
      OBVIOUS
    <3>1. jobs' = Append(jobs, LeftJob) /\ LeftJob \in Jobs
      BY <2>2, Records DEF BotGoesTo, LeftJob
    <3> QED
      BY <1>1, <3>1, EventBehind
  <2>9. DisconnectingEnds'
    BY <1>1, <1>2, <2>1, <2>4, <2>7, <2>8 DEF DisconnectingEnds, tables
  <2> QED
    BY <1>3, <2>6, <2>9
<1> QED
  BY <1>4, <1>5

\* What Discord and its users do.
LEMMA OutsideEnds ==
    ASSUME EndsInv,
           \/ Accept
           \/ \E ch \in ChannelOrNone : Move(ch)
           \/ \E ch \in Channels : Listen(ch)
    PROVE  VoiceIsSent' /\ DisconnectingEnds' /\ ConnectingEnds'
<1>1. TypeOK /\ VoiceIsSent /\ DisconnectingEnds /\ ConnectingEnds
  BY DEF EndsInv, IInv
<1>2. UNCHANGED <<tables, timers, pc, toDiscord>> /\ faults \subseteq faults'
  BY DEF Accept, Move, Listen, Fault, callerVars, discordVars, history
<1>3. ConnectingEnds'
  BY <1>1, <1>2, ConnectingKeeps DEF tables
<1>4. CASE Accept
  <2>1. /\ voice # NoVoice /\ bot' = bot /\ UNCHANGED faults
        /\ jobs' = Append(jobs, ReadyJob) /\ ReadyJob \in Jobs
    BY <1>4, Records DEF Accept, NoVoice, history
  <2>2. VoiceIsSent'
    BY <1>1, <1>2, <2>1 DEF VoiceIsSent, LastSent
  <2>3. (ToLeave => ToLeave') /\ (HasLeft => HasLeft')
    BY <1>1, <1>2, <2>1, EventBehind DEF ToLeave, Before
  <2>4. DisconnectingEnds'
    BY <1>1, <1>2, <2>1, <2>3 DEF DisconnectingEnds, tables
  <2> QED
    BY <1>3, <2>2, <2>4
<1>5. ASSUME NEW ch \in ChannelOrNone, Move(ch)
      PROVE  VoiceIsSent' /\ DisconnectingEnds' /\ ConnectingEnds'
  <2>1. bot # NoChannel /\ BotGoesTo(ch) /\ bot' = ch /\ JoinedJob(ch) \in Jobs /\ jobs' = Append(jobs, JoinedJob(ch))
    BY <1>5, Records DEF Move, BotGoesTo
  <2>2. voice' # NoVoice => voice # NoVoice /\ ch # NoChannel
    <3>1. ch = NoChannel => voice' = NoVoice
      BY <2>1 DEF BotGoesTo
    <3>2. NoVoice.channel = NoChannel
      BY DEF NoVoice
    <3>3. ch # NoChannel /\ voice = NoVoice => voice' = NoVoice
      BY <2>1, <3>2 DEF BotGoesTo
    <3> QED
      BY <3>1, <3>3
  <2>3. LastSent' = IF toDiscord = <<>> THEN ch ELSE LastSent
    BY <1>2, <2>1 DEF LastSent
  <2>4. VoiceIsSent'
    BY <1>1, <1>2, <2>2, <2>3 DEF VoiceIsSent
  <2>5. (HasLeft => HasLeft') /\ (ch = NoChannel => HasLeft')
    BY <1>1, <2>1, EventBehind DEF LeftJob
  <2>6. ch # NoChannel => (ToLeave => ToLeave')
    BY <1>2, <2>1 DEF ToLeave, Before
  <2>7. DisconnectingEnds'
    BY <1>1, <1>2, <2>5, <2>6 DEF DisconnectingEnds, tables
  <2> QED
    BY <1>3, <2>4, <2>7
<1>6. CASE \E ch \in Channels : Listen(ch)
  <2>1. UNCHANGED <<voice, bot, jobs, faults>>
    BY <1>6 DEF Listen, discordVars, history
  <2>2. VoiceIsSent' /\ (ToLeave => ToLeave') /\ (HasLeft => HasLeft')
    BY <1>1, <1>2, <2>1 DEF VoiceIsSent, LastSent, ToLeave, Before, HasLeft
  <2>3. DisconnectingEnds'
    BY <1>1, <1>2, <2>1, <2>2 DEF DisconnectingEnds, tables
  <2> QED
    BY <1>3, <2>2, <2>3
<1> QED
  BY <1>4, <1>5, <1>6

\* The handlers.
LEMMA HandleEnds ==
    ASSUME EndsInv, NEW i \in DOMAIN jobs, Handle(i)
    PROVE  VoiceIsSent' /\ DisconnectingEnds' /\ ConnectingEnds'
<1>1. TypeOK /\ VoiceIsSent /\ DisconnectingEnds /\ ConnectingEnds
  BY DEF EndsInv, IInv
<1>2. UNCHANGED <<bot, pc>> /\ faults \subseteq faults' /\ jobs' = RemoveAt(jobs, i)
  BY DEF Handle, Fault, callerVars
<1>3. jobs[i] # LeftJob => (HasLeft => HasLeft')
  BY <1>1, <1>2, EventTaken
<1>4. CASE jobs[i] = LeftJob
  <2>1. HandleLeft
    BY <1>4 DEF Handle, LeftJob, JoinedJob, ReadyJob
  <2>2. UNCHANGED <<connecting, timers, voice, toDiscord>> /\ disconnecting' = FALSE
    BY <2>1 DEF HandleLeft
  <2>3. VoiceIsSent'
    BY <1>1, <1>2, <2>2, VoiceKeeps
  <2>4. ConnectingEnds'
    BY <1>1, <1>2, <2>2, ConnectingKeeps
  <2> QED
    BY <2>2, <2>3, <2>4 DEF DisconnectingEnds
<1>5. CASE jobs[i] # LeftJob /\ (HandleReady \/ (HandleJoined /\ ~HandleMoved))
  <2>1. UNCHANGED <<disconnecting, timers, toDiscord>> /\ connecting' = NoChannel
    BY <1>5 DEF HandleReady, HandleJoined, ClearsWaiting
  <2>2. voice' # NoVoice => voice # NoVoice
    <3> SUFFICES ASSUME voice = NoVoice PROVE voice' = NoVoice
      OBVIOUS
    <3>1. voice.client = "none" /\ voice.marked = FALSE /\ [voice EXCEPT !.marked = FALSE] = voice
      <4>1. voice = [channel |-> NoChannel, client |-> "none", marked |-> FALSE]
        BY DEF NoVoice
      <4>2. voice.client = "none"
        BY <4>1
      <4>3. voice.marked = FALSE
        BY <4>1
      <4>4. [voice EXCEPT !.marked = FALSE] = voice
        BY <1>1, <4>3 DEF TypeOK
      <4> QED
        BY <4>2, <4>3, <4>4
    <3>2. voice' = voice \/ voice' = [voice EXCEPT !.marked = FALSE]
      BY <1>5, <3>1 DEF HandleReady, HandleJoined
    <3> QED
      BY <3>1, <3>2
  <2>3. VoiceIsSent'
    BY <1>1, <1>2, <2>1, <2>2 DEF VoiceIsSent, LastSent
  <2>4. ToLeave => ToLeave'
    BY <1>2, <2>1 DEF ToLeave, Before
  <2>5. DisconnectingEnds'
    BY <1>1, <1>2, <1>3, <1>5, <2>1, <2>4 DEF DisconnectingEnds
  <2>6. ConnectingEnds'
    BY <2>1 DEF ConnectingEnds
  <2> QED
    BY <2>3, <2>5, <2>6
<1>6. CASE jobs[i] # LeftJob /\ HandleMoved
  <2>1. SetsDisconnecting /\ DisconnectsVoice
    BY <1>6 DEF HandleMoved
  <2>2. VoiceIsSent'
    BY <1>1, <1>2, <2>1, VoiceKeeps
  <2>3. timers["disconnecting"] > 0 => timers'["disconnecting"] > 0
    <3>1. UNCHANGED timers \/ Armed("waiting")
      BY <1>6 DEF HandleMoved, SetsWaiting
    <3> QED
      BY <1>1, <3>1, TimersKept DEF Timers
  <2>4. NoChannel \in ChannelOrNone /\ toDiscord' = Append(toDiscord, NoChannel)
    BY <2>1, Records DEF DisconnectsVoice
  <2>5. ToLeave => ToLeave'
    BY <1>1, <1>2, <2>4, AskedLast
  <2>6. voice # NoVoice /\ "ignored" \notin faults => ToLeave'
    BY <1>1, <1>2, <2>4, AskedLast DEF VoiceIsSent
  <2>7. disconnecting' => disconnecting \/ voice # NoVoice
    BY <2>1 DEF SetsDisconnecting
  <2>8. DisconnectingEnds'
    BY <1>1, <1>2, <1>3, <1>6, <2>3, <2>5, <2>6, <2>7 DEF DisconnectingEnds
  <2>9. connecting' = NoChannel \/ timers'["waiting"] > 0
    <3>1. CASE bot \in heard
      <4>1. Armed("waiting")
        BY <1>6, <3>1 DEF HandleMoved, SetsWaiting, NoVoice
      <4> QED
        BY <1>1, <4>1, ArmedOK DEF Timers
    <3>2. CASE bot \notin heard
      BY <1>6, <3>2 DEF HandleMoved
    <3> QED
      BY <3>1, <3>2
  <2>10. ConnectingEnds'
    BY <2>9 DEF ConnectingEnds
  <2> QED
    BY <2>2, <2>8, <2>10
<1>7. jobs[i] # LeftJob => HandleReady \/ HandleJoined
  BY DEF Handle
<1> QED
  BY <1>4, <1>5, <1>6, <1>7

\* A timer takes its table's entry with it.
LEMMA TimerFiresEnds ==
    ASSUME EndsInv, NEW t \in Timers, TimerFires(t)
    PROVE  VoiceIsSent' /\ DisconnectingEnds' /\ ConnectingEnds'
<1>1. TypeOK /\ VoiceIsSent /\ DisconnectingEnds /\ ConnectingEnds /\ timers \in [Timers -> Nat]
  BY DEF EndsInv, IInv, TypeOK
<1>2. UNCHANGED <<voice, toDiscord, bot, jobs, pc>> /\ faults \subseteq faults'
  BY DEF TimerFires, Fault, discordVars, callerVars
<1>3. /\ timers' = [timers EXCEPT ![t] = timers[t] - 1] /\ t \in {"disconnecting", "connecting", "waiting"}
      /\ TimerClears(t)
  BY DEF TimerFires, Timers
<1>4. VoiceIsSent'
  BY <1>1, <1>2, VoiceKeeps
<1>5. CASE t = "disconnecting"
  <2>1. disconnecting' = FALSE /\ connecting' = connecting
    BY <1>3, <1>5 DEF TimerClears
  <2>2. timers'["connecting"] = timers["connecting"] /\ timers'["waiting"] = timers["waiting"]
    BY <1>1, <1>3, <1>5 DEF Timers
  <2>3. ConnectingEnds'
    BY <1>1, <1>2, <2>1, <2>2, ConnectingKeeps
  <2> QED
    BY <1>4, <2>1, <2>3 DEF DisconnectingEnds
<1>6. CASE t # "disconnecting"
  <2>1. disconnecting' = disconnecting /\ connecting' = NoChannel
    BY <1>3, <1>6 DEF TimerClears, ClearsWaiting
  <2>2. timers'["disconnecting"] = timers["disconnecting"]
    BY <1>1, <1>3, <1>6 DEF Timers
  <2>3. DisconnectingEnds'
    BY <1>1, <1>2, <2>1, <2>2, DisconnectingKeeps
  <2> QED
    BY <1>4, <2>1, <2>3 DEF ConnectingEnds
<1> QED
  BY <1>5, <1>6

\* EndsInv holds initially and every step keeps it.
LEMMA EndsInvHolds == Spec => []EndsInv
<1>1. Init => EndsInv
  BY InitOK DEF Init, EndsInv, VoiceIsSent, DisconnectingEnds, ConnectingEnds
<1>2. ASSUME EndsInv, [Next]_vars
      PROVE  EndsInv'
  <2>1. IInv'
    BY <1>2, StepOK DEF EndsInv
  <2>2. VoiceIsSent' /\ DisconnectingEnds' /\ ConnectingEnds'
    <3>1. ASSUME NEW c \in Callers, Call(c) \/ Proceed(c)
          PROVE  VoiceIsSent' /\ DisconnectingEnds' /\ ConnectingEnds'
      BY <1>2, <3>1, CallEnds, ProceedEnds
    <3>2. CASE Answer \/ Accept \/ (\E ch \in Channels \cup {NoChannel} : Move(ch)) \/ (\E ch \in Channels : Listen(ch))
      BY <1>2, <3>2, AnswerEnds, OutsideEnds DEF ChannelOrNone
    <3>3. ASSUME NEW i \in DOMAIN jobs, Handle(i)
          PROVE  VoiceIsSent' /\ DisconnectingEnds' /\ ConnectingEnds'
      BY <1>2, <3>3, HandleEnds
    <3>4. ASSUME NEW t \in Timers, TimerFires(t)
          PROVE  VoiceIsSent' /\ DisconnectingEnds' /\ ConnectingEnds'
      BY <1>2, <3>4, TimerFiresEnds
    <3>5. CASE UNCHANGED vars
      <4>1. UNCHANGED <<connecting, disconnecting, timers, voice, toDiscord, bot, jobs, pc, faults>>
        BY <3>5 DEF vars, tables, discordVars, callerVars, history
      <4>2. (ToLeave => ToLeave') /\ (HasLeft => HasLeft') /\ LastSent' = LastSent
        BY <4>1 DEF ToLeave, Before, HasLeft, LastSent
      <4> QED
        BY <1>2, <4>1, <4>2 DEF EndsInv, VoiceIsSent, DisconnectingEnds, ConnectingEnds
    <3> QED
      BY <1>2, <3>1, <3>2, <3>3, <3>4, <3>5 DEF Next
  <2> QED
    BY <2>1, <2>2 DEF EndsInv
<1> QED
  BY <1>1, <1>2, PTL DEF Spec

\* When all has come to rest the tables are empty (clear_disconnecting,
\* clear_connecting and clear_wait_vc_ready, by events or by the timers of ten
\* seconds), for any number of overlapping calls and whatever goes wrong; but for
\* what Discord ignored, and a search that gave up.
THEOREM TablesCleared == Spec => []TablesAreCleared
<1>1. EndsInv => TablesAreCleared
  <2> SUFFICES ASSUME EndsInv, Settled
               PROVE  /\ ~waiting
                      /\ "ignored" \notin faults => ~disconnecting
                      /\ "not found" \notin faults => connecting = NoChannel
    BY DEF TablesAreCleared
  <2>1. /\ timers["disconnecting"] = 0 /\ timers["connecting"] = 0 /\ timers["waiting"] = 0
        /\ toDiscord = <<>> /\ jobs = <<>> /\ \A c \in Callers : pc[c] \in {"idle", "awaiting"}
    BY DEF Settled, Quiet, At, Timers
  <2>2. ~waiting
    BY <2>1 DEF EndsInv, IInv, WaitingIsTimed
  <2>3. ~ToLeave /\ ~HasLeft
    BY <2>1 DEF ToLeave, HasLeft
  <2>4. "ignored" \notin faults => ~disconnecting
    BY <2>1, <2>3 DEF EndsInv, DisconnectingEnds
  <2>5. "not found" \notin faults => connecting = NoChannel
    <3>1. ~(timers["connecting"] > 0) /\ ~(timers["waiting"] > 0)
      BY <2>1
    <3>2. \A c \in Callers : pc[c] \notin {"leave", "reconnect", "leaving", "connect", "download"}
      BY <2>1
    <3>3. ConnectingEnds
      BY DEF EndsInv
    <3> QED
      BY <3>1, <3>2, <3>3 DEF ConnectingEnds
  <2> QED
    BY <2>2, <2>4, <2>5
<1> QED
  BY <1>1, EndsInvHolds, PTL

----------------------------------------------------------------------------
(***************************************************************************)
(* Calls that do not overlap: the connection is on its way out or on its   *)
(* way to the channel asked for, and needs no more than the answers that   *)
(* are still to come.                                                      *)
(***************************************************************************)
InOrder == ~disturbed /\ faults \subseteq {"overtaken"}

\* Nothing is on its way: the bot is in a channel with a player, or nowhere.
Free ==
    /\ toDiscord = <<>> /\ jobs = <<>>
    /\ voice = IF bot = NoChannel THEN NoVoice ELSE Connection(bot, "ready", TRUE)

\* The bot is to leave, has left, or the event was handled.
Gone  == voice = NoVoice /\ toDiscord = <<>> /\ jobs = <<>> /\ bot = NoChannel /\ ~disconnecting
Going ==
    \/ Gone
    \/ /\ voice = NoVoice /\ toDiscord = <<NoChannel>> /\ jobs = <<>>
       /\ disconnecting <=> bot # NoChannel
    \/ voice = NoVoice /\ toDiscord = <<>> /\ jobs = <<LeftJob>> /\ bot = NoChannel /\ disconnecting

\* The bot is to join the channel, has joined it, and its voice client gets ready.
Asked ==
    /\ voice = Connection(wanted, "none", FALSE) /\ bot = NoChannel /\ jobs = <<>>
    /\ toDiscord = <<wanted>> \/ toDiscord = <<NoChannel, wanted>>
InChannel ==
    /\ bot = wanted /\ toDiscord = <<>>
    /\ \/ /\ voice = Connection(wanted, "connecting", FALSE)
          /\ jobs = <<>> \/ jobs = <<JoinedJob(wanted)>>
       \/ /\ voice = Connection(wanted, "ready", FALSE)
          /\ jobs = <<ReadyJob>> \/ jobs = <<JoinedJob(wanted), ReadyJob>>
       \/ /\ voice = Connection(wanted, "ready", TRUE)
          /\ jobs = <<>> \/ jobs = <<JoinedJob(wanted)>>
Coming == wanted # NoChannel /\ ~disconnecting /\ (Asked \/ InChannel)

Heading == IF wanted = NoChannel THEN Going ELSE Coming

\* The table says nothing else than where the connection is heading for.
Agrees == connecting \in {NoChannel, wanted}

\* What the one caller relies on, by the place it is at.
AtWork(c) ==
    /\ pc[c] = "idle" => target[c] = NoChannel
    /\ pc[c] = "leave" => Free /\ (disconnecting <=> bot # NoChannel) /\ connecting = wanted
    /\ pc[c] \in {"reconnect", "leaving", "connect"} =>
          \/ Going /\ connecting = wanted
          \/ Coming /\ Agrees
    /\ pc[c] = "connect" => ~disconnecting
    /\ pc[c] \in {"leave", "reconnect", "leaving", "connect", "joining"} =>
          wanted # NoChannel /\ target[c] \in {NoChannel, wanted}
    /\ pc[c] = "joining" => Coming /\ Agrees
    /\ pc[c] = "search" =>
          /\ target[c] # NoChannel /\ Agrees
          /\ Gone \/ (Coming /\ wanted = target[c])
    /\ pc[c] = "download" =>
          /\ wanted # NoChannel /\ target[c] = NoChannel
          /\ (Gone /\ connecting = wanted) \/ (Coming /\ Agrees)
    /\ pc[c] \in {"wait_for_disconnecting", "gone"} =>
          Going /\ wanted = NoChannel /\ connecting = NoChannel /\ target[c] = NoChannel
    /\ pc[c] = "wait_for_vc_ready" =>
          Coming /\ voice.marked /\ connecting = NoChannel /\ target[c] = NoChannel
    /\ pc[c] # "awaiting"

\* The calls do not overlap.
OneCaller == \A c, d \in Callers : pc[c] # "idle" /\ pc[d] # "idle" => c = d
AllIdle   == \A c \in Callers : pc[c] = "idle"

\* The inductive invariant of AskedIsGiven.
InOrderInv ==
    InOrder =>
        /\ OneCaller
        /\ \A c \in Callers : AtWork(c)
        /\ AllIdle => Heading /\ connecting = NoChannel
        /\ waiting => ~voice.marked

\* Two events, or requests, and what is left when one of them is taken.
LEMMA PairIs ==
    ASSUME NEW a, NEW b, NEW s \in Seq({a, b}), Len(s) = 2, s[1] = a, s[2] = b
    PROVE  s = <<a, b>>
<1>1. <<a, b>> \in Seq({a, b}) /\ Len(<<a, b>>) = 2
  OBVIOUS
<1>2. <<a, b>>[1] = a /\ <<a, b>>[2] = b
  OBVIOUS
<1> DEFINE t == <<a, b>>
           S == {a, b}
<1>3. t \in Seq(S) /\ Len(t) = 2 /\ t[1] = a /\ t[2] = b /\ s \in Seq(S)
  BY <1>1, <1>2
<1> HIDE DEF t, S
<1>4. \A i \in 1..2 : i = 1 \/ i = 2
  OBVIOUS
<1>5. \A i \in 1..2 : s[i] = t[i]
  BY <1>3, <1>4
<1>6. s = t
  BY <1>3, <1>5, SeqEqual
<1> QED
  BY <1>6 DEF t

\* A second one behind the first.
LEMMA AppendToOne ==
    ASSUME NEW a, NEW b
    PROVE  Append(<<a>>, b) = <<a, b>>
<1> DEFINE q == <<a>>
           s == Append(q, b)
           S == {a, b}
<1>1. q \in Seq(S) /\ Len(q) = 1 /\ q[1] = a /\ b \in S
  OBVIOUS
<1> HIDE DEF q, S
<1>2. s \in Seq(S) /\ Len(s) = Len(q) + 1 /\ s[Len(q) + 1] = b /\ \A i \in 1..Len(q) : s[i] = q[i]
  <2>1. q \in Seq(S) /\ b \in S
    BY <1>1
  <2>2. s \in Seq(S) /\ Len(s) = Len(q) + 1 /\ s[Len(q) + 1] = b
    BY <2>1, AppendProperties
  <2>3. \A i \in 1..Len(q) : s[i] = q[i]
    BY <2>1, AppendProperties
  <2> QED
    BY <2>2, <2>3
<1> HIDE DEF s
<1>3. Len(s) = 2 /\ s[2] = b /\ s[1] = a
  BY <1>1, <1>2
<1> QED
  BY <1>2, <1>3, PairIs DEF s, S, q

\* A sequence of one.
LEMMA SingleIs ==
    ASSUME NEW a, NEW S, NEW s \in Seq(S), a \in S, Len(s) = 1, s[1] = a
    PROVE  s = <<a>>
<1>1. <<a>> \in Seq(S) /\ Len(<<a>>) = 1
  OBVIOUS
<1>2. \A i \in 1..1 : s[i] = <<a>>[i]
  OBVIOUS
<1> QED
  BY <1>1, <1>2, SeqEqual

\* One of two is taken out.
LEMMA OneOfTwo ==
    ASSUME NEW a, NEW b
    PROVE  RemoveAt(<<a, b>>, 1) = <<b>> /\ RemoveAt(<<a, b>>, 2) = <<a>>
<1> DEFINE s == <<a, b>>
           S == {a, b}
<1>1. s \in Seq(S) /\ Len(s) = 2 /\ s[1] = a /\ s[2] = b /\ a \in S /\ b \in S
  OBVIOUS
<1> HIDE DEF s, S
<1>2. SubSeq(s, 1, 0) = <<>> /\ SubSeq(s, 3, 2) = <<>>
  BY <1>1, SubSeqEmpty
<1>3. SubSeq(s, 2, 2) = <<b>>
  <2> DEFINE t == SubSeq(s, 2, 2)
  <2>1. \A i \in 2..2 : s[i] \in S
    BY <1>1
  <2>2. t \in Seq(S) /\ Len(t) = (IF 2 <= 2 THEN 2 - 2 + 1 ELSE 0)
    BY <2>1, SubSeqProperties
  <2>3. \A i \in 1..(2 - 2 + 1) : t[i] = s[2 + i - 1]
    BY <2>1, SubSeqProperties
  <2> HIDE DEF t
  <2>4. Len(t) = 1 /\ t[1] = b
    BY <1>1, <2>2, <2>3
  <2>5. t = <<b>>
    BY <1>1, <2>2, <2>4, SingleIs
  <2> QED
    BY <2>5 DEF t
<1>4. SubSeq(s, 1, 1) = <<a>>
  <2> DEFINE t == SubSeq(s, 1, 1)
  <2>1. \A i \in 1..1 : s[i] \in S
    BY <1>1
  <2>2. t \in Seq(S) /\ Len(t) = (IF 1 <= 1 THEN 1 - 1 + 1 ELSE 0)
    BY <2>1, SubSeqProperties
  <2>3. \A i \in 1..(1 - 1 + 1) : t[i] = s[1 + i - 1]
    BY <2>1, SubSeqProperties
  <2> HIDE DEF t
  <2>4. Len(t) = 1 /\ t[1] = a
    BY <1>1, <2>2, <2>3
  <2>5. t = <<a>>
    BY <1>1, <2>2, <2>4, SingleIs
  <2> QED
    BY <2>5 DEF t
<1>5. RemoveAt(s, 1) = SubSeq(s, 1, 0) \o SubSeq(s, 2, 2) /\ RemoveAt(s, 2) = SubSeq(s, 1, 1) \o SubSeq(s, 3, 2)
  BY <1>1 DEF RemoveAt
<1>6. <<>> \o <<b>> = <<b>> /\ <<a>> \o <<>> = <<a>>
  OBVIOUS
<1> QED
  BY <1>2, <1>3, <1>4, <1>5, <1>6 DEF s

\* Sequences of one and of two.
LEMMA Tuples ==
    ASSUME NEW a, NEW b
    PROVE  /\ Head(<<a>>) = a /\ Tail(<<a>>) = <<>> /\ Append(<<>>, a) = <<a>>
           /\ Head(<<a, b>>) = a /\ Tail(<<a, b>>) = <<b>>
           /\ <<a>> # <<>> /\ <<a, b>> # <<>>
           /\ DOMAIN <<a>> = {1} /\ DOMAIN <<a, b>> = {1, 2}
           /\ <<a>>[1] = a /\ <<a, b>>[1] = a /\ <<a, b>>[2] = b
           /\ RemoveAt(<<a>>, 1) = <<>>
<1>1. Head(<<a>>) = a /\ Tail(<<a>>) = <<>> /\ Append(<<>>, a) = <<a>>
  OBVIOUS
<1>2. Head(<<a, b>>) = a
  OBVIOUS
<1>3. Tail(<<a, b>>) = <<b>>
  OBVIOUS
<1>4. <<a>> # <<>> /\ <<a, b>> # <<>>
  OBVIOUS
<1>5. DOMAIN <<a>> = {1} /\ DOMAIN <<a, b>> = {1, 2}
  OBVIOUS
<1>6. <<a>>[1] = a /\ <<a, b>>[1] = a /\ <<a, b>>[2] = b
  OBVIOUS
<1>7. RemoveAt(<<a>>, 1) = <<>>
  BY DEF RemoveAt
<1> QED
  BY <1>1, <1>2, <1>3, <1>4, <1>5, <1>6, <1>7

----------------------------------------------------------------------------
\* The events are told apart, and so are the connections.
LEMMA Events ==
    /\ ReadyJob # LeftJob
    /\ \A ch : JoinedJob(ch) # ReadyJob /\ (ch # NoChannel => JoinedJob(ch) # LeftJob)
    /\ \A ch, k, m : /\ Connection(ch, k, m).channel = ch
                     /\ Connection(ch, k, m).client = k
                     /\ Connection(ch, k, m).marked = m
    /\ NoVoice.channel = NoChannel /\ NoVoice.client = "none" /\ NoVoice.marked = FALSE
<1>1. ReadyJob.event = "ready" /\ LeftJob.event = "state" /\ LeftJob.channel = NoChannel
  BY DEF ReadyJob, LeftJob, JoinedJob
<1>2. \A ch : JoinedJob(ch).event = "state" /\ JoinedJob(ch).channel = ch
  BY DEF JoinedJob
<1>3. \A ch, k, m : /\ Connection(ch, k, m).channel = ch
                    /\ Connection(ch, k, m).client = k
                    /\ Connection(ch, k, m).marked = m
  BY DEF Connection
<1>4. NoVoice.channel = NoChannel /\ NoVoice.client = "none" /\ NoVoice.marked = FALSE
  BY DEF NoVoice
<1> QED
  BY <1>1, <1>2, <1>3, <1>4

\* A connection that is marked, or that a client is on its way to.
LEMMA Voiced ==
    ASSUME Coming
    PROVE  /\ voice # NoVoice /\ voice.channel = wanted
           /\ voice.client \in {"none", "connecting", "ready"}
           /\ voice.marked => voice.client = "ready"
           /\ voice.client = "none" => Asked
           /\ voice.client # "none" => InChannel
<1> USE Events
<1>1. CASE Asked
  <2>1. voice.channel = wanted /\ voice.client = "none" /\ voice.marked = FALSE
    BY <1>1 DEF Asked, Connection
  <2>2. wanted # NoChannel
    BY DEF Coming
  <2> QED
    BY <1>1, <2>1, <2>2
<1>2. CASE InChannel
  <2>1. PICK k \in {"connecting", "ready"}, m \in BOOLEAN :
            voice = Connection(wanted, k, m) /\ (m => k = "ready")
    BY <1>2 DEF InChannel
  <2>2. wanted # NoChannel
    BY DEF Coming
  <2>3. voice.channel = wanted /\ voice.client = k /\ voice.marked = m
    BY <2>1
  <2> QED
    BY <1>2, <2>1, <2>2, <2>3
<1> QED
  BY <1>1, <1>2 DEF Coming

\* Discord and the handlers on the way out.
LEMMA GoingOn ==
    ASSUME Going, InOrder', Answer \/ Accept \/ \E i \in DOMAIN jobs : Handle(i)
    PROVE  Going' /\ ~Gone /\ UNCHANGED <<connecting, waiting, voice>> /\ (disconnecting' => disconnecting)
<1> USE Events, Tuples
<1>1. voice = NoVoice /\ voice.client = "none"
  BY DEF Going, Gone
<1>2. "ignored" \notin faults'
  BY DEF InOrder
<1>3. ~Accept
  BY <1>1 DEF Accept
<1>4. CASE Answer
  <2>1. toDiscord # <<>>
    BY <1>4 DEF Answer
  <2>2. /\ toDiscord = <<NoChannel>> /\ jobs = <<>> /\ (disconnecting <=> bot # NoChannel)
    BY <2>1 DEF Going, Gone
  <2>3. Head(toDiscord) = NoChannel /\ toDiscord' = <<>> /\ UNCHANGED <<connecting, disconnecting, waiting>>
    BY <1>4, <2>2 DEF Answer, tables
  <2>4. CASE bot # NoChannel
    <3>1. BotGoesTo(NoChannel)
      BY <1>2, <1>4, <2>3, <2>4 DEF Answer, Fault
    <3>2. bot' = NoChannel /\ voice' = NoVoice /\ jobs' = <<LeftJob>>
      BY <2>2, <3>1 DEF BotGoesTo, LeftJob
    <3> QED
      BY <1>1, <2>1, <2>2, <2>3, <2>4, <3>2 DEF Going, Gone
  <2>5. CASE bot = NoChannel
    <3>1. UNCHANGED <<bot, voice, jobs>>
      BY <1>4, <2>3, <2>5 DEF Answer
    <3> QED
      BY <1>1, <2>1, <2>2, <2>3, <2>5, <3>1 DEF Going, Gone
  <2> QED
    BY <2>4, <2>5
<1>5. CASE \E i \in DOMAIN jobs : Handle(i)
  <2>1. PICK i \in DOMAIN jobs : Handle(i)
    BY <1>5
  <2>2. /\ toDiscord = <<>> /\ jobs = <<LeftJob>> /\ bot = NoChannel
    BY <2>1 DEF Going, Gone
  <2>3. i = 1 /\ jobs[i] = LeftJob
    BY <2>1, <2>2
  <2>4. HandleLeft /\ jobs' = <<>> /\ bot' = bot
    BY <2>1, <2>2, <2>3 DEF Handle
  <2> QED
    BY <1>1, <2>2, <2>4 DEF HandleLeft, Going, Gone
<1> QED
  BY <1>3, <1>4, <1>5

\* Discord answers, while the connection comes.
LEMMA AnsweredComing ==
    ASSUME Coming, InOrder', Answer
    PROVE  /\ Coming' /\ UNCHANGED <<connecting, waiting>>
           /\ voice'.marked = voice.marked
<1> USE Events, Tuples
<1>1. "ignored" \notin faults'
  BY DEF InOrder
<1>2. toDiscord # <<>> /\ toDiscord' = Tail(toDiscord) /\ UNCHANGED <<connecting, disconnecting, waiting, wanted>>
  BY DEF Answer, tables
<1>3. Asked /\ wanted # NoChannel /\ ~disconnecting
  BY <1>2 DEF Coming, InChannel
<1>4. voice = Connection(wanted, "none", FALSE) /\ bot = NoChannel /\ jobs = <<>>
  BY <1>3 DEF Asked
<1>5. CASE toDiscord = <<NoChannel, wanted>>
  <2>1. Head(toDiscord) = bot /\ toDiscord' = <<wanted>>
    BY <1>2, <1>4, <1>5
  <2>2. UNCHANGED <<bot, voice, jobs>>
    BY <2>1 DEF Answer
  <2> QED
    BY <1>2, <1>3, <1>4, <2>1, <2>2 DEF Coming, Asked
<1>6. CASE toDiscord = <<wanted>>
  <2>1. Head(toDiscord) = wanted /\ wanted # bot /\ toDiscord' = <<>>
    BY <1>2, <1>3, <1>4, <1>6
  <2>2. BotGoesTo(wanted)
    BY <1>1, <2>1 DEF Answer, Fault
  <2>3. voice.channel = wanted /\ voice.client = "none"
    BY <1>4 DEF Connection
  <2>4. bot' = wanted /\ voice' = [voice EXCEPT !.client = "connecting"] /\ jobs' = <<JoinedJob(wanted)>>
    BY <1>3, <1>4, <2>2, <2>3 DEF BotGoesTo
  <2>5. voice' = Connection(wanted, "connecting", FALSE)
    BY <1>4, <2>4 DEF Connection
  <2>6. voice'.marked = FALSE /\ voice.marked = FALSE
    BY <1>4, <2>5 DEF Connection
  <2>7. InChannel'
    BY <1>2, <2>1, <2>4, <2>5 DEF InChannel
  <2> QED
    BY <1>2, <1>3, <2>6, <2>7 DEF Coming
<1> QED
  BY <1>3, <1>5, <1>6 DEF Asked

\* The voice server accepts.
LEMMA AcceptedComing ==
    ASSUME Coming, Accept
    PROVE  /\ Coming' /\ UNCHANGED <<connecting, waiting>>
           /\ voice'.marked = voice.marked
<1> USE Events, Tuples
<1>1. InChannel /\ wanted # NoChannel /\ ~disconnecting
  BY Voiced DEF Accept, Coming
<1>2. /\ voice = Connection(wanted, "connecting", FALSE)
      /\ jobs = <<>> \/ jobs = <<JoinedJob(wanted)>>
  BY <1>1 DEF Accept, InChannel, Connection
<1>3. voice' = [voice EXCEPT !.client = "ready"] /\ jobs' = Append(jobs, ReadyJob)
      /\ UNCHANGED <<connecting, disconnecting, waiting, toDiscord, bot, wanted>>
  BY DEF Accept, tables, history
<1>4. voice' = Connection(wanted, "ready", FALSE)
  BY <1>2, <1>3 DEF Connection
<1>5. jobs' = <<ReadyJob>> \/ jobs' = <<JoinedJob(wanted), ReadyJob>>
  <2>1. jobs = <<>> => Append(jobs, ReadyJob) = <<ReadyJob>>
    OBVIOUS
  <2>2. jobs = <<JoinedJob(wanted)>> => Append(jobs, ReadyJob) = <<JoinedJob(wanted), ReadyJob>>
    BY AppendToOne
  <2> QED
    BY <1>2, <1>3, <2>1, <2>2
<1>6. InChannel'
  BY <1>1, <1>3, <1>4, <1>5 DEF InChannel
<1>7. voice'.marked = FALSE /\ voice.marked = FALSE
  BY <1>2, <1>4 DEF Connection
<1> QED
  BY <1>1, <1>3, <1>6, <1>7 DEF Coming

\* The handlers take the events up, the one of the voice client also first.
LEMMA HandledComing ==
    ASSUME Coming, NEW i \in DOMAIN jobs, Handle(i)
    PROVE  /\ Coming' /\ connecting' = NoChannel
           /\ voice.marked => voice'.marked
           /\ waiting' => waiting /\ (voice'.marked => voice.marked)
<1> USE Events, Tuples
<1>1. InChannel /\ wanted # NoChannel /\ ~disconnecting
  <2>1. jobs # <<>>
    OBVIOUS
  <2> QED
    BY <2>1 DEF Coming, Asked
<1>2. /\ bot = wanted /\ toDiscord = <<>>
      /\ UNCHANGED <<bot, wanted>> /\ jobs' = RemoveAt(jobs, i)
  BY <1>1 DEF InChannel, Handle
<1> DEFINE j == JoinedJob(wanted)
<1>5. jobs \in {<<j>>, <<ReadyJob>>, <<j, ReadyJob>>}
  <2>1. jobs # <<>>
    OBVIOUS
  <2> QED
    BY <1>1, <2>1 DEF InChannel
<1>6. j # ReadyJob /\ j # LeftJob
  BY <1>1
<1>7. jobs = <<j>> \/ voice = Connection(wanted, "ready", FALSE)
  <2>1. jobs # <<>>
    OBVIOUS
  <2> QED
    BY <1>1, <2>1 DEF InChannel
<1> HIDE DEF j
<1>8. \/ jobs = <<j>> /\ i = 1 /\ jobs[i] = j
      \/ jobs = <<ReadyJob>> /\ i = 1 /\ jobs[i] = ReadyJob
      \/ jobs = <<j, ReadyJob>> /\ i = 1 /\ jobs[i] = j
      \/ jobs = <<j, ReadyJob>> /\ i = 2 /\ jobs[i] = ReadyJob
  <2>1. jobs = <<j>> => i = 1 /\ jobs[i] = j
    OBVIOUS
  <2>2. jobs = <<ReadyJob>> => i = 1 /\ jobs[i] = ReadyJob
    OBVIOUS
  <2>3. jobs = <<j, ReadyJob>> => (i = 1 /\ jobs[i] = j) \/ (i = 2 /\ jobs[i] = ReadyJob)
    OBVIOUS
  <2> QED
    BY <1>5, <2>1, <2>2, <2>3
<1>9. jobs = <<j>> => jobs[i] = j
  OBVIOUS
<1>3. CASE jobs[i] = ReadyJob
  <2>1. /\ voice = Connection(wanted, "ready", FALSE)
        /\ \/ jobs = <<ReadyJob>> /\ i = 1
           \/ jobs = <<j, ReadyJob>> /\ i = 2
    BY <1>3, <1>6, <1>7, <1>8, <1>9
  <2>2. HandleReady
    BY <1>3 DEF Handle
  <2>3. /\ connecting' = NoChannel /\ waiting' = FALSE /\ UNCHANGED <<disconnecting, toDiscord>>
        /\ voice' = [voice EXCEPT !.marked = @ \/ (voice.client = "ready" /\ ~disconnecting)]
    BY <2>2 DEF HandleReady, ClearsWaiting
  <2>4. voice.client = "ready"
    BY <2>1 DEF Connection
  <2>5. voice' = [voice EXCEPT !.marked = TRUE]
    BY <1>1, <2>3, <2>4
  <2>6. voice' = Connection(wanted, "ready", TRUE)
    BY <2>1, <2>5 DEF Connection
  <2>7. voice'.marked = TRUE
    BY <2>6 DEF Connection
  <2>8. jobs' = <<>> \/ jobs' = <<JoinedJob(wanted)>>
    BY <1>2, <2>1, OneOfTwo DEF j
  <2>9. InChannel'
    BY <1>2, <2>3, <2>6, <2>8 DEF InChannel
  <2> QED
    BY <1>1, <1>2, <2>3, <2>7, <2>9 DEF Coming
<1>4. CASE jobs[i] # ReadyJob
  <2>1. /\ jobs[i] = j /\ i = 1
        /\ jobs = <<j>> \/ jobs = <<j, ReadyJob>>
    BY <1>4, <1>8
  <2>2. HandleJoined
    BY <1>4, <1>6, <2>1 DEF Handle
  <2>3. voice.channel = bot
    BY <1>2, Voiced
  <2>4. /\ connecting' = NoChannel /\ UNCHANGED <<disconnecting, voice, toDiscord>>
        /\ waiting' => waiting
    BY <2>2, <2>3 DEF HandleJoined, ClearsWaiting
  <2>5. ASSUME jobs = <<j>> PROVE InChannel'
    <3>1. jobs' = <<>>
      BY <1>2, <2>1, <2>5
    <3>2. jobs # <<ReadyJob>> /\ jobs # <<j, ReadyJob>>
      BY <1>6, <2>5
    <3>3. \/ voice = Connection(wanted, "connecting", FALSE)
          \/ voice = Connection(wanted, "ready", TRUE)
      BY <1>1, <3>2 DEF InChannel, j
    <3> QED
      BY <1>2, <2>4, <3>1, <3>3 DEF InChannel
  <2>6. ASSUME jobs = <<j, ReadyJob>> PROVE InChannel'
    <3>1. jobs' = <<ReadyJob>>
      BY <1>2, <2>1, <2>6, OneOfTwo
    <3>2. jobs # <<j>>
      BY <2>6
    <3>3. voice = Connection(wanted, "ready", FALSE)
      BY <1>7, <3>2
    <3> QED
      BY <1>2, <2>4, <3>1, <3>3 DEF InChannel
  <2>8. InChannel'
    BY <2>1, <2>5, <2>6
  <2> QED
    BY <1>1, <1>2, <2>4, <2>8 DEF Coming
<1> QED
  BY <1>3, <1>4

----------------------------------------------------------------------------
\* A caller's place holds for it while the connection goes on as it does.
LEMMA WorkGoesOn ==
    ASSUME NEW c \in Callers, AtWork(c), UNCHANGED <<pc, target, wanted>>,
           pc[c] = "leave" => UNCHANGED <<toDiscord, jobs, bot, voice, disconnecting, connecting>>,
           Gone => Gone', Going => Going', Coming => Coming',
           connecting' \in {connecting, NoChannel},
           Going /\ pc[c] \in {"reconnect", "leaving", "connect", "download"} => connecting' = connecting,
           disconnecting' => disconnecting,
           Coming /\ voice.marked => voice'.marked
    PROVE  AtWork(c)'
<1>1. CASE pc[c] = "leave"
  BY <1>1 DEF AtWork, Free
<1>2. CASE pc[c] # "leave"
  <2>1. Agrees => Agrees'
    BY DEF Agrees
  <2>2. Gone => Going
    BY DEF Going
  <2> QED
    BY <1>2, <2>1, <2>2 DEF AtWork
<1> QED
  BY <1>1, <1>2

\* One of the three holds.
LEMMA SomePlace ==
    ASSUME TypeOK, InOrder, InOrderInv
    PROVE  \/ Going
           \/ Coming
           \/ Free /\ \E c \in Callers : pc[c] = "leave"
<1>1. CASE AllIdle
  BY <1>1 DEF InOrderInv, Heading
<1>2. CASE ~AllIdle
  <2>1. PICK c \in Callers : pc[c] # "idle"
    BY <1>2 DEF AllIdle
  <2>2. AtWork(c) /\ pc[c] \in Places
    BY DEF InOrderInv, TypeOK
  <2> QED
    BY <2>1, <2>2 DEF AtWork, Going, Places
<1> QED
  BY <1>1, <1>2

\* A step of the connection alone.
LEMMA PlaceKept ==
    ASSUME TypeOK, InOrder, InOrderInv, UNCHANGED <<pc, target, wanted>>,
           \A c \in Callers : AtWork(c)',
           Going => Going', Coming => Coming',
           connecting = NoChannel => connecting' = NoChannel,
           waiting' => ~voice'.marked
    PROVE  InOrderInv'
<1>1. OneCaller /\ OneCaller'
  BY DEF InOrderInv, OneCaller
<1>2. AllIdle' => AllIdle
  BY DEF AllIdle
<1>3. AllIdle' => Heading' /\ connecting' = NoChannel
  BY <1>2 DEF InOrderInv, Heading
<1> QED
  BY <1>1, <1>3 DEF InOrderInv

\* Discord, the voice server and the handlers.
LEMMA EventsInOrder ==
    ASSUME TypeOK, InOrder, InOrderInv, InOrder',
           Answer \/ Accept \/ \E i \in DOMAIN jobs : Handle(i)
    PROVE  InOrderInv'
<1>1. UNCHANGED <<pc, target, wanted>>
  BY DEF Answer, Accept, Handle, callerVars, history
<1>2. ~Free
  <2> SUFFICES ASSUME Free PROVE FALSE
    OBVIOUS
  <2>1. toDiscord = <<>> /\ jobs = <<>> /\ voice.client # "connecting"
    BY DEF Free, NoVoice, Connection
  <2>2. DOMAIN jobs = {}
    BY <2>1
  <2> QED
    BY <2>1, <2>2 DEF Answer, Accept
<1>3. \A c \in Callers : pc[c] # "leave"
  BY <1>2 DEF InOrderInv, AtWork
<1>4. ~(Going /\ Coming)
  <2>1. Going => voice = NoVoice
    BY DEF Going, Gone
  <2> QED
    BY <2>1, Voiced
<1>5. /\ Gone => Gone'
      /\ Going => Going'
      /\ Coming => Coming'
      /\ connecting' \in {connecting, NoChannel}
      /\ Going => connecting' = connecting
      /\ disconnecting' => disconnecting
      /\ Coming /\ voice.marked => voice'.marked
      /\ waiting' => ~voice'.marked
  <2>1. CASE Going
    <3>1. Going' /\ ~Gone /\ UNCHANGED <<connecting, waiting, voice>> /\ (disconnecting' => disconnecting)
      BY <2>1, GoingOn
    <3> QED
      BY <1>4, <2>1, <3>1 DEF InOrderInv
  <2>2. CASE Coming
    <3>1. ~Going /\ ~Gone /\ ~disconnecting
      BY <1>4, <2>2 DEF Going, Coming
    <3>2. /\ Coming' /\ connecting' \in {connecting, NoChannel}
          /\ voice.marked => voice'.marked
          /\ waiting' => waiting
          /\ voice'.marked => voice.marked \/ ~waiting'
      <4>1. CASE Answer
        BY <2>2, <4>1, AnsweredComing
      <4>2. CASE Accept
        BY <2>2, <4>2, AcceptedComing
      <4>3. CASE \E i \in DOMAIN jobs : Handle(i)
        BY <2>2, <4>3, HandledComing
      <4> QED
        BY <4>1, <4>2, <4>3
    <3>3. ~disconnecting'
      BY <3>2 DEF Coming
    <3> QED
      BY <2>2, <3>1, <3>2, <3>3 DEF InOrderInv
  <2> QED
    BY <1>2, <2>1, <2>2, SomePlace
<1>6. ASSUME NEW c \in Callers PROVE AtWork(c)'
  <2>1. AtWork(c)
    BY DEF InOrderInv
  <2> QED
    BY <1>1, <1>3, <1>5, <2>1, WorkGoesOn
<1>7. connecting = NoChannel => connecting' = NoChannel
  BY <1>5
<1> QED
  BY <1>1, <1>5, <1>6, <1>7, PlaceKept

\* A timer fires when nothing is left that its caller could wait for, so it
\* finds the connection where it is heading for.
LEMMA TimerInOrder ==
    ASSUME TypeOK, InOrder, InOrderInv, InOrder', NEW t \in Timers, TimerFires(t)
    PROVE  InOrderInv'
<1>1. /\ UNCHANGED <<voice, toDiscord, bot, jobs, pc, target, wanted>>
      /\ TimerClears(t) /\ t \in {"disconnecting", "connecting", "waiting"}
  BY DEF TimerFires, Timers, discordVars, callerVars
<1>2. Still
  BY DEF TimerFires, InOrder, Fault
<1>3. toDiscord = <<>> /\ jobs = <<>>
  BY <1>2 DEF Still
<1>4. (Going => ~disconnecting) /\ (Coming => ~disconnecting)
  BY <1>3, Tuples DEF Going, Gone, Coming
<1>5. \A c \in Callers : pc[c] \in {"idle", "search", "joining"}
  <2> SUFFICES ASSUME NEW c \in Callers PROVE pc[c] \in {"idle", "search", "joining"}
    OBVIOUS
  <2>1. AtWork(c)
    BY DEF InOrderInv
  <2>2. \/ pc[c] \in {"idle", "search"}
        \/ pc[c] = "leaving" /\ disconnecting
        \/ pc[c] = "joining"
        \/ pc[c] = "awaiting"
        \/ pc[c] = "gone" /\ disconnecting
    BY <1>2 DEF Still, At
  <2> QED
    BY <1>4, <2>1, <2>2 DEF AtWork
<1>6. Going \/ Coming
  BY <1>5, SomePlace
<1>7. ~disconnecting /\ ~disconnecting'
  BY <1>1, <1>4, <1>6 DEF TimerClears
<1>8. /\ Gone => Gone'
      /\ Going => Going'
      /\ Coming => Coming'
  BY <1>1, <1>7 DEF Going, Gone, Coming, Asked, InChannel
<1>9. connecting' \in {connecting, NoChannel} /\ (waiting' => waiting)
  BY <1>1 DEF TimerClears, ClearsWaiting
<1>10. ASSUME NEW c \in Callers PROVE AtWork(c)'
  <2>1. AtWork(c) /\ pc[c] \in {"idle", "search", "joining"}
    BY <1>5 DEF InOrderInv
  <2> QED
    BY <1>1, <1>7, <1>8, <1>9, <2>1, WorkGoesOn
<1>11. waiting' => ~voice'.marked
  BY <1>1, <1>9 DEF InOrderInv
<1>12. connecting = NoChannel => connecting' = NoChannel
  BY <1>9
<1> QED
  BY <1>1, <1>8, <1>10, <1>11, <1>12, PlaceKept

\* Listeners come and go; the same for a step that changes nothing.
LEMMA NothingInOrder ==
    ASSUME InOrderInv,
           UNCHANGED <<tables, voice, discordVars, callerVars, wanted, disturbed, faults>>
    PROVE  InOrderInv'
<1>1. UNCHANGED <<connecting, disconnecting, waiting, voice, toDiscord, bot, jobs, pc, target,
                  wanted, disturbed, faults>>
  BY DEF tables, discordVars, callerVars
<1>2. /\ InOrder' <=> InOrder
      /\ Gone' <=> Gone
      /\ Going' <=> Going
      /\ Coming' <=> Coming
      /\ Free' <=> Free
      /\ Agrees' <=> Agrees
  BY <1>1 DEF InOrder, Gone, Going, Coming, Asked, InChannel, Free, Agrees
<1>3. ASSUME NEW c \in Callers, AtWork(c) PROVE AtWork(c)'
  BY <1>1, <1>2, <1>3 DEF AtWork
<1>4. /\ OneCaller' <=> OneCaller
      /\ AllIdle' <=> AllIdle
      /\ Heading' <=> Heading
  BY <1>1, <1>2 DEF OneCaller, AllIdle, Heading
<1> QED
  BY <1>1, <1>2, <1>3, <1>4 DEF InOrderInv

----------------------------------------------------------------------------
\* A caller goes on while all others are idle.
LEMMA CallerGoesOn ==
    ASSUME NEW c \in Callers,
           \A d \in Callers : d # c => pc[d] = "idle" /\ target[d] = NoChannel,
           \A d \in Callers : d # c => pc'[d] = pc[d] /\ target'[d] = target[d],
           AtWork(c)',
           pc'[c] = "idle" => Heading' /\ connecting' = NoChannel,
           waiting' => ~voice'.marked
    PROVE  InOrderInv'
<1>1. \A d \in Callers : d # c => pc'[d] = "idle" /\ target'[d] = NoChannel
  OBVIOUS
<1>2. \A d \in Callers : d # c => AtWork(d)'
  BY <1>1 DEF AtWork
<1>3. OneCaller'
  BY <1>1 DEF OneCaller
<1>4. AllIdle' => Heading' /\ connecting' = NoChannel
  BY DEF AllIdle
<1> QED
  BY <1>2, <1>3, <1>4 DEF InOrderInv

\* The others are idle.
LEMMA OthersIdle ==
    ASSUME InOrder, InOrderInv, NEW c \in Callers, pc[c] # "idle"
    PROVE  \A d \in Callers : d # c => pc[d] = "idle" /\ target[d] = NoChannel
<1> SUFFICES ASSUME NEW d \in Callers, d # c
             PROVE  pc[d] = "idle" /\ target[d] = NoChannel
  OBVIOUS
<1>1. pc[d] = "idle"
  BY DEF InOrderInv, OneCaller
<1> QED
  BY <1>1 DEF InOrderInv, AtWork

\* A call in order finds everything at rest.
LEMMA CallInOrder ==
    ASSUME TypeOK, InOrder, InOrderInv, InOrder', NEW c \in Callers, NEW o, Calling(c, o)
    PROVE  /\ \A d \in Callers : pc[d] = "idle" /\ target[d] = NoChannel
           /\ Free /\ bot = wanted /\ ~disconnecting /\ connecting = NoChannel
           /\ wanted # NoChannel => Coming /\ voice.marked /\ ~waiting
           /\ wanted = NoChannel => Gone
           /\ voice # NoVoice <=> wanted # NoChannel
           /\ voice.client # "none" <=> wanted # NoChannel
           /\ voice.channel = wanted
<1> USE Events, Tuples
<1>1. Quiet
  BY DEF Calling, InOrder
<1>2. \A d \in Callers : pc[d] = "idle" /\ target[d] = NoChannel
  <2> SUFFICES ASSUME NEW d \in Callers PROVE pc[d] = "idle" /\ target[d] = NoChannel
    OBVIOUS
  <2>1. AtWork(d)
    BY DEF InOrderInv
  <2>2. pc[d] \in {"idle", "awaiting"}
    BY <1>1 DEF Quiet, At
  <2> QED
    BY <2>1, <2>2 DEF AtWork
<1>3. Heading /\ connecting = NoChannel
  BY <1>2 DEF InOrderInv, AllIdle
<1>4. toDiscord = <<>> /\ jobs = <<>> /\ voice.client # "connecting"
  BY <1>1 DEF Quiet
<1>5. CASE wanted = NoChannel
  <2>1. Gone
    BY <1>3, <1>4, <1>5 DEF Heading, Going
  <2>2. Free
    BY <2>1 DEF Gone, Free
  <2> QED
    BY <1>2, <1>3, <1>5, <2>1, <2>2 DEF Gone
<1>6. CASE wanted # NoChannel
  <2>1. Coming /\ ~disconnecting
    BY <1>3, <1>6 DEF Heading, Coming
  <2>2. voice.client = "ready" /\ InChannel
    <3>1. ~Asked
      BY <1>4 DEF Asked
    <3> QED
      BY <1>4, <2>1, <3>1, Voiced
  <2>3. voice = Connection(wanted, "ready", TRUE)
    <3>1. voice # Connection(wanted, "connecting", FALSE)
      BY <2>2 DEF Connection
    <3>2. jobs # <<ReadyJob>> /\ jobs # <<JoinedJob(wanted), ReadyJob>>
      BY <1>4
    <3> QED
      BY <2>2, <3>1, <3>2 DEF InChannel
  <2>4. voice.marked = TRUE
    BY <2>3 DEF Connection
  <2>5. bot = wanted /\ Free
    BY <1>4, <1>6, <2>2, <2>3 DEF InChannel, Free
  <2>6. ~waiting
    BY <2>4 DEF InOrderInv
  <2> QED
    BY <1>2, <1>3, <1>6, <2>1, <2>2, <2>4, <2>5, <2>6, Voiced
<1> QED
  BY <1>5, <1>6

\* A call that asks for another connection: the tables first.
LEMMA ReconnectInOrder ==
    ASSUME TypeOK, InOrder, InOrderInv, InOrder', NEW c \in Callers, NEW o, Calling(c, o),
           NEW ch \in Channels, NEW from, full_reconnect(c, ch, from),
           from # NoChannel <=> wanted # NoChannel,
           target'[c] \in {NoChannel, ch},
           \A d \in Callers : d # c => target'[d] = target[d]
    PROVE  InOrderInv'
<1>1. /\ \A d \in Callers : pc[d] = "idle" /\ target[d] = NoChannel
      /\ Free /\ bot = wanted /\ ~disconnecting
      /\ wanted # NoChannel => voice.marked /\ ~waiting
      /\ wanted = NoChannel => Gone
      /\ voice # NoVoice <=> wanted # NoChannel
  BY CallInOrder
<1>2. /\ UNCHANGED <<voice, toDiscord, bot, jobs>> /\ wanted' = ch /\ connecting' = ch
      /\ pc' = [pc EXCEPT ![c] = "leave"] /\ SetsWaiting(voice)
      /\ IF from # NoChannel THEN SetsDisconnecting ELSE UNCHANGED disconnecting
  BY DEF full_reconnect, set_reconnect, Goto, discordVars
<1>3. pc'[c] = "leave" /\ \A d \in Callers : d # c => pc'[d] = pc[d]
  BY <1>2 DEF TypeOK
<1>4. disconnecting' <=> bot # NoChannel
  BY <1>1, <1>2 DEF SetsDisconnecting
<1>5. ch # NoChannel
  BY ConstantsAssumption
<1>6. Free'
  BY <1>1, <1>2 DEF Free
<1>7. AtWork(c)'
  BY <1>2, <1>3, <1>4, <1>5, <1>6 DEF AtWork
<1>8. waiting' => ~voice'.marked
  <2>1. CASE wanted = NoChannel
    BY <1>1, <1>2, <2>1, Events DEF Gone
  <2>2. CASE wanted # NoChannel
    <3>1. voice.client = "ready"
      BY <2>2, CallInOrder, Voiced
    <3>2. waiting' = waiting
      BY <1>2, <3>1 DEF SetsWaiting
    <3> QED
      BY <1>1, <2>2, <3>2
  <2> QED
    BY <2>1, <2>2
<1> QED
  BY <1>1, <1>3, <1>7, <1>8, CallerGoesOn

\* The other calls.
LEMMA OtherCallInOrder ==
    ASSUME TypeOK, InOrder, InOrderInv, InOrder', NEW c \in Callers,
           \/ \E ch \in Channels : PlayHere(c, ch) \/ PlayAnew(c, ch)
           \/ Leave(c) \/ Shutdown(c) \/ Marker(c)
    PROVE  InOrderInv'
<1> USE Events, Tuples
<1>0. PICK o : Calling(c, o)
  BY DEF PlayHere, PlayAnew, Leave, Shutdown, Marker
<1>1. /\ \A d \in Callers : pc[d] = "idle" /\ target[d] = NoChannel
      /\ Free /\ bot = wanted /\ ~disconnecting /\ connecting = NoChannel
      /\ wanted # NoChannel => Coming /\ voice.marked /\ ~waiting
      /\ wanted = NoChannel => Gone
      /\ voice # NoVoice <=> wanted # NoChannel
      /\ voice.client # "none" <=> wanted # NoChannel
      /\ voice.channel = wanted
  BY <1>0, CallInOrder
<1>2. NoChannel \notin Channels /\ pc \in [Callers -> Places] /\ target \in [Callers -> ChannelOrNone]
      /\ heard \subseteq Channels
  BY ConstantsAssumption DEF TypeOK
<1>3. waiting => ~voice.marked
  BY DEF InOrderInv
<1>4. ASSUME NEW ch \in Channels, PlayHere(c, ch) PROVE InOrderInv'
  <2>1. /\ UNCHANGED <<connecting, disconnecting, waiting, voice, toDiscord, bot, jobs, target, wanted>>
        /\ pc' = [pc EXCEPT ![c] = "download"] /\ wanted # NoChannel
    BY <1>1, <1>2, <1>4 DEF PlayHere, tables, discordVars, Goto
  <2>2. Coming'
    BY <1>1, <2>1 DEF Coming, Asked, InChannel
  <2>3. pc'[c] = "download" /\ \A d \in Callers : d # c => pc'[d] = pc[d]
    BY <1>2, <2>1
  <2>4. AtWork(c)'
    BY <1>1, <2>1, <2>2, <2>3 DEF AtWork, Agrees
  <2> QED
    BY <1>1, <1>3, <2>1, <2>3, <2>4, CallerGoesOn
<1>5. ASSUME NEW ch \in Channels, PlayAnew(c, ch) PROVE InOrderInv'
  <2>1. bot = NoChannel
    BY <1>1, <1>2, <1>5 DEF PlayAnew
  <2>2. Gone /\ voice = NoVoice
    BY <1>1, <2>1
  <2>3. /\ UNCHANGED <<connecting, disconnecting, waiting, voice, toDiscord, bot, jobs, wanted>>
        /\ pc' = [pc EXCEPT ![c] = "search"] /\ target' = [target EXCEPT ![c] = ch]
    BY <1>5, <2>1, <2>2 DEF PlayAnew, discordVars, Goto
  <2>4. Gone'
    BY <2>2, <2>3 DEF Gone
  <2>5. /\ pc'[c] = "search" /\ target'[c] = ch
        /\ \A d \in Callers : d # c => pc'[d] = pc[d] /\ target'[d] = target[d]
    BY <1>2, <2>3
  <2>6. AtWork(c)'
    BY <1>1, <1>2, <2>3, <2>4, <2>5 DEF AtWork, Agrees
  <2> QED
    BY <1>1, <1>3, <2>3, <2>5, <2>6, CallerGoesOn
<1>6. CASE Leave(c) \/ Shutdown(c)
  <2>1. wanted # NoChannel /\ voice # NoVoice
    BY <1>1, <1>2, <1>6 DEF Leave, Shutdown
  <2>2. /\ UNCHANGED <<connecting, waiting, bot, jobs, target>> /\ wanted' = NoChannel
        /\ SetsDisconnecting /\ DisconnectsVoice
    BY <1>6 DEF Leave, Shutdown, callerVars
  <2>3. /\ disconnecting' = TRUE /\ voice' = NoVoice /\ toDiscord' = <<NoChannel>> /\ jobs' = <<>>
        /\ bot' # NoChannel /\ connecting' = NoChannel
    BY <1>1, <2>1, <2>2 DEF SetsDisconnecting, DisconnectsVoice, Free
  <2>4. Going'
    BY <2>3 DEF Going
  <2>5. pc'[c] \in {"idle", "wait_for_disconnecting"} /\ \A d \in Callers : d # c => pc'[d] = pc[d]
    BY <1>1, <1>2, <1>6 DEF Leave, Shutdown, callerVars, Goto
  <2>6. AtWork(c)'
    BY <1>1, <2>2, <2>3, <2>4, <2>5 DEF AtWork
  <2>7. Heading'
    BY <2>2, <2>4 DEF Heading
  <2>8. ~voice'.marked
    BY <2>3
  <2> QED
    BY <1>1, <2>2, <2>3, <2>5, <2>6, <2>7, <2>8, CallerGoesOn
<1>7. CASE Marker(c)
  <2>1. /\ UNCHANGED <<connecting, disconnecting, waiting, voice, toDiscord, bot, jobs, target, wanted>>
        /\ pc' = [pc EXCEPT ![c] = "wait_for_vc_ready"] /\ wanted # NoChannel
    BY <1>1, <1>7 DEF Marker, tables, discordVars, Goto
  <2>2. Coming'
    BY <1>1, <2>1 DEF Coming, Asked, InChannel
  <2>3. pc'[c] = "wait_for_vc_ready" /\ \A d \in Callers : d # c => pc'[d] = pc[d]
    BY <1>2, <2>1
  <2>4. AtWork(c)'
    BY <1>1, <2>1, <2>2, <2>3 DEF AtWork
  <2> QED
    BY <1>1, <1>3, <2>1, <2>3, <2>4, CallerGoesOn
<1> QED
  BY <1>4, <1>5, <1>6, <1>7

\* Any call.
LEMMA AnyCallInOrder ==
    ASSUME TypeOK, InOrder, InOrderInv, InOrder', NEW c \in Callers, Call(c)
    PROVE  InOrderInv'
<1>1. pc \in [Callers -> Places] /\ target \in [Callers -> ChannelOrNone] /\ voice.channel \in ChannelOrNone
  BY DEF TypeOK
<1>2. ASSUME NEW ch \in Channels, Join(c, ch) \/ Follow(c, ch) PROVE InOrderInv'
  <2>1. /\ Calling(c, "join") \/ Calling(c, "follow")
        /\ full_reconnect(c, ch, bot) \/ full_reconnect(c, ch, voice.channel)
        /\ target' = target
    BY <1>2 DEF Join, Follow
  <2>2. bot = wanted /\ voice.channel = wanted /\ target[c] = NoChannel
    BY <2>1, CallInOrder
  <2> QED
    BY <2>1, <2>2, ReconnectInOrder
<1>3. CASE Rejoin(c)
  <2>1. Calling(c, "rejoin") /\ full_reconnect(c, voice.channel, voice.channel) /\ target' = target /\ voice # NoVoice
    BY <1>3 DEF Rejoin
  <2>2. voice.channel = wanted /\ wanted # NoChannel /\ target[c] = NoChannel
    BY <2>1, CallInOrder
  <2>3. voice.channel \in Channels
    BY <1>1, <2>2 DEF ChannelOrNone
  <2> QED
    BY <2>1, <2>2, <2>3, ReconnectInOrder
<1>4. ASSUME NEW ch \in Channels, PlayThere(c, ch) PROVE InOrderInv'
  <2>1. Calling(c, "play") /\ full_reconnect(c, ch, bot) /\ target' = [target EXCEPT ![c] = ch]
    BY <1>4 DEF PlayThere
  <2>2. bot = wanted
    BY <2>1, CallInOrder
  <2>3. target'[c] = ch /\ \A d \in Callers : d # c => target'[d] = target[d]
    BY <1>1, <2>1
  <2> QED
    BY <2>1, <2>2, <2>3, ReconnectInOrder
<1> QED
  BY <1>2, <1>3, <1>4, OtherCallInOrder DEF Call

\* The steps of a caller that leave the connection alone.
LEMMA WaitsInOrder ==
    ASSUME TypeOK, InOrder, InOrderInv, InOrder', NEW c \in Callers,
           \/ Downloaded(c) \/ ReconnectWaits(c) \/ Left(c) \/ Joined(c)
           \/ wait_for_vc_ready(c) \/ wait_for_disconnecting(c) \/ Waited(c)
    PROVE  InOrderInv'
<1>1. UNCHANGED <<connecting, disconnecting, waiting, voice, toDiscord, bot, jobs, target, wanted>>
  BY DEF Downloaded, ReconnectWaits, Left, Joined, wait_for_vc_ready, wait_for_disconnecting, Waited,
         tables, discordVars, history
<1>2. pc \in [Callers -> Places] /\ target \in [Callers -> ChannelOrNone]
  BY DEF TypeOK
<1>3. /\ pc[c] # "idle" /\ pc[c] # "awaiting"
      /\ AtWork(c) /\ (waiting => ~voice.marked)
  BY DEF Downloaded, ReconnectWaits, Left, Joined, wait_for_vc_ready, wait_for_disconnecting, Waited, At,
         InOrderInv, AtWork
<1>4. /\ Going' <=> Going
      /\ Coming' <=> Coming
      /\ Gone' <=> Gone
      /\ Agrees' <=> Agrees
      /\ Heading' <=> Heading
  BY <1>1 DEF Going, Gone, Coming, Asked, InChannel, Agrees, Heading
<1>5. /\ \A d \in Callers : d # c => pc[d] = "idle" /\ target[d] = NoChannel
      /\ \A d \in Callers : d # c => pc'[d] = pc[d]
  <2>1. \A d \in Callers : d # c => pc[d] = "idle" /\ target[d] = NoChannel
    BY <1>3, OthersIdle
  <2>2. \E p : pc' = [pc EXCEPT ![c] = p]
    BY DEF Downloaded, ReconnectWaits, Left, Joined, wait_for_vc_ready, wait_for_disconnecting, Waited, Goto
  <2> QED
    BY <1>2, <2>1, <2>2
<1>6. Gone => Going
  BY DEF Going
<1>7. waiting' => ~voice'.marked
  BY <1>1, <1>3
<1>8. AtWork(c)' /\ (pc'[c] = "idle" => Heading' /\ connecting' = NoChannel)
  <2>1. CASE Downloaded(c)
    <3>1. pc[c] = "download" /\ pc'[c] = "reconnect"
      BY <1>2, <2>1 DEF Downloaded, At, Goto, InOrder, Fault
    <3> QED
      BY <1>1, <1>3, <1>4, <1>6, <3>1 DEF AtWork
  <2>2. CASE ReconnectWaits(c)
    <3>1. pc[c] = "reconnect" /\ pc'[c] = IF disconnecting THEN "leaving" ELSE "connect"
      BY <1>2, <2>2 DEF ReconnectWaits, At, Goto
    <3> QED
      BY <1>1, <1>3, <1>4, <3>1 DEF AtWork
  <2>3. CASE Left(c)
    <3>1. pc[c] = "leaving" /\ ~disconnecting /\ pc'[c] = "connect"
      BY <1>2, <2>3 DEF Left, At, Goto
    <3> QED
      BY <1>1, <1>3, <1>4, <3>1 DEF AtWork
  <2>4. CASE Joined(c)
    <3>1. pc[c] = "joining" /\ connecting = NoChannel /\ pc'[c] = AfterReconnect(c)
      BY <1>2, <2>4 DEF Joined, At, Goto
    <3>2. Coming /\ wanted # NoChannel /\ target[c] \in {NoChannel, wanted}
      BY <1>3, <3>1 DEF AtWork
    <3> QED
      BY <1>1, <1>3, <1>4, <3>1, <3>2 DEF AtWork, AfterReconnect, Heading, Agrees
  <2>5. CASE wait_for_vc_ready(c)
    <3>1. pc[c] = "wait_for_vc_ready"
      BY <2>5 DEF wait_for_vc_ready, At
    <3>2. Coming /\ voice.marked /\ connecting = NoChannel /\ target[c] = NoChannel
      BY <1>3, <3>1 DEF AtWork
    <3>3. pc'[c] = "idle"
      BY <1>2, <1>3, <2>5, <3>2 DEF wait_for_vc_ready, Goto
    <3>4. wanted # NoChannel
      BY <3>2 DEF Coming
    <3> QED
      BY <1>1, <1>4, <3>2, <3>3, <3>4 DEF AtWork, Heading
  <2>6. CASE wait_for_disconnecting(c) \/ Waited(c)
    <3>1. pc[c] \in {"wait_for_disconnecting", "gone"} /\ pc'[c] \in {"idle", "gone"}
      BY <1>2, <1>3, <2>6 DEF wait_for_disconnecting, Waited, At, Goto
    <3>2. Going /\ wanted = NoChannel /\ connecting = NoChannel /\ target[c] = NoChannel
      BY <1>3, <3>1 DEF AtWork
    <3> QED
      BY <1>1, <1>4, <3>1, <3>2 DEF AtWork, Heading
  <2> QED
    BY <2>1, <2>2, <2>3, <2>4, <2>5, <2>6
<1> QED
  BY <1>1, <1>5, <1>7, <1>8, CallerGoesOn

\* The search is done: the channel the command decided on is asked for.
LEMMA SearchedInOrder ==
    ASSUME TypeOK, InOrder, InOrderInv, InOrder', NEW c \in Callers, Searched(c)
    PROVE  InOrderInv'
<1>1. /\ UNCHANGED <<disconnecting, voice, toDiscord, bot, jobs>>
      /\ connecting' = target[c] /\ wanted' = target[c] /\ SetsWaiting(voice)
      /\ target' = [target EXCEPT ![c] = NoChannel] /\ pc' = [pc EXCEPT ![c] = "download"]
      /\ pc[c] = "search"
  BY DEF Searched, discordVars, At, Goto
<1>2. pc \in [Callers -> Places] /\ target \in [Callers -> ChannelOrNone]
  BY DEF TypeOK
<1>3. target[c] # NoChannel /\ (Gone \/ (Coming /\ wanted = target[c]))
  BY <1>1 DEF InOrderInv, AtWork
<1>4. /\ \A d \in Callers : d # c => pc[d] = "idle" /\ target[d] = NoChannel
      /\ \A d \in Callers : d # c => pc'[d] = pc[d] /\ target'[d] = target[d]
      /\ pc'[c] = "download" /\ target'[c] = NoChannel
  BY <1>1, <1>2, OthersIdle
<1>5. Gone' \/ (Coming' /\ wanted' = wanted)
  BY <1>1, <1>3 DEF Gone, Coming, Asked, InChannel
<1>6. AtWork(c)'
  BY <1>1, <1>3, <1>4, <1>5 DEF AtWork, Agrees
<1>7. waiting' => ~voice'.marked
  <2>1. CASE voice.client = "ready"
    BY <1>1, <2>1 DEF SetsWaiting, InOrderInv
  <2>2. CASE voice.client # "ready"
    <3>1. ~voice.marked
      BY <1>3, <2>2, Voiced, Events DEF Gone
    <3> QED
      BY <1>1, <3>1
  <2> QED
    BY <2>1, <2>2
<1> QED
  BY <1>4, <1>6, <1>7, CallerGoesOn

\* The old connection is given up.
LEMMA DisconnectInOrder ==
    ASSUME TypeOK, InOrder, InOrderInv, InOrder', NEW c \in Callers, disconnect_voice(c)
    PROVE  InOrderInv'
<1> USE Events, Tuples
<1>1. /\ UNCHANGED <<connecting, disconnecting, waiting, bot, jobs, target, wanted>>
      /\ DisconnectsVoice /\ pc' = [pc EXCEPT ![c] = "reconnect"] /\ pc[c] = "leave"
  BY DEF disconnect_voice, tables, history, At, Goto
<1>2. pc \in [Callers -> Places]
  BY DEF TypeOK
<1>3. Free /\ (disconnecting <=> bot # NoChannel) /\ AtWork(c)
  BY <1>1 DEF InOrderInv, AtWork
<1>4. voice' = NoVoice /\ toDiscord' = <<NoChannel>> /\ jobs' = <<>>
  BY <1>1, <1>3 DEF DisconnectsVoice, Free
<1>5. Going'
  BY <1>1, <1>3, <1>4 DEF Going
<1>6. /\ \A d \in Callers : d # c => pc[d] = "idle" /\ target[d] = NoChannel
      /\ \A d \in Callers : d # c => pc'[d] = pc[d]
      /\ pc'[c] = "reconnect"
  BY <1>1, <1>2, OthersIdle
<1>7. AtWork(c)'
  BY <1>1, <1>3, <1>5, <1>6 DEF AtWork
<1>8. ~voice'.marked
  BY <1>4
<1> QED
  BY <1>1, <1>6, <1>7, <1>8, CallerGoesOn

\* The new one is asked for, unless an event or a timer ended the wait before.
LEMMA ConnectInOrder ==
    ASSUME TypeOK, InOrder, InOrderInv, InOrder', NEW c \in Callers, Connect(c)
    PROVE  InOrderInv'
<1> USE Events, Tuples
<1>1. /\ UNCHANGED <<connecting, disconnecting, waiting, bot, jobs, target, wanted>>
      /\ pc[c] = "connect"
      /\ connecting # NoChannel => connect_voice(connecting) /\ pc' = [pc EXCEPT ![c] = "joining"]
      /\ connecting = NoChannel => UNCHANGED <<voice, toDiscord>> /\ pc' = [pc EXCEPT ![c] = AfterReconnect(c)]
  BY DEF Connect, tables, history, At, Goto
<1>2. pc \in [Callers -> Places]
  BY DEF TypeOK
<1>3. /\ (Going /\ connecting = wanted) \/ (Coming /\ Agrees)
      /\ ~disconnecting /\ wanted # NoChannel /\ target[c] \in {NoChannel, wanted}
      /\ AtWork(c) /\ (waiting => ~voice.marked)
  BY <1>1 DEF InOrderInv, AtWork
<1>4. Coming' /\ voice'.marked = voice.marked
  <2>1. CASE Going /\ connecting = wanted
    <3>1. voice = NoVoice /\ voice.channel # wanted
      BY <1>3, <2>1 DEF Going, Gone
    <3>2. voice' = Connection(wanted, "none", FALSE) /\ toDiscord' = Append(toDiscord, wanted)
      BY <1>1, <1>3, <2>1, <3>1 DEF connect_voice
    <3>3. /\ bot = NoChannel /\ jobs = <<>>
          /\ toDiscord = <<>> \/ toDiscord = <<NoChannel>>
      BY <1>3, <2>1 DEF Going, Gone
    <3>4. toDiscord' = <<wanted>> \/ toDiscord' = <<NoChannel, wanted>>
      <4>1. toDiscord = <<>> => Append(toDiscord, wanted) = <<wanted>>
        OBVIOUS
      <4>2. toDiscord = <<NoChannel>> => Append(toDiscord, wanted) = <<NoChannel, wanted>>
        BY AppendToOne
      <4> QED
        BY <3>2, <3>3, <4>1, <4>2
    <3>5. voice'.marked = FALSE
      BY <3>2 DEF Connection
    <3>6. Asked'
      BY <1>1, <3>2, <3>3, <3>4 DEF Asked
    <3> QED
      BY <1>1, <1>3, <3>1, <3>5, <3>6 DEF Coming
  <2>2. CASE Coming /\ Agrees
    <3>1. voice.channel = wanted
      BY <2>2, Voiced
    <3>2. UNCHANGED <<voice, toDiscord>>
      BY <1>1, <2>2, <3>1 DEF Agrees, connect_voice
    <3> QED
      BY <1>1, <2>2, <3>2 DEF Coming, Asked, InChannel
  <2> QED
    BY <1>3, <2>1, <2>2
<1>5. connecting = NoChannel => Coming
  BY <1>3
<1>6. /\ \A d \in Callers : d # c => pc[d] = "idle" /\ target[d] = NoChannel
      /\ \A d \in Callers : d # c => pc'[d] = pc[d]
      /\ pc'[c] = IF connecting # NoChannel THEN "joining" ELSE AfterReconnect(c)
  BY <1>1, <1>2, OthersIdle
<1>7. Agrees'
  BY <1>1, <1>3 DEF Agrees
<1>8. AtWork(c)'
  BY <1>1, <1>3, <1>4, <1>6, <1>7 DEF AtWork, AfterReconnect
<1>9. pc'[c] = "idle" => Heading' /\ connecting' = NoChannel
  BY <1>1, <1>3, <1>4, <1>6 DEF AfterReconnect, Heading
<1>10. waiting' => ~voice'.marked
  BY <1>1, <1>3, <1>4
<1> QED
  BY <1>1, <1>6, <1>8, <1>9, <1>10, CallerGoesOn

----------------------------------------------------------------------------
\* Every step keeps it.
LEMMA StepInOrder ==
    ASSUME TypeOK, InOrderInv, [Next]_vars
    PROVE  InOrderInv'
<1> SUFFICES ASSUME InOrder' PROVE InOrderInv'
  BY DEF InOrderInv
<1>1. ASSUME NEW c \in Callers, Call(c) PROVE InOrder
  <2>1. \E o : Calling(c, o)
    BY <1>1 DEF Call, Join, Rejoin, Follow, PlayHere, PlayThere, PlayAnew, Leave, Shutdown, Marker
  <2> QED
    BY <2>1 DEF Calling, InOrder
<1>2. ASSUME NEW c \in Callers, Proceed(c) PROVE InOrder
  <2>1. disturbed' = disturbed /\ faults \subseteq faults'
    BY <1>2 DEF Proceed, Searched, Downloaded, disconnect_voice, ReconnectWaits, Left, Connect, Joined,
                wait_for_vc_ready, wait_for_disconnecting, Waited, history, Fault
  <2> QED
    BY <2>1 DEF InOrder
<1>3. ASSUME Answer \/ Accept \/ (\E i \in DOMAIN jobs : Handle(i)) \/ (\E t \in Timers : TimerFires(t))
      PROVE  InOrder
  <2>1. disturbed' = disturbed /\ faults \subseteq faults'
    BY <1>3 DEF Answer, Accept, Handle, TimerFires, history, Fault
  <2> QED
    BY <2>1 DEF InOrder
<1>4. ASSUME NEW c \in Callers, Proceed(c) PROVE InOrderInv'
  BY <1>2, <1>4, WaitsInOrder, SearchedInOrder, DisconnectInOrder, ConnectInOrder DEF Proceed
<1>5. \A ch : ~Move(ch)
  BY DEF Move, Fault, InOrder
<1>6. CASE \E ch \in Channels : Listen(ch)
  BY <1>6, NothingInOrder DEF Listen, history
<1>7. CASE UNCHANGED vars
  BY <1>7, NothingInOrder DEF vars, history
<1>8. ASSUME NEW c \in Callers, Call(c) PROVE InOrderInv'
  BY <1>1, <1>8, AnyCallInOrder
<1>9. CASE Answer \/ Accept \/ \E i \in DOMAIN jobs : Handle(i)
  BY <1>3, <1>9, EventsInOrder
<1>10. CASE \E t \in Timers : TimerFires(t)
  BY <1>3, <1>10, TimerInOrder
<1> QED
  BY <1>4, <1>5, <1>6, <1>7, <1>8, <1>9, <1>10 DEF Next

\* Calls that do not overlap do what they were asked to: at rest the bot is in the
\* channel of the last call (set_reconnect, reconnect, run_add_track_thread), the
\* library has the connection to it and the marker that starts the player was put
\* in (handle_on_voice_ready); in whatever order the events are handled, and however
\* many callers and channels there are.
THEOREM AskedGiven == Spec => []AskedIsGiven
<1>1. Init => InOrderInv
  <2> SUFFICES ASSUME Init PROVE InOrderInv
    OBVIOUS
  <2>1. Gone /\ wanted = NoChannel /\ connecting = NoChannel /\ ~waiting
    BY DEF Init, Gone
  <2>2. \A c \in Callers : pc[c] = "idle" /\ target[c] = NoChannel
    BY DEF Init
  <2> QED
    BY <2>1, <2>2 DEF InOrderInv, OneCaller, AtWork, Heading, Going
<1>2. TypeOK /\ InOrderInv /\ [Next]_vars => InOrderInv'
  BY StepInOrder
<1>3. InOrderInv => AskedIsGiven
  <2> SUFFICES ASSUME InOrderInv, Settled, InOrder
               PROVE  /\ bot = wanted
                      /\ voice = IF wanted = NoChannel THEN NoVoice ELSE Connection(wanted, "ready", TRUE)
    BY DEF AskedIsGiven, InOrder
  <2>1. /\ toDiscord = <<>> /\ jobs = <<>> /\ voice.client # "connecting"
        /\ \A c \in Callers : pc[c] \in {"idle", "awaiting"}
    BY DEF Settled, Quiet, At
  <2>2. AllIdle
    BY <2>1 DEF AllIdle, InOrderInv, AtWork
  <2>3. Heading
    BY <2>2 DEF InOrderInv
  <2>4. CASE wanted = NoChannel
    BY <2>1, <2>3, <2>4, Tuples DEF Heading, Going, Gone
  <2>5. CASE wanted # NoChannel
    <3>1. Coming
      BY <2>3, <2>5 DEF Heading
    <3>2. ~Asked
      BY <2>1, Tuples DEF Asked
    <3>3. InChannel
      BY <3>1, <3>2 DEF Coming
    <3>4. voice # Connection(wanted, "connecting", FALSE)
      BY <2>1 DEF Connection
    <3>5. jobs # <<ReadyJob>> /\ jobs # <<JoinedJob(wanted), ReadyJob>>
      BY <2>1, Tuples
    <3> QED
      BY <2>5, <3>3, <3>4, <3>5 DEF InChannel
  <2> QED
    BY <2>4, <2>5
<1> QED
  BY <1>1, <1>2, <1>3, TypeCorrect, PTL DEF Spec

=============================================================================
