------------------------------ MODULE InfoEmbed ------------------------------
(***************************************************************************)
(* The "now playing" message of one player in one text channel: commands,  *)
(* buttons and starting tracks queue operations on it, of which only the   *)
(* last is kept; the main loop runs them with what the player is doing by  *)
(* then, and the answers of Discord name the message that the player       *)
(* remembers (info_message).                                               *)
(*                                                                         *)
(* What a message shows is the number of the player's state.  Something is *)
(* always playing, so that there is something to show.                     *)
(*                                                                         *)
(* Names that Autopause has too begin with Embed or differ, so that one     *)
(* module can be about both: they are two sides of one player.             *)
(*                                                                         *)
(* Definitions named X_<what> are X with a plausible mistake; no           *)
(* specification uses them.                                                *)
(***************************************************************************)
EXTENDS Integers, Sequences, SequencesExt, FiniteSets

CONSTANTS
    Callers,        \* threads that change the player
    Ops,            \* what they do
    Faults,         \* what may go wrong
    MaxChanges,     \* bound: changes of the player's state
    MaxMessages,    \* bound: messages created
    MaxFaults       \* bound: number of kinds of faults

ASSUME EmbedConstants ==
    /\ Ops \subseteq {"command", "button", "start"}
    /\ Faults \subseteq {"overtaken", "deleted"}
    /\ MaxChanges \in Nat
    /\ MaxMessages \in Nat
    /\ MaxFaults \in Nat

VARIABLES
    now,        \* what the player is doing
    info,       \* info_message: the message the player remembers
    op,         \* the operation in embed_q for this player and channel
    place,      \* where each caller is
    pressed,    \* the message of a caller's button
    requests,   \* requests on their way to Discord
    answers,    \* answers on their way back
    posted,     \* messages ever created: what each shows, or Gone
    last,       \* the last message of the channel
    readable,   \* whether the bot may read the channel's history
    disturbed,  \* history: whether calls overlapped with a message's replacement
    faults      \* history: the faults that happened

callerVars  == <<now, place, pressed>>
discordVars == <<requests, answers, posted, last, readable>>
embedHistory == <<disturbed, faults>>
embedVars == <<info, op, callerVars, discordVars, embedHistory>>

NoMessage == 0
Messages == 1..MaxMessages
Gone == -1

\* embed_op_t: create a message, edit one, or answer a button on one.
NoOp == [kind |-> "none", message |-> NoMessage]
Create      == [kind |-> "create", message |-> NoMessage]
Edit(m)     == [kind |-> "edit", message |-> m]
Respond(m)  == [kind |-> "respond", message |-> m]

Showing(o, v) == [kind |-> o.kind, message |-> o.message, shows |-> v]
Delete(m)     == [kind |-> "delete", message |-> m, shows |-> 0]

Live == {m \in DOMAIN posted : posted[m] # Gone}

EmbedInit ==
    /\ now = 0
    /\ info = NoMessage
    /\ op = NoOp
    /\ place = [c \in Callers |-> "idle"]
    /\ pressed = [c \in Callers |-> NoMessage]
    /\ requests = <<>>
    /\ answers = {}
    /\ posted = <<>>
    /\ last = NoMessage
    /\ readable \in BOOLEAN
    /\ disturbed = FALSE
    /\ faults = {}

IsAt(c, where) == place[c] = where
GoesTo(c, where) == place' = [place EXCEPT ![c] = where]

\* What may go wrong: a request overtakes another, somebody deletes the message.
Fault(f) ==
    /\ f \in Faults \ faults
    /\ Cardinality(faults) < MaxFaults
    /\ faults' = faults \cup {f}

Quiet ==
    /\ \A c \in Callers : IsAt(c, "idle")
    /\ op = NoOp
    /\ requests = <<>>
    /\ answers = {}

----------------------------------------------------------------------------
(***************************************************************************)
(* send_info_embed.                                                        *)
(***************************************************************************)

queue_embed_op_Busy(o) == op' = IF requests = <<>> THEN o ELSE op

\* queue_embed_op: the operation replaces the one for the same channel.
queue_embed_op(o) == op' = o

\* delete_info_embed.  The player goes on remembering the message.
\* set_info_message_as_deleted masks the flags it should set, so that a message
\* never counts as deleted.
DeletesInfo ==
    requests' = IF info = NoMessage THEN requests ELSE Append(requests, Delete(info))

\* send_info_embed to update the message: without one to remember there is
\* nothing to do, and without the history a new message replaces it.
UpdatesInfo ==
    IF info = NoMessage THEN UNCHANGED <<op, requests>>
    ELSE IF readable THEN queue_embed_op(Edit(info)) /\ UNCHANGED requests
    ELSE queue_embed_op(Create) /\ DeletesInfo

\* The same for a button, which may be on another message than the player's.
UpdatesPressed(m) ==
    IF info # NoMessage /\ readable
    THEN queue_embed_op(Respond(m)) /\ UNCHANGED requests
    ELSE queue_embed_op(Create) /\ DeletesInfo

----------------------------------------------------------------------------
(***************************************************************************)
(* Callers.  Each first changes the player's state.                        *)
(***************************************************************************)

Replacing ==
    \/ \E c \in Callers : place[c] \in {"started", "send"}
    \/ op.kind = "create"
    \/ \E i \in DOMAIN requests : requests[i].kind \in {"create", "delete"}
    \/ ~(answers \subseteq {info})

Changes(c, o) ==
    /\ IsAt(c, "idle")
    /\ o \in Ops
    /\ now < MaxChanges
    /\ now' = now + 1
    /\ disturbed' = (disturbed \/ Replacing \/ ((o = "start" \/ ~readable) /\ ~Quiet))
    /\ UNCHANGED <<info, op, discordVars, faults>>

CommandChanges(c) ==
    /\ Changes(c, "command")
    /\ GoesTo(c, "update")
    /\ UNCHANGED pressed

Button(c, m) ==
    /\ m \in Live
    /\ Changes(c, "button")
    /\ pressed' = [pressed EXCEPT ![c] = m]
    /\ GoesTo(c, "button")

TrackStarts(c) ==
    /\ Changes(c, "start")
    /\ GoesTo(c, "started")
    /\ UNCHANGED pressed

update_info_embed(c) ==
    /\ IsAt(c, "update")
    /\ UpdatesInfo
    /\ GoesTo(c, "idle")
    /\ UNCHANGED <<now, pressed, info, answers, posted, last, readable, embedHistory>>

button_update(c) ==
    /\ IsAt(c, "button")
    /\ UpdatesPressed(pressed[c])
    /\ pressed' = [pressed EXCEPT ![c] = NoMessage]
    /\ GoesTo(c, "idle")
    /\ UNCHANGED <<now, info, answers, posted, last, readable, embedHistory>>

\* The worker of a track that starts: it updates a message that is the last of
\* the channel, and replaces one that is not.
Started(c) ==
    /\ IsAt(c, "started")
    /\ \/ /\ last = info
          /\ info # NoMessage
          /\ UpdatesInfo
          /\ GoesTo(c, "idle")
       \/ /\ last # info \/ info = NoMessage
          /\ DeletesInfo
          /\ GoesTo(c, "send")
          /\ UNCHANGED op
    /\ UNCHANGED <<now, pressed, info, answers, posted, last, readable, embedHistory>>

send_info_embed(c) ==
    /\ IsAt(c, "send")
    /\ queue_embed_op(Create)
    /\ GoesTo(c, "idle")
    /\ UNCHANGED <<now, pressed, info, discordVars, embedHistory>>

----------------------------------------------------------------------------
(***************************************************************************)
(* The main loop and Discord.                                              *)
(***************************************************************************)

check_embed_op_queue_Again ==
    /\ requests' = Append(requests, Showing(op, now))
    /\ op' = NoOp
    /\ Len(requests) <= 2 * MaxChanges
    /\ UNCHANGED <<callerVars, info, answers, posted, last, readable, embedHistory>>

\* check_embed_op_queue and run_embed_op: the message shows the state of now.
check_embed_op_queue ==
    /\ op # NoOp
    /\ requests' = Append(requests, Showing(op, now))
    /\ op' = NoOp
    /\ UNCHANGED <<callerVars, info, answers, posted, last, readable, embedHistory>>

\* Discord carries out request i.  One on a message that is gone fails.
Serve(i) ==
    LET r == requests[i]
        new == Len(posted) + 1
    IN  /\ requests' = RemoveAt(requests, i)
        /\ IF i = 1 THEN UNCHANGED faults ELSE Fault("overtaken")
        /\ \/ /\ r.kind = "create"
              /\ new <= MaxMessages
              /\ posted' = Append(posted, r.shows)
              /\ last' = new
              /\ answers' = answers \cup {new}
           \/ /\ r.message \in Live
              /\ posted' = [posted EXCEPT ![r.message] = IF r.kind = "delete" THEN Gone ELSE r.shows]
              /\ answers' = IF r.kind = "edit" THEN answers \cup {r.message} ELSE answers
              /\ UNCHANGED last
           \/ /\ r.kind # "create"
              /\ r.message \notin Live
              /\ UNCHANGED <<posted, last, answers>>
        /\ UNCHANGED <<callerVars, info, op, readable, disturbed>>

send_info_embed_cb_First(m) ==
    /\ m \in answers
    /\ info' = IF info = NoMessage THEN m ELSE info
    /\ answers' = answers \ {m}
    /\ UNCHANGED <<callerVars, op, requests, posted, last, readable, embedHistory>>

\* send_info_embed_cb: the player remembers the message of the answer.  The
\* answer to a button's response carries none.
send_info_embed_cb(m) ==
    /\ m \in answers
    /\ info' = m
    /\ answers' = answers \ {m}
    /\ UNCHANGED <<callerVars, op, requests, posted, last, readable, embedHistory>>

\* Somebody writes into the channel.
Chat ==
    /\ last' = NoMessage
    /\ UNCHANGED <<callerVars, info, op, requests, answers, posted, readable, embedHistory>>

\* The permission is given or taken, while nothing goes on.
Permit ==
    /\ Quiet
    /\ readable' = ~readable
    /\ UNCHANGED <<callerVars, info, op, requests, answers, posted, last, embedHistory>>

\* Somebody deletes the message.
UserDeletes(m) ==
    /\ m \in Live
    /\ Fault("deleted")
    /\ posted' = [posted EXCEPT ![m] = Gone]
    /\ UNCHANGED <<callerVars, info, op, requests, answers, last, readable, disturbed>>

CallerProceeds(c) ==
    \/ update_info_embed(c)
    \/ button_update(c)
    \/ Started(c)
    \/ send_info_embed(c)

EmbedNext ==
    \/ \E c \in Callers :
         \/ CommandChanges(c)
         \/ \E m \in Messages : Button(c, m)
         \/ TrackStarts(c)
         \/ CallerProceeds(c)
    \/ check_embed_op_queue
    \/ \E i \in DOMAIN requests : Serve(i)
    \/ \E m \in Messages : send_info_embed_cb(m)
    \/ Chat
    \/ Permit
    \/ \E m \in Messages : UserDeletes(m)

\* Threads run, the main loop goes round, Discord answers.
EmbedFairness ==
    /\ \A c \in Callers : WF_embedVars(CallerProceeds(c))
    /\ WF_embedVars(check_embed_op_queue)
    /\ WF_embedVars(requests # <<>> /\ Serve(1))
    /\ \A m \in Messages : WF_embedVars(send_info_embed_cb(m))

EmbedSpec == EmbedInit /\ [][EmbedNext]_embedVars /\ EmbedFairness

----------------------------------------------------------------------------
\* Every variable keeps its type.
EmbedTypeOK ==
    /\ now \in 0..MaxChanges
    /\ info \in 0..MaxMessages
    /\ op \in [kind : {"none", "create", "edit", "respond"}, message : 0..MaxMessages]
    /\ place \in [Callers -> {"idle", "update", "button", "started", "send"}]
    /\ pressed \in [Callers -> 0..MaxMessages]
    /\ requests \in Seq([kind : {"create", "edit", "respond", "delete"}, message : 0..MaxMessages, shows : 0..MaxChanges])
    /\ answers \subseteq Messages
    /\ posted \in Seq(Gone..MaxChanges)
    /\ Len(posted) <= MaxMessages
    /\ last \in 0..MaxMessages
    /\ readable \in BOOLEAN
    /\ disturbed \in BOOLEAN
    /\ faults \subseteq Faults

\* When nothing is on its way, the message the player remembers shows what the
\* player does, if the message is still there: an operation that was replaced by
\* a later one is made up for by it, as operations read the state when they run.
\* (A change while a new message is on its way may find no message to update.)
KnownIsFresh ==
    Quiet /\ ~disturbed /\ "overtaken" \notin faults /\ info \in Live => posted[info] = now

\* When nothing is on its way there is one message, which the player remembers:
\* each that was replaced is gone.
OneEmbed ==
    Quiet /\ ~disturbed /\ faults = {} => Live = {info} \ {NoMessage}

=============================================================================
