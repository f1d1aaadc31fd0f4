--------------------------- MODULE TrackQueueOps ---------------------------
(***************************************************************************)
(* The track queue of a guild_player_t as pure operators on sequences.     *)
(*                                                                         *)
(* A queue is a sequence of track entries; index 1 here is index 0 of the  *)
(* deque.  An entry carries the four things the queue logic tells apart:   *)
(* the entry's own identity (`key', given when it is first added and kept  *)
(* by every copy), the audio file it plays, the user who added it and the  *)
(* number of times it still has to be repeated.                            *)
(*                                                                         *)
(* shifted_track is kept beside the queue: tracks put on top are pushed in *)
(* front of the one being played, and shifted_track says how many, so that *)
(* reset_shifted can move the playing one back to the front.               *)
(***************************************************************************)
EXTENDS Integers, Sequences, SequencesExt

\* Mutants: definitions named X_<what> are X with a plausible mistake; no
\* specification uses them.

\* reset_shifted: the track at index shifted_track moves to the front.  The
\* caller sets shifted_track to 0.
Settled(q, shifted) ==
    IF q # <<>> /\ shifted > 0
    THEN <<q[shifted + 1]>> \o RemoveAt(q, shifted + 1)
    ELSE q

\* queue.front ().repeat = n, for a queue that may be empty.
FrontRepeat(q, n) ==
    IF q = <<>> THEN q ELSE [q EXCEPT ![1].repeat = n]

\* add_track: where a new entry lands.  `slip' is the position asked for,
\* 1 meaning the top.
OnTop(top, slip) == top \/ slip = 1

Added(q, t, top, slip) ==
    CASE OnTop(top, slip)             -> <<t>> \o q
      [] ~OnTop(top, slip) /\ slip > 1 /\ Len(q) > slip -> InsertAt(q, slip + 1, t)
      [] OTHER                        -> Append(q, t)

ShiftedAfterAdd_Once(q, shifted, top, slip) ==
    IF OnTop(top, slip) /\ q # <<>> THEN 1 ELSE shifted

\* add_track: shifted_track after it; the queue it is compared with already
\* holds the new entry.
ShiftedAfterAdd(q, shifted, top, slip) ==
    IF OnTop(top, slip) /\ shifted < Len(q) THEN shifted + 1 ELSE shifted

----------------------------------------------------------------------------
\* skip_queue.

SongModes  == {"l_song", "l_song_queue"}
QueueModes == {"l_queue", "l_song_queue"}
LoopModes  == {"l_none", "l_song", "l_queue", "l_song_queue"}

\* How many times the loop of skip_queue pops: the amount is clamped, and the
\* playing track is left to the marker handler unless the loop mode keeps it.
PopCount(amount, mode, popCurrent) ==
    LET clamped == CASE amount < 1    -> 1
                     [] amount > 1000 -> 1000
                     [] OTHER         -> amount
    IN  IF popCurrent \/ mode \in SongModes THEN clamped ELSE clamped - 1

Unrepeated(q) == [i \in 1..Len(q) |-> [q[i] EXCEPT !.repeat = 0]]

\* n pops, each popped entry going to the back with no repeat left.
Rotated(q, n) ==
    IF n >= Len(q)
    THEN LET k == n % Len(q)
         IN  Unrepeated(SubSeq(q, k + 1, Len(q)) \o SubSeq(q, 1, k))
    ELSE SubSeq(q, n + 1, Len(q)) \o Unrepeated(SubSeq(q, 1, n))

\* n pops, or as many as there are entries.
Popped(q, n) == SubSeq(q, n + 1, Len(q))

\* skip_queue on a settled queue.
SkippedQueue(q, mode, amount, remove, popCurrent) ==
    LET n == PopCount(amount, mode, popCurrent)
        f == FrontRepeat(q, 0)
    IN  IF f # <<>> /\ ~remove /\ mode \in QueueModes
        THEN Rotated(f, n)
        ELSE Popped(f, n)

----------------------------------------------------------------------------
\* The other commands, on a settled queue; positions count from 0 as in the code.

\* remove_track: NoTo stands for the default argument `to' = -1.
NoTo == -1

RemovedTracks(q, pos, amount, to) ==
    LET asked == IF to # NoTo /\ to > pos THEN to - pos ELSE amount
        last  == IF asked < Len(q) - pos THEN pos + asked ELSE Len(q)
    IN  IF pos = 0 \/ pos >= Len(q) \/ (amount = 0 /\ to = NoTo)
        THEN q
        ELSE SubSeq(q, 1, pos) \o SubSeq(q, last + 1, Len(q))

\* The subsequence of q at the indices I, as a one-element set.
EntriesAt(q, I) ==
    {[i \in 1..Cardinality(I) |-> q[f[i]]] :
        f \in {g \in [1..Cardinality(I) -> I] :
                 \A i, j \in 1..Cardinality(I) : i < j => g[i] < g[j]}}

RemovedUsers_First(q, users) ==
    EntriesAt(q, {i \in 1..Len(q) : q[i].user \notin users})

\* remove_track_by_user: what is left (again a one-element set) when every
\* entry of the users goes, but the first of the queue.
RemovedUsers(q, users) ==
    EntriesAt(q, {i \in 1..Len(q) : i = 1 \/ q[i].user \notin users})

\* shuffle: every order of the entries behind the first.
Shuffles(q) ==
    {[i \in 1..Len(q) |-> q[f[i]]] :
        f \in {g \in [1..Len(q) -> 1..Len(q)] :
                 /\ g[1] = 1
                 /\ \A i, j \in 1..Len(q) : i # j => g[i] # g[j]}}

\* queue_modify_t::m_reverse, over the first `siz' entries only: siz is the
\* size of a snapshot taken before the lock.
ReversedTail(q, siz) == <<q[1]>> \o Reverse(SubSeq(q, 2, siz))

\* The previous-track button: the last entry comes to the front.
LastToFront(q) ==
    LET f == FrontRepeat(q, 0)
    IN  IF f = <<>> THEN f ELSE <<f[Len(f)]>> \o SubSeq(f, 1, Len(f) - 1)

\* The move command: erase at `fr', insert at `to'.
Moved(q, fr, to) == InsertAt(RemoveAt(q, fr + 1), to + 1, q[fr + 1])
=============================================================================
