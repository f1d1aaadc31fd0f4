------------------------- MODULE TrackQueue_proofs -------------------------
(***************************************************************************)
(* What the operators on queues preserve and, from that, type correctness  *)
(* of the track queue, that shifted_track always points into it, that no   *)
(* entry is in it twice, what the saved queue and a restart keep, that a   *)
(* looping queue loses nothing, and that the queue implements a listener's *)
(* playlist; for every number of entries, users, files and commands.       *)
(***************************************************************************)
EXTENDS TrackQueue, SequenceTheorems, FiniteSetTheorems, TLAPS

----------------------------------------------------------------------------
(***************************************************************************)
(* The operators: each of them maps sequences of entries to sequences of   *)
(* entries, of a known length, and none copies an entry or makes one up.   *)
(***************************************************************************)
\* A part of a sequence is a sequence over the same set.
LEMMA SubSeqType ==
    ASSUME NEW S, NEW q \in Seq(S), NEW m \in Nat \ {0}, NEW n \in Int, n <= Len(q)
    PROVE  /\ SubSeq(q, m, n) \in Seq(S)
           /\ Len(SubSeq(q, m, n)) = IF m <= n THEN n - m + 1 ELSE 0
<1>1. \A i \in m..n : q[i] \in S
  BY ElementOfSeq
<1> QED
  BY <1>1, SubSeqProperties

\* Two sequences one behind the other.
LEMMA ConcatType ==
    ASSUME NEW S, NEW s \in Seq(S), NEW t \in Seq(S)
    PROVE  s \o t \in Seq(S) /\ Len(s \o t) = Len(s) + Len(t)
  BY ConcatProperties

\* An entry behind the first of the two keeps its place in the second.
LEMMA ConcatBehind ==
    ASSUME NEW S, NEW s \in Seq(S), NEW t \in Seq(S), NEW k \in 1..Len(t)
    PROVE  (s \o t)[Len(s) + k] = t[k]
<1>1. Len(s) \in Nat /\ Len(t) \in Nat
  BY LenProperties
<1> DEFINE j == Len(s) + k
<1>2. j \in 1..(Len(s) + Len(t)) /\ ~(j <= Len(s)) /\ j - Len(s) = k
  BY <1>1
<1> HIDE DEF j
<1>3. (s \o t)[j] = t[j - Len(s)]
  BY <1>2, ConcatProperties
<1> QED
  BY <1>2, <1>3 DEF j

\* Removing an entry at a position inside the queue.
LEMMA RemoveAtType ==
    ASSUME NEW S, NEW q \in Seq(S), NEW i \in 1..Len(q)
    PROVE  /\ RemoveAt(q, i) \in Seq(S)
           /\ Len(RemoveAt(q, i)) = Len(q) - 1
<1> DEFINE a == SubSeq(q, 1, i - 1)
           b == SubSeq(q, i + 1, Len(q))
<1>1. RemoveAt(q, i) = a \o b
  BY DEF RemoveAt
<1>2. a \in Seq(S) /\ Len(a) = i - 1
  BY SubSeqType
<1>3. b \in Seq(S) /\ Len(b) = Len(q) - i
  BY SubSeqType
<1>4. Len(q) \in Nat
  BY LenProperties
<1> HIDE DEF a, b
<1> QED
  BY <1>1, <1>2, <1>3, <1>4, ConcatType

\* Inserting an entry inside the queue or at its end.
LEMMA InsertAtType ==
    ASSUME NEW S, NEW q \in Seq(S), NEW i \in 1..(Len(q) + 1), NEW e \in S
    PROVE  /\ InsertAt(q, i, e) \in Seq(S)
           /\ Len(InsertAt(q, i, e)) = Len(q) + 1
<1> DEFINE a == SubSeq(q, 1, i - 1)
           b == SubSeq(q, i, Len(q))
           c == <<e>>
<1>1. InsertAt(q, i, e) = (a \o c) \o b
  BY DEF InsertAt
<1>2. a \in Seq(S) /\ Len(a) = i - 1
  BY SubSeqType
<1>3. b \in Seq(S) /\ Len(b) = Len(q) - i + 1
  BY SubSeqType
<1>4. c \in Seq(S) /\ Len(c) = 1
  OBVIOUS
<1>5. Len(q) \in Nat
  BY LenProperties
<1> HIDE DEF a, b, c
<1>6. a \o c \in Seq(S) /\ Len(a \o c) = i
  <2>1. a \o c \in Seq(S) /\ Len(a \o c) = Len(a) + Len(c)
    BY <1>2, <1>4, ConcatType
  <2> QED
    BY <2>1, <1>2, <1>4, <1>5
<1>7. /\ (a \o c) \o b \in Seq(S)
      /\ Len((a \o c) \o b) = Len(a \o c) + Len(b)
  BY <1>3, <1>6, ConcatType
<1> QED
  BY <1>1, <1>3, <1>5, <1>6, <1>7

\* reset_shifted reorders the queue when shifted_track points into it.
LEMMA SettledType ==
    ASSUME NEW S, NEW q \in Seq(S), NEW n \in Nat, n = 0 \/ n < Len(q)
    PROVE  /\ Settled(q, n) \in Seq(S)
           /\ Len(Settled(q, n)) = Len(q)
<1>1. CASE q # <<>> /\ n > 0
  <2>1. n + 1 \in 1..Len(q)
    BY <1>1, LenProperties
  <2>2. /\ <<q[n + 1]>> \in Seq(S)
        /\ Len(<<q[n + 1]>>) = 1
    BY <2>1, ElementOfSeq
  <2>3. /\ RemoveAt(q, n + 1) \in Seq(S)
        /\ Len(RemoveAt(q, n + 1)) = Len(q) - 1
    BY <2>1, RemoveAtType
  <2> QED
    BY <1>1, <2>2, <2>3, ConcatProperties, LenProperties DEF Settled
<1>2. CASE ~(q # <<>> /\ n > 0)
  BY <1>2 DEF Settled
<1> QED
  BY <1>1, <1>2

\* reset_shifted leaves the entries behind the shifted one where they are.
LEMMA SettledKeeps ==
    ASSUME NEW S, NEW q \in Seq(S), NEW n \in Nat, NEW j \in 1..Len(q), n = 0 \/ n + 1 < j
    PROVE  Settled(q, n)[j] = q[j]
<1>1. CASE q # <<>> /\ n > 0
  <2> DEFINE m == n + 1
             k == j - m
             a == SubSeq(q, 1, m - 1)
             b == SubSeq(q, m + 1, Len(q))
             c == <<q[m]>>
  <2>1. Len(q) \in Nat /\ m \in 1..Len(q) /\ k \in 1..(Len(q) - m) /\ m + 1 \in Nat \ {0}
    BY <1>1, LenProperties
  <2>2. Settled(q, n) = c \o (a \o b)
    BY <1>1 DEF Settled, RemoveAt
  <2>3. j = m + k
    BY <2>1
  <2> HIDE DEF m, k
  <2>4. a \in Seq(S) /\ Len(a) = m - 1
    BY <2>1, SubSeqType
  <2>5. b \in Seq(S) /\ Len(b) = Len(q) - m
    BY <2>1, SubSeqType
  <2>6. c \in Seq(S) /\ Len(c) = 1
    BY <2>1, ElementOfSeq
  <2>7. b[k] = q[m + k]
    <3>1. \A i \in (m + 1)..Len(q) : q[i] \in S
      BY <2>1, ElementOfSeq
    <3>2. k \in 1..(Len(q) - (m + 1) + 1) /\ (m + 1) + k - 1 = m + k
      BY <2>1
    <3> QED
      BY <2>1, <3>1, <3>2, SubSeqProperties
  <2> HIDE DEF a, b, c
  <2>8. a \o b \in Seq(S) /\ Len(a \o b) = Len(q) - 1 /\ (a \o b)[(m - 1) + k] = b[k]
    <3>1. a \o b \in Seq(S) /\ Len(a \o b) = Len(a) + Len(b)
      BY <2>4, <2>5, ConcatType
    <3>2. (m - 1) + Len(b) = Len(q) - 1 /\ k \in 1..Len(b) /\ Len(a) + Len(b) = Len(q) - 1
      BY <2>1, <2>4, <2>5
    <3>3. (a \o b)[Len(a) + k] = b[k]
      BY <2>4, <2>5, <3>2, ConcatBehind
    <3> QED
      BY <2>4, <3>1, <3>2, <3>3
  <2>9. (c \o (a \o b))[1 + ((m - 1) + k)] = (a \o b)[(m - 1) + k]
    <3>1. (m - 1) + k \in 1..Len(a \o b)
      BY <2>1, <2>8
    <3> DEFINE d == a \o b
               l == (m - 1) + k
    <3> HIDE DEF d, l
    <3>2. d \in Seq(S) /\ l \in 1..Len(d)
      BY <2>8, <3>1 DEF d, l
    <3>3. (c \o d)[Len(c) + l] = d[l]
      BY <2>6, <3>2, ConcatBehind
    <3> QED
      BY <2>6, <3>3 DEF d, l
  <2>10. 1 + ((m - 1) + k) = m + k
    BY <2>1
  <2> QED
    BY <2>2, <2>3, <2>7, <2>8, <2>9, <2>10
<1>2. CASE ~(q # <<>> /\ n > 0)
  BY <1>2 DEF Settled
<1> QED
  BY <1>1, <1>2

\* add_track makes the queue one entry longer and keeps shifted_track inside.
LEMMA AddedType ==
    ASSUME NEW S, NEW q \in Seq(S), NEW t \in S, NEW n \in Nat, n = 0 \/ n < Len(q),
           NEW top \in BOOLEAN, NEW slip \in Nat
    PROVE  /\ Added(q, t, top, slip) \in Seq(S)
           /\ Len(Added(q, t, top, slip)) = Len(q) + 1
           /\ ShiftedAfterAdd(q, n, top, slip) \in Nat
           /\ ShiftedAfterAdd(q, n, top, slip) < Len(q) + 1
<1>1. Len(q) \in Nat
  BY LenProperties
<1>2. ShiftedAfterAdd(q, n, top, slip) \in Nat /\ ShiftedAfterAdd(q, n, top, slip) < Len(q) + 1
  BY <1>1 DEF ShiftedAfterAdd
<1>3. CASE OnTop(top, slip)
  <2>1. <<t>> \in Seq(S) /\ Len(<<t>>) = 1
    OBVIOUS
  <2>2. /\ <<t>> \o q \in Seq(S)
        /\ Len(<<t>> \o q) = Len(q) + 1
    BY <2>1, <1>1, ConcatProperties
  <2> QED
    BY <1>2, <1>3, <2>2 DEF Added
<1>4. CASE ~OnTop(top, slip) /\ slip > 1 /\ Len(q) > slip
  <2>1. slip + 1 \in 1..(Len(q) + 1)
    BY <1>1, <1>4
  <2> QED
    BY <1>2, <1>4, <2>1, InsertAtType DEF Added
<1>5. CASE ~OnTop(top, slip) /\ ~(slip > 1 /\ Len(q) > slip)
  BY <1>2, <1>5, AppendProperties DEF Added
<1> QED
  BY <1>3, <1>4, <1>5

\* Setting the repeat count of the first entry.
LEMMA FrontRepeatType ==
    ASSUME NEW S, NEW q \in Seq(S), NEW n, \A t \in S : [t EXCEPT !.repeat = n] \in S
    PROVE  /\ FrontRepeat(q, n) \in Seq(S)
           /\ Len(FrontRepeat(q, n)) = Len(q)
<1>1. CASE q = <<>>
  BY <1>1 DEF FrontRepeat
<1>2. CASE q # <<>>
  <2>1. 1 \in 1..Len(q)
    BY <1>2, EmptySeq, LenProperties
  <2> DEFINE e == [q[1] EXCEPT !.repeat = n]
  <2>2. e \in S
    BY <2>1, ElementOfSeq
  <2>3. FrontRepeat(q, n) = [q EXCEPT ![1] = e]
    BY <1>2 DEF FrontRepeat
  <2> HIDE DEF e
  <2> QED
    BY <2>1, <2>2, <2>3, ExceptSeq
<1> QED
  BY <1>1, <1>2

\* Clearing the repeat counts.
LEMMA UnrepeatedType ==
    ASSUME NEW S, NEW q \in Seq(S), \A t \in S : [t EXCEPT !.repeat = 0] \in S
    PROVE  /\ Unrepeated(q) \in Seq(S)
           /\ Len(Unrepeated(q)) = Len(q)
<1>1. Len(q) \in Nat
  BY LenProperties
<1>2. \A i \in 1..Len(q) : [q[i] EXCEPT !.repeat = 0] \in S
  BY ElementOfSeq
<1> QED
  BY <1>1, <1>2 DEF Unrepeated

\* Popping entries off the front.
LEMMA PoppedType ==
    ASSUME NEW S, NEW q \in Seq(S), NEW n \in Nat
    PROVE  Popped(q, n) \in Seq(S)
<1>1. Len(q) \in Nat
  BY LenProperties
<1> QED
  BY <1>1, SubSeqType DEF Popped

\* Popping entries off the front and adding them at the back, once or, when
\* more are popped than there are, several times over.
LEMMA RotatedType ==
    ASSUME NEW S, NEW q \in Seq(S), q # <<>>, NEW n \in Nat,
           \A t \in S : [t EXCEPT !.repeat = 0] \in S
    PROVE  Rotated(q, n) \in Seq(S)
<1>1. Len(q) \in Nat /\ Len(q) > 0
  BY EmptySeq, LenProperties
<1>2. CASE n >= Len(q)
  <2> DEFINE k == n % Len(q)
             a == SubSeq(q, k + 1, Len(q))
             b == SubSeq(q, 1, k)
  <2>1. k \in 0..(Len(q) - 1)
    BY <1>1
  <2>2. a \in Seq(S) /\ b \in Seq(S)
    <3> HIDE DEF k
    <3> QED
      BY <2>1, <1>1, SubSeqType
  <2>3. Rotated(q, n) = Unrepeated(a \o b)
    BY <1>2 DEF Rotated
  <2> HIDE DEF a, b
  <2>4. a \o b \in Seq(S)
    BY <2>2, ConcatType
  <2> QED
    BY <2>3, <2>4, UnrepeatedType
<1>3. CASE ~(n >= Len(q))
  <2> DEFINE a == SubSeq(q, n + 1, Len(q))
             b == SubSeq(q, 1, n)
  <2>1. a \in Seq(S) /\ b \in Seq(S)
    BY <1>1, <1>3, SubSeqType
  <2>2. Rotated(q, n) = a \o Unrepeated(b)
    BY <1>3 DEF Rotated
  <2> HIDE DEF a, b
  <2>3. Unrepeated(b) \in Seq(S)
    BY <2>1, UnrepeatedType
  <2> QED
    BY <2>1, <2>2, <2>3, ConcatType
<1> QED
  BY <1>2, <1>3

\* skip_queue.
LEMMA SkippedQueueType ==
    ASSUME NEW S, NEW q \in Seq(S), NEW mode, NEW amount \in Int,
           NEW remove \in BOOLEAN, NEW popCurrent \in BOOLEAN,
           \A t \in S : [t EXCEPT !.repeat = 0] \in S
    PROVE  SkippedQueue(q, mode, amount, remove, popCurrent) \in Seq(S)
<1> DEFINE n == PopCount(amount, mode, popCurrent)
           f == FrontRepeat(q, 0)
<1>1. n \in Nat
  <2>1. CASE amount < 1
    BY <2>1 DEF PopCount
  <2>2. CASE amount > 1000
    BY <2>2 DEF PopCount
  <2>3. CASE ~(amount < 1) /\ ~(amount > 1000)
    BY <2>3 DEF PopCount
  <2> QED
    BY <2>1, <2>2, <2>3
<1>2. f \in Seq(S)
  BY FrontRepeatType
<1>3. SkippedQueue(q, mode, amount, remove, popCurrent)
        = IF f # <<>> /\ ~remove /\ mode \in QueueModes THEN Rotated(f, n) ELSE Popped(f, n)
  BY DEF SkippedQueue
<1> HIDE DEF n, f
<1>4. f # <<>> => Rotated(f, n) \in Seq(S)
  BY <1>1, <1>2, RotatedType
<1>5. Popped(f, n) \in Seq(S)
  BY <1>1, <1>2, PoppedType
<1> QED
  BY <1>3, <1>4, <1>5

\* remove_track.
LEMMA RemovedTracksType ==
    ASSUME NEW S, NEW q \in Seq(S), NEW pos \in Nat, NEW amount \in Nat, NEW to \in Int
    PROVE  RemovedTracks(q, pos, amount, to) \in Seq(S)
<1> DEFINE wanted == IF to # NoTo /\ to > pos THEN to - pos ELSE amount
           last  == IF wanted < Len(q) - pos THEN pos + wanted ELSE Len(q)
           a     == SubSeq(q, 1, pos)
           b     == SubSeq(q, last + 1, Len(q))
<1>1. Len(q) \in Nat
  BY LenProperties
<1>2. CASE pos = 0 \/ pos >= Len(q) \/ (amount = 0 /\ to = NoTo)
  BY <1>2 DEF RemovedTracks
<1>3. CASE ~(pos = 0 \/ pos >= Len(q) \/ (amount = 0 /\ to = NoTo))
  <2>1. last \in Nat
    BY <1>1
  <2>2. RemovedTracks(q, pos, amount, to) = a \o b
    BY <1>3 DEF RemovedTracks
  <2> HIDE DEF last
  <2>3. a \in Seq(S)
    BY <1>1, <1>3, SubSeqType
  <2>4. b \in Seq(S)
    BY <1>1, <2>1, SubSeqType
  <2> HIDE DEF a, b
  <2> QED
    BY <2>2, <2>3, <2>4, ConcatType
<1> QED
  BY <1>2, <1>3

\* A selection of the entries of a queue.
LEMMA EntriesAtType ==
    ASSUME NEW S, NEW q \in Seq(S), NEW I \in SUBSET (1..Len(q))
    PROVE  EntriesAt(q, I) \subseteq Seq(S)
<1> DEFINE n == Cardinality(I)
<1>1. n \in Nat
  <2>1. Len(q) \in Int
    BY LenProperties
  <2>2. IsFiniteSet(1..Len(q))
    BY <2>1, FS_Interval
  <2>3. IsFiniteSet(I)
    BY <2>2, FS_Subset
  <2> QED
    BY <2>3, FS_CardinalityType
<1> SUFFICES ASSUME NEW f \in [1..n -> I]
             PROVE  [i \in 1..n |-> q[f[i]]] \in Seq(S)
  BY DEF EntriesAt
<1> HIDE DEF n
<1>2. \A i \in 1..n : q[f[i]] \in S
  BY ElementOfSeq
<1> QED
  BY <1>1, <1>2

\* remove_track_by_user.
LEMMA RemovedUsersType ==
    ASSUME NEW S, NEW q \in Seq(S), NEW users
    PROVE  RemovedUsers(q, users) \subseteq Seq(S)
  BY EntriesAtType DEF RemovedUsers

\* shuffle.
LEMMA ShufflesType ==
    ASSUME NEW S, NEW q \in Seq(S)
    PROVE  Shuffles(q) \subseteq Seq(S)
<1>1. Len(q) \in Nat
  BY LenProperties
<1> SUFFICES ASSUME NEW f \in [1..Len(q) -> 1..Len(q)]
             PROVE  [i \in 1..Len(q) |-> q[f[i]]] \in Seq(S)
  BY DEF Shuffles
<1>2. \A i \in 1..Len(q) : q[f[i]] \in S
  BY ElementOfSeq
<1> QED
  BY <1>1, <1>2

\* The reversed queue.
LEMMA ReversedTailType ==
    ASSUME NEW S, NEW q \in Seq(S), NEW siz \in 1..Len(q)
    PROVE  ReversedTail(q, siz) \in Seq(S)
<1> DEFINE a == SubSeq(q, 2, siz)
           b == Reverse(a)
           c == <<q[1]>>
<1>1. Len(q) \in Nat
  BY LenProperties
<1>2. a \in Seq(S)
  BY <1>1, SubSeqType
<1>3. b \in Seq(S)
  <2> HIDE DEF a
  <2>1. Len(a) \in Nat
    BY <1>2, LenProperties
  <2>2. \A i \in 1..Len(a) : a[(Len(a) - i) + 1] \in S
    BY <1>2, <2>1, ElementOfSeq
  <2> QED
    BY <2>1, <2>2 DEF Reverse
<1>4. c \in Seq(S)
  BY <1>1, ElementOfSeq
<1>5. ReversedTail(q, siz) = c \o b
  BY DEF ReversedTail
<1> HIDE DEF a, b, c
<1> QED
  BY <1>3, <1>4, <1>5, ConcatType

\* The previous-track button.
LEMMA LastToFrontType ==
    ASSUME NEW S, NEW q \in Seq(S), \A t \in S : [t EXCEPT !.repeat = 0] \in S
    PROVE  LastToFront(q) \in Seq(S)
<1> DEFINE f == FrontRepeat(q, 0)
           a == <<f[Len(f)]>>
           b == SubSeq(f, 1, Len(f) - 1)
<1>1. f \in Seq(S)
  BY FrontRepeatType
<1>2. LastToFront(q) = IF f = <<>> THEN f ELSE a \o b
  BY DEF LastToFront
<1> HIDE DEF f
<1>3. CASE f = <<>>
  BY <1>1, <1>2, <1>3
<1>4. CASE f # <<>>
  <2>1. Len(f) \in Nat \ {0}
    BY <1>1, <1>4, EmptySeq
  <2>2. a \in Seq(S)
    BY <1>1, <2>1, ElementOfSeq
  <2>3. b \in Seq(S)
    BY <1>1, <2>1, SubSeqType
  <2>4. LastToFront(q) = a \o b
    BY <1>2, <1>4
  <2> HIDE DEF a, b
  <2> QED
    BY <2>2, <2>3, <2>4, ConcatType
<1> QED
  BY <1>3, <1>4

\* The move command.
LEMMA MovedType ==
    ASSUME NEW S, NEW q \in Seq(S), NEW fr \in 1..(Len(q) - 1), NEW to \in 1..(Len(q) - 1)
    PROVE  /\ Moved(q, fr, to) \in Seq(S)
           /\ Len(Moved(q, fr, to)) = Len(q)
<1> DEFINE r == RemoveAt(q, fr + 1)
<1>1. Len(q) \in Nat
  BY LenProperties
<1>2. r \in Seq(S) /\ Len(r) = Len(q) - 1
  BY <1>1, RemoveAtType
<1>3. q[fr + 1] \in S
  BY <1>1, ElementOfSeq
<1>4. Moved(q, fr, to) = InsertAt(r, to + 1, q[fr + 1])
  BY DEF Moved
<1> HIDE DEF r
<1>5. to + 1 \in 1..(Len(r) + 1)
  BY <1>1, <1>2
<1> QED
  BY <1>1, <1>2, <1>3, <1>4, <1>5, InsertAtType

----------------------------------------------------------------------------
(***************************************************************************)
(* Where the entries of a result come from.  r is From the indices I of q  *)
(* when every entry of r has the key and the file of an entry of q at an   *)
(* index of its own in I: nothing is copied, and nothing comes from        *)
(* elsewhere.                                                              *)
(***************************************************************************)
\* What no operation changes of an entry.
Id(t) == <<t.key, t.file>>

LEMMA IdKey == \A t, u : Id(t) = Id(u) => t.key = u.key /\ t.file = u.file
  BY DEF Id

From(r, q, I) ==
    \E f \in [1..Len(r) -> I] :
        /\ \A i, j \in 1..Len(r) : f[i] = f[j] => i = j
        /\ \A i \in 1..Len(r) : Id(r[i]) = Id(q[f[i]])

All(q) == 1..Len(q)

\* f tells which entry each is drawn from.
LEMMA DrawnBy ==
    ASSUME NEW r, NEW q, NEW I, NEW f \in [1..Len(r) -> I],
           \A i, j \in 1..Len(r) : f[i] = f[j] => i = j,
           \A i \in 1..Len(r) : Id(r[i]) = Id(q[f[i]])
    PROVE  From(r, q, I)
  BY DEF From

\* Two counts that end the same range are the same.
LEMMA SameCount ==
    ASSUME NEW m \in Nat, NEW n \in Nat, 1..m = 1..n
    PROVE  m = n
<1>1. CASE m = 0
  <2>1. 1 \notin 1..n
    BY <1>1
  <2> QED
    BY <1>1, <2>1
<1>2. CASE m > 0
  <2>1. m \in 1..n
    BY <1>2
  <2>2. n \in 1..m
    BY <2>1
  <2> QED
    BY <2>1, <2>2
<1> QED
  BY <1>1, <1>2

\* The keys of a queue are pairwise different.
Distinct(q) == \A i, j \in 1..Len(q) : q[i].key = q[j].key => i = j

\* A result drawn from a queue of different keys has different keys, which are
\* keys of the queue.
LEMMA FromDistinct ==
    ASSUME NEW q, NEW r, From(r, q, All(q)), Distinct(q)
    PROVE  /\ Distinct(r)
           /\ \A i \in 1..Len(r) : \E j \in 1..Len(q) : r[i].key = q[j].key
<1>1. PICK f \in [1..Len(r) -> 1..Len(q)] :
             /\ \A i, j \in 1..Len(r) : f[i] = f[j] => i = j
             /\ \A i \in 1..Len(r) : Id(r[i]) = Id(q[f[i]])
  BY DEF From, All
<1>2. \A i \in 1..Len(r) : f[i] \in 1..Len(q) /\ r[i].key = q[f[i]].key
  BY <1>1, IdKey
<1>3. ASSUME NEW i \in 1..Len(r), NEW j \in 1..Len(r), r[i].key = r[j].key
      PROVE  i = j
  <2>1. q[f[i]].key = q[f[j]].key
    BY <1>2, <1>3
  <2>2. f[i] = f[j]
    BY <1>2, <2>1 DEF Distinct
  <2> QED
    BY <1>1, <2>2
<1>4. \A i \in 1..Len(r) : \E j \in 1..Len(q) : r[i].key = q[j].key
  BY <1>2
<1> QED
  BY <1>3, <1>4 DEF Distinct

\* What comes from some indices comes from more of them.
LEMMA FromWider ==
    ASSUME NEW q, NEW r, NEW I, NEW J, From(r, q, I), I \subseteq J
    PROVE  From(r, q, J)
  BY DEF From

\* From is transitive.
LEMMA FromTrans ==
    ASSUME NEW q, NEW r, NEW s, NEW I, From(s, r, All(r)), From(r, q, I)
    PROVE  From(s, q, I)
<1>1. PICK f \in [1..Len(s) -> 1..Len(r)] :
             /\ \A i, j \in 1..Len(s) : f[i] = f[j] => i = j
             /\ \A i \in 1..Len(s) : Id(s[i]) = Id(r[f[i]])
  BY DEF From, All
<1>2. PICK g \in [1..Len(r) -> I] :
             /\ \A i, j \in 1..Len(r) : g[i] = g[j] => i = j
             /\ \A i \in 1..Len(r) : Id(r[i]) = Id(q[g[i]])
  BY DEF From
<1> DEFINE h == [i \in 1..Len(s) |-> g[f[i]]]
<1>3. \A i \in 1..Len(s) : f[i] \in 1..Len(r) /\ h[i] = g[f[i]]
  BY <1>1
<1>4. h \in [1..Len(s) -> I]
  BY <1>2, <1>3
<1> HIDE DEF h
<1>5. /\ \A i, j \in 1..Len(s) : h[i] = h[j] => i = j
      /\ \A i \in 1..Len(s) : Id(s[i]) = Id(q[h[i]])
  BY <1>1, <1>2, <1>3
<1> QED
  BY <1>4, <1>5 DEF From

\* The same keys at the same places.
LEMMA FromSame ==
    ASSUME NEW q, NEW r, Len(r) = Len(q), \A i \in 1..Len(q) : Id(r[i]) = Id(q[i])
    PROVE  From(r, q, All(q))
<1> DEFINE f == [i \in 1..Len(r) |-> i]
<1>1. f \in [1..Len(r) -> All(q)] /\ \A i \in 1..Len(r) : f[i] = i
  BY DEF All
<1> HIDE DEF f
<1> QED
  BY <1>1 DEF From

\* The empty sequence, and a sequence of one entry.
LEMMA FromFew ==
    /\ \A q, I : From(<<>>, q, I)
    /\ \A q, i, e : Id(e) = Id(q[i]) => From(<<e>>, q, {i})
<1>1. ASSUME NEW q, NEW I PROVE From(<<>>, q, I)
  <2> DEFINE f == [i \in 1..Len(<<>>) |-> i]
  <2>1. 1..Len(<<>>) = {}
    OBVIOUS
  <2>2. f \in [1..Len(<<>>) -> I]
    BY <2>1
  <2> HIDE DEF f
  <2> QED
    BY <2>1, <2>2 DEF From
<1>2. ASSUME NEW q, NEW k, NEW e, Id(e) = Id(q[k]) PROVE From(<<e>>, q, {k})
  <2> DEFINE f == [i \in 1..Len(<<e>>) |-> k]
  <2>1. 1..Len(<<e>>) = {1} /\ <<e>>[1] = e
    OBVIOUS
  <2>2. f \in [1..Len(<<e>>) -> {k}] /\ f[1] = k
    BY <2>1
  <2> HIDE DEF f
  <2> QED
    BY <1>2, <2>1, <2>2 DEF From
<1> QED
  BY <1>1, <1>2

\* A part of a sequence.
LEMMA FromSubSeq ==
    ASSUME NEW S, NEW q \in Seq(S), NEW m \in Nat \ {0}, NEW n \in Int, n <= Len(q)
    PROVE  From(SubSeq(q, m, n), q, m..n)
<1> DEFINE s == SubSeq(q, m, n)
           f == [i \in 1..Len(s) |-> m + i - 1]
<1>1. \A i \in m..n : q[i] \in S
  BY ElementOfSeq
<1>2. Len(s) = IF m <= n THEN n - m + 1 ELSE 0
  BY SubSeqType
<1>3. \A i \in 1..(n - m + 1) : s[i] = q[m + i - 1]
  BY <1>1, SubSeqProperties
<1> HIDE DEF s
<1>4. f \in [1..Len(s) -> m..n]
  BY <1>2
<1>5. /\ \A i, j \in 1..Len(s) : f[i] = f[j] => i = j
      /\ \A i \in 1..Len(s) : Id(s[i]) = Id(q[f[i]])
  BY <1>2, <1>3
<1> QED
  BY <1>4, <1>5 DEF From, s

\* Two results from different places of the queue, one behind the other.
LEMMA FromConcat ==
    ASSUME NEW S, NEW a \in Seq(S), NEW b \in Seq(S), NEW q, NEW I, NEW J,
           From(a, q, I), From(b, q, J), I \cap J = {}
    PROVE  From(a \o b, q, I \cup J)
<1> DEFINE r == a \o b
           m == Len(a)
           n == Len(b)
<1>1. m \in Nat /\ n \in Nat
  BY LenProperties
<1>2. /\ Len(r) = m + n
      /\ \A i \in 1..Len(r) : r[i] = IF i <= m THEN a[i] ELSE b[i - m]
  BY ConcatProperties
<1>3. PICK f \in [1..m -> I] : /\ \A i, j \in 1..m : f[i] = f[j] => i = j
                               /\ \A i \in 1..m : Id(a[i]) = Id(q[f[i]])
  BY DEF From
<1>4. PICK g \in [1..n -> J] : /\ \A i, j \in 1..n : g[i] = g[j] => i = j
                               /\ \A i \in 1..n : Id(b[i]) = Id(q[g[i]])
  BY DEF From
<1> HIDE DEF r, m, n
<1> DEFINE h == [i \in 1..Len(r) |-> IF i <= m THEN f[i] ELSE g[i - m]]
<1>5. \A i \in 1..Len(r) : \/ i <= m /\ i \in 1..m /\ h[i] = f[i] /\ h[i] \in I
                           \/ ~(i <= m) /\ i - m \in 1..n /\ h[i] = g[i - m] /\ h[i] \in J
  BY <1>1, <1>2, <1>3, <1>4
<1>6. h \in [1..Len(r) -> I \cup J]
  BY <1>5
<1> HIDE DEF h
<1>7. ASSUME NEW i \in 1..Len(r), NEW j \in 1..Len(r), h[i] = h[j]
      PROVE  i = j
  <2>1. CASE i <= m /\ j <= m
    BY <1>3, <1>5, <1>7, <2>1
  <2>2. CASE ~(i <= m) /\ ~(j <= m)
    <3>1. i - m = j - m
      BY <1>4, <1>5, <1>7, <2>2
    <3> QED
      BY <1>1, <1>2, <3>1
  <2>3. CASE (i <= m) # (j <= m)
    BY <1>5, <1>7, <2>3
  <2> QED
    BY <2>1, <2>2, <2>3
<1>8. \A i \in 1..Len(r) : Id(r[i]) = Id(q[h[i]])
  BY <1>2, <1>3, <1>4, <1>5
<1> QED
  BY <1>6, <1>7, <1>8 DEF From, r

\* A longer queue behind the one drawn from.
LEMMA FromLonger ==
    ASSUME NEW S, NEW q \in Seq(S), NEW b \in Seq(S), NEW r, NEW I \in SUBSET All(q),
           From(r, q, I)
    PROVE  From(r, q \o b, I)
<1>1. \A i \in All(q) : (q \o b)[i] = q[i]
  BY ConcatProperties, LenProperties DEF All
<1>2. PICK f \in [1..Len(r) -> I] : /\ \A i, j \in 1..Len(r) : f[i] = f[j] => i = j
                                    /\ \A i \in 1..Len(r) : Id(r[i]) = Id(q[f[i]])
  BY DEF From
<1>3. \A i \in 1..Len(r) : f[i] \in All(q)
  BY <1>2
<1>4. \A i \in 1..Len(r) : Id(r[i]) = Id((q \o b)[f[i]])
  BY <1>1, <1>2, <1>3
<1> QED
  BY <1>2, <1>4 DEF From

\* Two queues of different keys that have no key in common.
LEMMA DistinctConcat ==
    ASSUME NEW S, NEW a \in Seq(S), NEW b \in Seq(S), Distinct(a), Distinct(b),
           \A i \in 1..Len(a), j \in 1..Len(b) : a[i].key # b[j].key
    PROVE  /\ Distinct(a \o b)
           /\ \A i \in 1..Len(a \o b) :
                 \/ \E j \in 1..Len(a) : (a \o b)[i] = a[j]
                 \/ \E j \in 1..Len(b) : (a \o b)[i] = b[j]
<1> DEFINE r == a \o b
           m == Len(a)
           n == Len(b)
<1>1. m \in Nat /\ n \in Nat
  BY LenProperties
<1>2. /\ Len(r) = m + n
      /\ \A i \in 1..Len(r) : r[i] = IF i <= m THEN a[i] ELSE b[i - m]
  BY ConcatProperties
<1>3. /\ \A i, j \in 1..m : a[i].key = a[j].key => i = j
      /\ \A i, j \in 1..n : b[i].key = b[j].key => i = j
      /\ \A i \in 1..m, j \in 1..n : a[i].key # b[j].key
  BY DEF Distinct
<1> HIDE DEF r, m, n
<1>4. \A i \in 1..Len(r) : \/ i <= m /\ i \in 1..m /\ r[i] = a[i]
                           \/ ~(i <= m) /\ i - m \in 1..n /\ r[i] = b[i - m]
  BY <1>1, <1>2
<1>5. ASSUME NEW i \in 1..Len(r), NEW j \in 1..Len(r), r[i].key = r[j].key
      PROVE  i = j
  <2>1. CASE i <= m /\ j <= m
    BY <1>3, <1>4, <1>5, <2>1
  <2>2. CASE ~(i <= m) /\ ~(j <= m)
    <3>1. i - m = j - m
      BY <1>3, <1>4, <1>5, <2>2
    <3> QED
      BY <1>1, <1>2, <3>1
  <2>3. CASE (i <= m) # (j <= m)
    BY <1>3, <1>4, <1>5, <2>3
  <2> QED
    BY <2>1, <2>2, <2>3
<1> QED
  BY <1>4, <1>5 DEF Distinct, r, m, n

----------------------------------------------------------------------------
(***************************************************************************)
(* No operator on queues copies an entry or makes one up.                  *)
(***************************************************************************)
\* The entries before, at and behind an index.
LEMMA FromRemoveAt ==
    ASSUME NEW S, NEW q \in Seq(S), NEW i \in 1..Len(q)
    PROVE  From(RemoveAt(q, i), q, All(q) \ {i})
<1> DEFINE a == SubSeq(q, 1, i - 1)
           b == SubSeq(q, i + 1, Len(q))
<1>1. Len(q) \in Nat
  BY LenProperties
<1>2. a \in Seq(S) /\ From(a, q, 1..(i - 1))
  BY <1>1, SubSeqType, FromSubSeq
<1>3. b \in Seq(S) /\ From(b, q, (i + 1)..Len(q))
  BY <1>1, SubSeqType, FromSubSeq
<1>4. RemoveAt(q, i) = a \o b
  BY DEF RemoveAt
<1> HIDE DEF a, b
<1> DEFINE I == 1..(i - 1)
           J == (i + 1)..Len(q)
<1>5. I \cap J = {} /\ I \cup J \subseteq All(q) \ {i}
  BY <1>1 DEF All
<1> HIDE DEF I, J
<1>6. From(a \o b, q, I \cup J)
  BY <1>2, <1>3, <1>5, FromConcat DEF I, J
<1> QED
  BY <1>4, <1>5, <1>6, FromWider

\* reset_shifted.
LEMMA FromSettled ==
    ASSUME NEW S, NEW q \in Seq(S), NEW n \in Nat, n = 0 \/ n < Len(q)
    PROVE  From(Settled(q, n), q, All(q))
<1>1. CASE q # <<>> /\ n > 0
  <2> DEFINE m == n + 1
             a == <<q[m]>>
             b == RemoveAt(q, m)
  <2>1. m \in 1..Len(q)
    BY <1>1, LenProperties
  <2>2. Settled(q, n) = a \o b
    BY <1>1 DEF Settled
  <2> HIDE DEF m
  <2>3. a \in Seq(S) /\ From(a, q, {m})
    BY <2>1, ElementOfSeq, FromFew
  <2>4. b \in Seq(S) /\ From(b, q, All(q) \ {m})
    BY <2>1, RemoveAtType, FromRemoveAt
  <2> HIDE DEF a, b
  <2> DEFINE J == All(q) \ {m}
  <2>5. {m} \cap J = {} /\ {m} \cup J = All(q)
    BY <2>1 DEF All
  <2> HIDE DEF J
  <2> QED
    BY <2>2, <2>3, <2>4, <2>5, FromConcat DEF J
<1>2. CASE ~(q # <<>> /\ n > 0)
  BY <1>2, FromSame DEF Settled
<1> QED
  BY <1>1, <1>2

\* Inserting t: every entry of the result is one of q with t behind it.
LEMMA FromInsertAt ==
    ASSUME NEW S, NEW q \in Seq(S), NEW i \in 1..(Len(q) + 1), NEW t \in S
    PROVE  From(InsertAt(q, i, t), q \o <<t>>, All(q \o <<t>>))
<1> DEFINE a == SubSeq(q, 1, i - 1)
           b == SubSeq(q, i, Len(q))
           c == <<t>>
           p == q \o c
           k == Len(q) + 1
<1>1. Len(q) \in Nat
  BY LenProperties
<1>2. a \in Seq(S) /\ From(a, q, 1..(i - 1))
  BY <1>1, SubSeqType, FromSubSeq
<1>3. b \in Seq(S) /\ From(b, q, i..Len(q))
  BY <1>1, SubSeqType, FromSubSeq
<1>4. c \in Seq(S) /\ Len(c) = 1 /\ c[1] = t
  OBVIOUS
<1>5. InsertAt(q, i, t) = (a \o c) \o b
  BY DEF InsertAt
<1> HIDE DEF a, b
<1> DEFINE I == 1..(i - 1)
           J == i..Len(q)
<1>6. I \subseteq All(q) /\ J \subseteq All(q) /\ I \cap {k} = {}
      /\ (I \cup {k}) \cap J = {} /\ (I \cup {k}) \cup J = 1..k
  BY <1>1 DEF All
<1>7. Len(p) = k /\ p[k] = t
  <2> HIDE DEF c
  <2>1. Len(q \o c) = Len(q) + 1
    BY <1>4, ConcatType
  <2>2. (q \o c)[Len(q) + 1] = c[1]
    <3> DEFINE one == 1
    <3>1. one \in 1..Len(c)
      BY <1>4
    <3> HIDE DEF one
    <3>2. (q \o c)[Len(q) + one] = c[one]
      BY <1>4, <3>1, ConcatBehind
    <3> QED
      BY <3>2 DEF one
  <2> QED
    BY <1>4, <2>1, <2>2
<1>8. From(a, p, I) /\ From(b, p, J)
  <2> HIDE DEF c, I, J
  <2> QED
    BY <1>2, <1>3, <1>4, <1>6, FromLonger DEF I, J
<1>9. From(c, p, {k})
  <2> HIDE DEF p, k
  <2> QED
    BY <1>7, FromFew
<1> HIDE DEF c, p, k, I, J
<1>10. a \o c \in Seq(S)
  BY <1>2, <1>4, ConcatType
<1>11. From(a \o c, p, I \cup {k})
  BY <1>2, <1>4, <1>6, <1>8, <1>9, FromConcat
<1> DEFINE ac == a \o c
           IK == I \cup {k}
<1>12. From(ac \o b, p, IK \cup J)
  <2> HIDE DEF ac, IK
  <2> QED
    BY <1>3, <1>6, <1>8, <1>10, <1>11, FromConcat DEF ac, IK
<1> QED
  BY <1>5, <1>6, <1>7, <1>12 DEF All, p, c

\* add_track, wherever the new entry lands.
LEMMA FromAdded ==
    ASSUME NEW S, NEW q \in Seq(S), NEW t \in S, NEW top \in BOOLEAN, NEW slip \in Nat
    PROVE  From(Added(q, t, top, slip), q \o <<t>>, All(q \o <<t>>))
<1>1. Len(q) \in Nat
  BY LenProperties
<1>2. CASE OnTop(top, slip)
  <2>1. InsertAt(q, 1, t) = <<t>> \o q
    <3>1. SubSeq(q, 1, 0) = <<>> /\ SubSeq(q, 1, Len(q)) = q
      BY SubSeqEmpty, SubSeqFull
    <3>2. InsertAt(q, 1, t) = SubSeq(q, 1, 0) \o <<t>> \o SubSeq(q, 1, Len(q))
      BY DEF InsertAt
    <3>3. <<>> \o <<t>> = <<t>>
      OBVIOUS
    <3> QED
      BY <3>1, <3>2, <3>3
  <2>2. 1 \in 1..(Len(q) + 1)
    BY <1>1
  <2> QED
    BY <1>2, <2>1, <2>2, FromInsertAt DEF Added
<1>3. CASE ~OnTop(top, slip) /\ slip > 1 /\ Len(q) > slip
  <2>1. slip + 1 \in 1..(Len(q) + 1)
    BY <1>1, <1>3
  <2> QED
    BY <1>3, <2>1, FromInsertAt DEF Added
<1>4. CASE ~OnTop(top, slip) /\ ~(slip > 1 /\ Len(q) > slip)
  <2>1. Added(q, t, top, slip) = Append(q, t)
    BY <1>4 DEF Added
  <2>2. Append(q, t) = q \o <<t>>
    BY AppendIsConcat
  <2> QED
    BY <2>1, <2>2, FromSame
<1> QED
  BY <1>2, <1>3, <1>4

\* Setting the repeat count of the first entry keeps every key.
LEMMA FromFrontRepeat ==
    ASSUME NEW S, NEW q \in Seq(S), NEW n,
           \A t \in S : [t EXCEPT !.repeat = n] \in S /\ Id([t EXCEPT !.repeat = n]) = Id(t)
    PROVE  From(FrontRepeat(q, n), q, All(q))
<1>1. CASE q = <<>>
  BY <1>1, FromSame DEF FrontRepeat
<1>2. CASE q # <<>>
  <2>1. 1 \in 1..Len(q)
    BY <1>2, EmptySeq, LenProperties
  <2> DEFINE e == [q[1] EXCEPT !.repeat = n]
  <2>2. e \in S /\ Id(e) = Id(q[1])
    BY <2>1, ElementOfSeq
  <2>3. FrontRepeat(q, n) = [q EXCEPT ![1] = e]
    BY <1>2 DEF FrontRepeat
  <2> HIDE DEF e
  <2>4. /\ Len(FrontRepeat(q, n)) = Len(q)
        /\ \A i \in 1..Len(q) : FrontRepeat(q, n)[i] = IF i = 1 THEN e ELSE q[i]
    BY <2>1, <2>2, <2>3, ExceptSeq
  <2> QED
    BY <2>2, <2>4, FromSame
<1> QED
  BY <1>1, <1>2

\* Clearing the repeat counts keeps every key.
LEMMA FromUnrepeated ==
    ASSUME NEW S, NEW q \in Seq(S),
           \A t \in S : [t EXCEPT !.repeat = 0] \in S /\ Id([t EXCEPT !.repeat = 0]) = Id(t)
    PROVE  From(Unrepeated(q), q, All(q))
<1>1. \A i \in 1..Len(q) : q[i] \in S /\ Unrepeated(q)[i] = [q[i] EXCEPT !.repeat = 0]
  BY ElementOfSeq DEF Unrepeated
<1>2. Len(Unrepeated(q)) = Len(q)
  BY UnrepeatedType
<1> QED
  BY <1>1, <1>2, FromSame

\* The pops of skip_queue.
LEMMA FromPopped ==
    ASSUME NEW S, NEW q \in Seq(S), NEW n \in Nat
    PROVE  From(Popped(q, n), q, All(q))
<1>1. Len(q) \in Nat /\ (n + 1)..Len(q) \subseteq All(q)
  BY LenProperties DEF All
<1>2. From(SubSeq(q, n + 1, Len(q)), q, (n + 1)..Len(q))
  BY <1>1, FromSubSeq
<1> QED
  BY <1>1, <1>2, FromWider DEF Popped

LEMMA FromRotated ==
    ASSUME NEW S, NEW q \in Seq(S), q # <<>>, NEW n \in Nat,
           \A t \in S : [t EXCEPT !.repeat = 0] \in S /\ Id([t EXCEPT !.repeat = 0]) = Id(t)
    PROVE  From(Rotated(q, n), q, All(q))
<1>1. Len(q) \in Nat /\ Len(q) > 0
  BY EmptySeq, LenProperties
<1>2. ASSUME NEW k \in 0..Len(q)
      PROVE  LET a == SubSeq(q, k + 1, Len(q))
                 b == SubSeq(q, 1, k)
             IN  /\ a \in Seq(S) /\ From(a, q, (k + 1)..Len(q))
                 /\ b \in Seq(S) /\ From(b, q, 1..k)
                 /\ ((k + 1)..Len(q)) \cap (1..k) = {}
                 /\ ((k + 1)..Len(q)) \cup (1..k) = All(q)
  <2>1. k + 1 \in Nat \ {0} /\ k <= Len(q)
    BY <1>1
  <2>2. SubSeq(q, k + 1, Len(q)) \in Seq(S) /\ SubSeq(q, 1, k) \in Seq(S)
    BY <1>1, <2>1, SubSeqType
  <2>3. From(SubSeq(q, k + 1, Len(q)), q, (k + 1)..Len(q)) /\ From(SubSeq(q, 1, k), q, 1..k)
    <3> DEFINE m == k + 1
    <3>1. m \in Nat \ {0} /\ k \in Int /\ 1 \in Nat \ {0}
      BY <1>1, <2>1
    <3> HIDE DEF m
    <3>2. From(SubSeq(q, 1, k), q, 1..k)
      BY <2>1, <3>1, FromSubSeq
    <3>3. From(SubSeq(q, m, Len(q)), q, m..Len(q))
      BY <1>1, <3>1, FromSubSeq
    <3> QED
      BY <3>2, <3>3 DEF m
  <2>4. ((k + 1)..Len(q)) \cap (1..k) = {} /\ ((k + 1)..Len(q)) \cup (1..k) = All(q)
    BY <1>1, <2>1 DEF All
  <2> QED
    BY <2>2, <2>3, <2>4
<1>3. CASE n >= Len(q)
  <2> DEFINE k == n % Len(q)
             a == SubSeq(q, k + 1, Len(q))
             b == SubSeq(q, 1, k)
             I == (k + 1)..Len(q)
             J == 1..k
  <2>1. k \in 0..Len(q)
    BY <1>1
  <2>2. Rotated(q, n) = Unrepeated(a \o b)
    BY <1>3 DEF Rotated
  <2> HIDE DEF k
  <2>3. /\ a \in Seq(S) /\ From(a, q, I)
        /\ b \in Seq(S) /\ From(b, q, J)
        /\ I \cap J = {} /\ I \cup J = All(q)
    BY <1>2, <2>1
  <2> HIDE DEF a, b, I, J
  <2>4. a \o b \in Seq(S) /\ From(a \o b, q, All(q))
    BY <2>3, ConcatType, FromConcat
  <2> DEFINE c == a \o b
  <2> HIDE DEF c
  <2>5. From(Unrepeated(c), c, All(c))
    BY <2>4, FromUnrepeated DEF c
  <2>6. From(c, q, All(q))
    BY <2>4 DEF c
  <2>7. From(Unrepeated(c), q, All(q))
    BY <2>5, <2>6, FromTrans
  <2> QED
    BY <2>2, <2>7 DEF c
<1>4. CASE ~(n >= Len(q))
  <2> DEFINE a == SubSeq(q, n + 1, Len(q))
             b == SubSeq(q, 1, n)
             I == (n + 1)..Len(q)
             J == 1..n
  <2>1. n \in 0..Len(q)
    BY <1>1, <1>4
  <2>2. Rotated(q, n) = a \o Unrepeated(b)
    BY <1>4 DEF Rotated
  <2>3. /\ a \in Seq(S) /\ From(a, q, I)
        /\ b \in Seq(S) /\ From(b, q, J)
        /\ I \cap J = {} /\ I \cup J = All(q)
    BY <1>2, <2>1
  <2> HIDE DEF a, b, I, J
  <2>4. Unrepeated(b) \in Seq(S) /\ From(Unrepeated(b), q, J)
    <3>1. From(Unrepeated(b), b, All(b))
      BY <2>3, FromUnrepeated
    <3> QED
      BY <2>3, <3>1, UnrepeatedType, FromTrans
  <2> DEFINE c == Unrepeated(b)
  <2> HIDE DEF c
  <2>5. From(a \o c, q, I \cup J)
    BY <2>3, <2>4, FromConcat DEF c
  <2> QED
    BY <2>2, <2>3, <2>5 DEF c
<1> QED
  BY <1>3, <1>4

\* skip_queue.
LEMMA FromSkippedQueue ==
    ASSUME NEW S, NEW q \in Seq(S), NEW mode, NEW amount \in Int,
           NEW remove \in BOOLEAN, NEW popCurrent \in BOOLEAN,
           \A t \in S : [t EXCEPT !.repeat = 0] \in S /\ Id([t EXCEPT !.repeat = 0]) = Id(t)
    PROVE  From(SkippedQueue(q, mode, amount, remove, popCurrent), q, All(q))
<1> DEFINE n == PopCount(amount, mode, popCurrent)
           f == FrontRepeat(q, 0)
           r == IF f # <<>> /\ ~remove /\ mode \in QueueModes THEN Rotated(f, n) ELSE Popped(f, n)
<1>1. n \in Nat
  <2>1. CASE amount < 1
    BY <2>1 DEF PopCount
  <2>2. CASE amount > 1000
    BY <2>2 DEF PopCount
  <2>3. CASE ~(amount < 1) /\ ~(amount > 1000)
    BY <2>3 DEF PopCount
  <2> QED
    BY <2>1, <2>2, <2>3
<1>2. f \in Seq(S) /\ From(f, q, All(q))
  BY FrontRepeatType, FromFrontRepeat
<1>3. SkippedQueue(q, mode, amount, remove, popCurrent) = r
  BY DEF SkippedQueue
<1> HIDE DEF n, f
<1>4. f # <<>> => From(Rotated(f, n), f, All(f))
  BY <1>1, <1>2, FromRotated
<1>5. From(Popped(f, n), f, All(f))
  BY <1>1, <1>2, FromPopped
<1>6. From(r, f, All(f))
  BY <1>4, <1>5
<1> HIDE DEF r
<1> QED
  BY <1>2, <1>3, <1>6, FromTrans

\* remove_track.
LEMMA FromRemovedTracks ==
    ASSUME NEW S, NEW q \in Seq(S), NEW pos \in Nat, NEW amount \in Nat, NEW to \in Int
    PROVE  From(RemovedTracks(q, pos, amount, to), q, All(q))
<1> DEFINE wanted == IF to # NoTo /\ to > pos THEN to - pos ELSE amount
           last  == IF wanted < Len(q) - pos THEN pos + wanted ELSE Len(q)
           a     == SubSeq(q, 1, pos)
           b     == SubSeq(q, last + 1, Len(q))
           I     == 1..pos
           J     == (last + 1)..Len(q)
<1>1. Len(q) \in Nat
  BY LenProperties
<1>2. CASE pos = 0 \/ pos >= Len(q) \/ (amount = 0 /\ to = NoTo)
  BY <1>2, FromSame DEF RemovedTracks
<1>3. CASE ~(pos = 0 \/ pos >= Len(q) \/ (amount = 0 /\ to = NoTo))
  <2>1. last \in Nat /\ last >= pos
    BY <1>1, <1>3
  <2>2. RemovedTracks(q, pos, amount, to) = a \o b
    BY <1>3 DEF RemovedTracks
  <2> HIDE DEF last
  <2>3. a \in Seq(S) /\ From(a, q, I)
    BY <1>1, <1>3, SubSeqType, FromSubSeq
  <2>4. b \in Seq(S) /\ From(b, q, J)
    BY <1>1, <2>1, SubSeqType, FromSubSeq
  <2>5. I \cap J = {} /\ I \cup J \subseteq All(q)
    BY <1>1, <1>3, <2>1 DEF All
  <2> HIDE DEF a, b, I, J
  <2>6. From(a \o b, q, I \cup J)
    BY <2>3, <2>4, <2>5, FromConcat
  <2> QED
    BY <2>2, <2>5, <2>6, FromWider
<1> QED
  BY <1>2, <1>3

\* A selection of the entries of a queue: its places are in increasing order.
LEMMA FromEntriesAt ==
    ASSUME NEW S, NEW q \in Seq(S), NEW I \in SUBSET (1..Len(q)), NEW r \in EntriesAt(q, I)
    PROVE  From(r, q, All(q))
<1> DEFINE n == Cardinality(I)
<1>1. n \in Nat
  <2>1. Len(q) \in Int
    BY LenProperties
  <2>2. IsFiniteSet(1..Len(q))
    BY <2>1, FS_Interval
  <2>3. IsFiniteSet(I)
    BY <2>2, FS_Subset
  <2> QED
    BY <2>3, FS_CardinalityType
<1>2. PICK f \in [1..n -> I] : /\ \A i, j \in 1..n : i < j => f[i] < f[j]
                               /\ r = [i \in 1..n |-> q[f[i]]]
  BY DEF EntriesAt
<1> HIDE DEF n
<1>3. \A i \in 1..n : f[i] \in 1..Len(q)
  BY <1>2
<1>4. Len(r) = n /\ \A i \in 1..n : r[i] = q[f[i]]
  <2>1. r \in [1..n -> S]
    BY <1>2, <1>3, ElementOfSeq
  <2>2. r \in Seq(S)
    BY <1>1, <2>1
  <2> QED
    BY <1>1, <1>2, <2>1, <2>2, LenProperties
<1>5. \A i, j \in 1..n : f[i] = f[j] => i = j
  <2> SUFFICES ASSUME NEW i \in 1..n, NEW j \in 1..n, f[i] = f[j], i # j
               PROVE  FALSE
    OBVIOUS
  <2>1. f[i] \in Int /\ f[j] \in Int /\ (i < j \/ j < i)
    BY <1>1, <1>3, LenProperties
  <2> QED
    BY <1>2, <2>1
<1>6. f \in [1..n -> All(q)]
  BY <1>2, <1>3 DEF All
<1> QED
  BY <1>4, <1>5, <1>6 DEF From

\* shuffle.
LEMMA FromShuffles ==
    ASSUME NEW S, NEW q \in Seq(S), NEW r \in Shuffles(q)
    PROVE  From(r, q, All(q))
<1> DEFINE n == Len(q)
<1>1. PICK f \in [1..n -> 1..n] : /\ \A i, j \in 1..n : i # j => f[i] # f[j]
                                  /\ r = [i \in 1..n |-> q[f[i]]]
  BY DEF Shuffles
<1>2. n \in Nat
  BY LenProperties
<1>3. Len(r) = n /\ \A i \in 1..n : r[i] = q[f[i]]
  <2>1. \A i \in 1..n : q[f[i]] \in S
    BY <1>1, ElementOfSeq
  <2> HIDE DEF n
  <2>2. r \in [1..n -> S]
    BY <1>1, <2>1
  <2>3. r \in Seq(S)
    BY <1>2, <2>2
  <2>4. DOMAIN r = 1..n /\ Len(r) = n
    <3>1. DOMAIN r = 1..Len(r) /\ Len(r) \in Nat
      BY <2>3, LenProperties
    <3>2. DOMAIN r = 1..n
      BY <2>2
    <3>3. Len(r) = n
      BY <1>2, <3>1, <3>2, SameCount
    <3> QED
      BY <3>2, <3>3
  <2>5. \A i \in 1..n : r[i] = q[f[i]]
    BY <1>1
  <2> QED
    BY <2>4, <2>5
<1>4. f \in [1..Len(r) -> All(q)]
  BY <1>1, <1>3 DEF All
<1>5. \A i, j \in 1..Len(r) : f[i] = f[j] => i = j
  BY <1>1, <1>3
<1>6. \A i \in 1..Len(r) : Id(r[i]) = Id(q[f[i]])
  BY <1>3
<1> HIDE DEF n
<1> QED
  BY <1>4, <1>5, <1>6, DrawnBy

\* The reversed queue.
LEMMA FromReversedTail ==
    ASSUME NEW S, NEW q \in Seq(S), NEW siz \in 1..Len(q)
    PROVE  From(ReversedTail(q, siz), q, All(q))
<1> DEFINE a == SubSeq(q, 2, siz)
           b == Reverse(a)
           c == <<q[1]>>
           J == 2..siz
<1>1. Len(q) \in Nat
  BY LenProperties
<1>2. a \in Seq(S) /\ From(a, q, J)
  BY <1>1, SubSeqType, FromSubSeq
<1>3. b \in Seq(S) /\ From(b, a, All(a))
  <2> HIDE DEF a
  <2> DEFINE n == Len(a)
             f == [i \in 1..n |-> (n - i) + 1]
  <2>1. n \in Nat
    BY <1>2, LenProperties
  <2>2. \A i \in 1..n : (n - i) + 1 \in 1..n
    BY <2>1
  <2>3. \A i \in 1..n : a[(n - i) + 1] \in S
    BY <1>2, <2>2, ElementOfSeq
  <2>4. b \in Seq(S) /\ Len(b) = n /\ \A i \in 1..n : b[i] = a[(n - i) + 1]
    BY <2>1, <2>3 DEF Reverse
  <2>5. f \in [1..n -> All(a)] /\ \A i \in 1..n : f[i] = (n - i) + 1
    BY <2>2 DEF All
  <2> HIDE DEF b, f
  <2>6. \A i, j \in 1..n : f[i] = f[j] => i = j
    BY <2>1, <2>5
  <2>7. \A i \in 1..n : b[i] = a[f[i]]
    BY <2>4, <2>5
  <2>8. \A i \in 1..n : Id(b[i]) = Id(a[f[i]])
    BY <2>7
  <2> HIDE DEF n
  <2>9. From(b, a, All(a))
    BY <2>4, <2>5, <2>6, <2>8, DrawnBy
  <2> QED
    BY <2>4, <2>9
<1>4. c \in Seq(S) /\ From(c, q, {1})
  BY <1>1, ElementOfSeq, FromFew
<1>5. {1} \cap J = {} /\ {1} \cup J \subseteq All(q)
  BY <1>1 DEF All
<1>6. ReversedTail(q, siz) = c \o b
  BY DEF ReversedTail
<1> HIDE DEF a, b, c, J
<1>7. From(b, q, J)
  BY <1>2, <1>3, FromTrans
<1>8. From(c \o b, q, {1} \cup J)
  BY <1>3, <1>4, <1>5, <1>7, FromConcat
<1> QED
  BY <1>5, <1>6, <1>8, FromWider

\* The previous-track button.
LEMMA FromLastToFront ==
    ASSUME NEW S, NEW q \in Seq(S),
           \A t \in S : [t EXCEPT !.repeat = 0] \in S /\ Id([t EXCEPT !.repeat = 0]) = Id(t)
    PROVE  From(LastToFront(q), q, All(q))
<1> DEFINE f == FrontRepeat(q, 0)
           a == <<f[Len(f)]>>
           b == SubSeq(f, 1, Len(f) - 1)
<1>1. f \in Seq(S) /\ From(f, q, All(q))
  BY FrontRepeatType, FromFrontRepeat
<1>2. LastToFront(q) = IF f = <<>> THEN f ELSE a \o b
  BY DEF LastToFront
<1> HIDE DEF f
<1>3. CASE f = <<>>
  BY <1>1, <1>2, <1>3
<1>4. CASE f # <<>>
  <2> DEFINE I == {Len(f)}
             J == 1..(Len(f) - 1)
  <2>1. Len(f) \in Nat \ {0}
    BY <1>1, <1>4, EmptySeq
  <2>2. a \in Seq(S) /\ From(a, f, I)
    BY <1>1, <2>1, ElementOfSeq, FromFew
  <2>3. b \in Seq(S) /\ From(b, f, J)
    <3>1. Len(f) - 1 \in Int /\ Len(f) - 1 <= Len(f) /\ 1 \in Nat \ {0}
      BY <2>1
    <3>2. b \in Seq(S)
      BY <1>1, <3>1, SubSeqType
    <3>3. From(b, f, J)
      BY <1>1, <3>1, FromSubSeq
    <3> QED
      BY <3>2, <3>3
  <2>4. LastToFront(q) = a \o b
    BY <1>2, <1>4
  <2>5. I \cap J = {} /\ I \cup J = All(f)
    BY <2>1 DEF All
  <2> HIDE DEF a, b, I, J
  <2>6. From(a \o b, f, All(f))
    BY <2>2, <2>3, <2>5, FromConcat
  <2> DEFINE r == a \o b
  <2> HIDE DEF r
  <2> QED
    BY <1>1, <2>4, <2>6, FromTrans DEF r
<1> QED
  BY <1>3, <1>4

\* The move command: the entry erased at `fr' is the one inserted at `to'.
LEMMA FromMoved ==
    ASSUME NEW S, NEW q \in Seq(S), NEW fr \in 1..(Len(q) - 1), NEW to \in 1..(Len(q) - 1)
    PROVE  From(Moved(q, fr, to), q, All(q))
<1> DEFINE r == RemoveAt(q, fr + 1)
           t == q[fr + 1]
           p == r \o <<t>>
           I == {fr + 1}
           J == All(q) \ I
<1>1. Len(q) \in Nat /\ fr + 1 \in 1..Len(q)
  BY LenProperties
<1>2. r \in Seq(S) /\ Len(r) = Len(q) - 1 /\ From(r, q, J)
  BY <1>1, RemoveAtType, FromRemoveAt
<1>3. t \in S /\ <<t>> \in Seq(S) /\ From(<<t>>, q, I)
  <2>1. t \in S /\ <<t>> \in Seq(S)
    BY <1>1, ElementOfSeq
  <2>2. From(<<t>>, q, I)
    BY FromFew
  <2> QED
    BY <2>1, <2>2
<1>4. Moved(q, fr, to) = InsertAt(r, to + 1, t)
  BY DEF Moved
<1>5. J \cap I = {} /\ J \cup I = All(q)
  BY <1>1 DEF All
<1>6. to + 1 \in 1..(Len(r) + 1)
  <2> HIDE DEF r
  <2> QED
    BY <1>1, <1>2
<1> HIDE DEF r, t, I, J
<1>7. From(InsertAt(r, to + 1, t), p, All(p))
  BY <1>2, <1>3, <1>6, FromInsertAt
<1>8. From(p, q, All(q))
  <2> DEFINE c == <<t>>
  <2> HIDE DEF c
  <2>1. c \in Seq(S) /\ From(c, q, I)
    BY <1>3 DEF c
  <2>2. I \cap J = {} /\ From(r \o c, q, J \cup I)
    BY <1>2, <1>5, <2>1, FromConcat
  <2> QED
    BY <1>5, <2>2 DEF c
<1> HIDE DEF p
<1> QED
  BY <1>4, <1>7, <1>8, FromTrans

----------------------------------------------------------------------------
\* The first entry stays the first.
KeepsFirst(r, q) == q # <<>> => r # <<>> /\ r[1] = q[1]

\* The first of two sequences that is not empty.
LEMMA ConcatFirst ==
    ASSUME NEW S, NEW a \in Seq(S), a # <<>>, NEW b \in Seq(S)
    PROVE  a \o b # <<>> /\ (a \o b)[1] = a[1]
<1>1. Len(a) \in Nat \ {0} /\ Len(b) \in Nat
  BY EmptySeq, LenProperties
<1>2. Len(a \o b) = Len(a) + Len(b) /\ a \o b \in Seq(S)
  BY ConcatType
<1>3. (a \o b)[1] = a[1]
  BY <1>1, ConcatProperties
<1> QED
  BY <1>1, <1>2, <1>3, EmptySeq

\* reset_shifted puts the shifted entry first.
LEMMA SettledFirst ==
    ASSUME NEW S, NEW q \in Seq(S), q # <<>>, NEW n \in Nat, n < Len(q)
    PROVE  Settled(q, n) # <<>> /\ Settled(q, n)[1] = q[n + 1]
<1>1. CASE n > 0
  <2> DEFINE m == n + 1
             a == <<q[m]>>
             b == RemoveAt(q, m)
  <2>1. m \in 1..Len(q)
    BY LenProperties
  <2>2. Settled(q, n) = a \o b
    BY <1>1 DEF Settled
  <2> HIDE DEF m
  <2>3. a \in Seq(S) /\ a # <<>> /\ a[1] = q[m]
    BY <2>1, ElementOfSeq
  <2>4. b \in Seq(S)
    BY <2>1, RemoveAtType
  <2> HIDE DEF a, b
  <2> QED
    BY <2>2, <2>3, <2>4, ConcatFirst DEF m
<1>2. CASE n = 0
  BY <1>2 DEF Settled
<1> QED
  BY <1>1, <1>2

\* A track put on top leaves the entry shifted_track points at where it points.
LEMMA AddedOnTopFirst ==
    ASSUME NEW S, NEW q \in Seq(S), NEW t \in S, NEW n \in Nat, n < Len(q),
           NEW top \in BOOLEAN, NEW slip \in {0, 1}
    PROVE  Added(q, t, top, slip)[ShiftedAfterAdd(q, n, top, slip) + 1] = q[n + 1]
<1>1. Len(q) \in Nat
  BY LenProperties
<1>2. CASE OnTop(top, slip)
  <2>1. Added(q, t, top, slip) = <<t>> \o q /\ ShiftedAfterAdd(q, n, top, slip) = n + 1
    BY <1>2 DEF Added, ShiftedAfterAdd
  <2> DEFINE k == n + 1
             a == <<t>>
  <2>2. k \in 1..Len(q)
    BY <1>1
  <2>3. a \in Seq(S) /\ Len(a) = 1
    OBVIOUS
  <2> HIDE DEF k, a
  <2>4. (a \o q)[1 + k] = q[k]
    BY <2>2, <2>3, ConcatBehind
  <2>5. 1 + k = k + 1
    BY <2>2
  <2> QED
    BY <2>1, <2>4, <2>5 DEF k, a
<1>3. CASE ~OnTop(top, slip)
  <2>1. Added(q, t, top, slip) = Append(q, t) /\ ShiftedAfterAdd(q, n, top, slip) = n
    BY <1>1, <1>3 DEF Added, ShiftedAfterAdd, OnTop
  <2>2. n + 1 \in 1..Len(q)
    BY <1>1
  <2> QED
    BY <2>1, <2>2, AppendProperties
<1> QED
  BY <1>2, <1>3

\* remove_track never takes the first entry.
LEMMA RemovedTracksFirst ==
    ASSUME NEW S, NEW q \in Seq(S), NEW pos \in Nat, NEW amount \in Nat, NEW to \in Int
    PROVE  KeepsFirst(RemovedTracks(q, pos, amount, to), q)
<1> DEFINE wanted == IF to # NoTo /\ to > pos THEN to - pos ELSE amount
           last  == IF wanted < Len(q) - pos THEN pos + wanted ELSE Len(q)
           a     == SubSeq(q, 1, pos)
           b     == SubSeq(q, last + 1, Len(q))
<1>1. Len(q) \in Nat
  BY LenProperties
<1>2. CASE pos = 0 \/ pos >= Len(q) \/ (amount = 0 /\ to = NoTo)
  BY <1>2 DEF RemovedTracks, KeepsFirst
<1>3. CASE ~(pos = 0 \/ pos >= Len(q) \/ (amount = 0 /\ to = NoTo))
  <2>1. last \in Nat
    BY <1>1
  <2>2. RemovedTracks(q, pos, amount, to) = a \o b
    BY <1>3 DEF RemovedTracks
  <2> HIDE DEF last
  <2>3. a \in Seq(S) /\ Len(a) = pos
    BY <1>1, <1>3, SubSeqType
  <2>4. b \in Seq(S)
    BY <1>1, <2>1, SubSeqType
  <2>5. a[1] = q[1]
    <3>1. \A i \in 1..pos : q[i] \in S
      BY <1>1, <1>3, ElementOfSeq
    <3> QED
      BY <1>3, <3>1, SubSeqProperties
  <2> HIDE DEF a, b
  <2>6. a # <<>>
    BY <1>3, <2>3
  <2> QED
    BY <2>2, <2>3, <2>4, <2>5, <2>6, ConcatFirst DEF KeepsFirst
<1> QED
  BY <1>2, <1>3

\* remove_track_by_user keeps the first entry in its place: the selection is
\* increasing and as long as the set of its indices, which has 1 in it.
LEMMA RemovedUsersFirst ==
    ASSUME NEW S, NEW q \in Seq(S), NEW users, NEW r \in RemovedUsers(q, users)
    PROVE  KeepsFirst(r, q)
<1> SUFFICES ASSUME q # <<>>
             PROVE  r # <<>> /\ r[1] = q[1]
  BY DEF KeepsFirst
<1> DEFINE I == {i \in 1..Len(q) : i = 1 \/ q[i].user \notin users}
           n == Cardinality(I)
<1>1. Len(q) \in Nat \ {0}
  BY EmptySeq
<1>2. IsFiniteSet(I) /\ 1 \in I /\ I \subseteq 1..Len(q)
  <2>1. IsFiniteSet(1..Len(q))
    BY <1>1, FS_Interval
  <2>2. I \subseteq 1..Len(q)
    OBVIOUS
  <2> QED
    BY <1>1, <2>1, <2>2, FS_Subset
<1>3. PICK f \in [1..n -> I] : /\ \A i, j \in 1..n : i < j => f[i] < f[j]
                               /\ r = [i \in 1..n |-> q[f[i]]]
  BY DEF RemovedUsers, EntriesAt
<1> HIDE DEF I
<1>4. n \in Nat /\ n > 0 /\ IsFiniteSet(I \ {1}) /\ Cardinality(I \ {1}) = n - 1
  <2>1. n \in Nat
    BY <1>2, FS_CardinalityType
  <2>2. IsFiniteSet(I \ {1}) /\ Cardinality(I \ {1}) = n - 1
    BY <1>2, FS_RemoveElement
  <2>3. n - 1 \in Nat
    BY <2>2, FS_CardinalityType
  <2> QED
    BY <2>1, <2>2, <2>3
<1> HIDE DEF n
<1>5. \A i \in 1..n : f[i] \in Int /\ f[i] >= 1
  <2>1. \A i \in 1..n : f[i] \in I
    BY <1>3
  <2>2. \A k \in I : k \in Int /\ k >= 1
    BY <1>1, <1>2
  <2> QED
    BY <2>1, <2>2
<1>6. f[1] = 1
  <2> SUFFICES ASSUME f[1] # 1
               PROVE  FALSE
    OBVIOUS
  <2> DEFINE J == I \ {1}
  <2>1. \A i \in 1..n : f[i] # 1
    BY <1>3, <1>4, <1>5
  <2>2. f \in [1..n -> J]
    BY <1>3, <2>1
  <2>3. IsFiniteSet(1..n) /\ Cardinality(1..n) = n
    BY <1>4, FS_Interval
  <2>4. Cardinality(1..n) > Cardinality(J)
    BY <1>4, <2>3
  <2> HIDE DEF J
  <2>5. \E i, j \in 1..n : i # j /\ f[i] = f[j]
    BY <1>4, <2>2, <2>3, <2>4, FS_PigeonHole DEF J
  <2> QED
    BY <1>3, <1>4, <1>5, <2>5
<1>7. 1 \in 1..n /\ r[1] = q[1]
  BY <1>3, <1>4, <1>6
<1>8. DOMAIN r = 1..n /\ DOMAIN <<>> = {}
  BY <1>3
<1> QED
  BY <1>7, <1>8

\* shuffle.
LEMMA ShufflesFirst ==
    ASSUME NEW S, NEW q \in Seq(S), NEW r \in Shuffles(q)
    PROVE  KeepsFirst(r, q)
<1> SUFFICES ASSUME q # <<>>
             PROVE  r # <<>> /\ r[1] = q[1]
  BY DEF KeepsFirst
<1>1. PICK f \in [1..Len(q) -> 1..Len(q)] : f[1] = 1 /\ r = [i \in 1..Len(q) |-> q[f[i]]]
  BY DEF Shuffles
<1>2. 1 \in 1..Len(q) /\ DOMAIN r = 1..Len(q) /\ DOMAIN <<>> = {}
  BY <1>1, EmptySeq
<1> QED
  BY <1>1, <1>2

\* The reversed queue.
LEMMA ReversedTailFirst ==
    ASSUME NEW S, NEW q \in Seq(S), NEW siz \in 1..Len(q)
    PROVE  KeepsFirst(ReversedTail(q, siz), q)
<1> DEFINE a == SubSeq(q, 2, siz)
           b == Reverse(a)
           c == <<q[1]>>
<1>1. Len(q) \in Nat
  BY LenProperties
<1>2. a \in Seq(S)
  BY <1>1, SubSeqType
<1>3. b \in Seq(S)
  <2> HIDE DEF a
  <2>1. Len(a) \in Nat
    BY <1>2, LenProperties
  <2>2. \A i \in 1..Len(a) : a[(Len(a) - i) + 1] \in S
    BY <1>2, <2>1, ElementOfSeq
  <2> QED
    BY <2>1, <2>2 DEF Reverse
<1>4. c \in Seq(S) /\ c # <<>> /\ c[1] = q[1]
  BY <1>1, ElementOfSeq
<1>5. ReversedTail(q, siz) = c \o b
  BY DEF ReversedTail
<1> HIDE DEF a, b, c
<1> QED
  BY <1>3, <1>4, <1>5, ConcatFirst DEF KeepsFirst

----------------------------------------------------------------------------
(***************************************************************************)
(* Type correctness, and that shifted_track points into the queue.         *)
(***************************************************************************)
\* A marker is handled, and the saved queue with it loaded, before anything
\* plays.
LoadedWhenPlaying == phase \in {"starting", "playing", "end"} => loaded

IInv == TypeOK /\ ShiftedInRange /\ LoadedWhenPlaying

----------------------------------------------------------------------------
\* Changing the repeat count or the owner of an entry leaves it an entry.
LEMMA TrackFacts ==
    /\ 0 \in 0..MaxRepeat
    /\ \A t \in Track, n \in 0..MaxRepeat : [t EXCEPT !.repeat = n] \in Track
    /\ \A t \in Track : [t EXCEPT !.repeat = 0] \in Track
    /\ \A t \in Track : [t EXCEPT !.user = Bot, !.repeat = 0] \in Track
    /\ \A t \in Track : t.key \in 1..MaxAdds /\ t.repeat \in 0..MaxRepeat
<1>1. 0 \in 0..MaxRepeat
  BY ConstantsAssumption
<1>2. \A t \in Track, n \in 0..MaxRepeat : [t EXCEPT !.repeat = n] \in Track
  BY DEF Track
<1>3. \A t \in Track : [t EXCEPT !.user = Bot] \in Track
  BY ConstantsAssumption DEF Track
<1>4. \A t \in Track : [t EXCEPT !.user = Bot, !.repeat = 0]
                        = [[t EXCEPT !.user = Bot] EXCEPT !.repeat = 0]
  OBVIOUS
<1>5. \A t \in Track : t.key \in 1..MaxAdds /\ t.repeat \in 0..MaxRepeat
  BY DEF Track
<1> QED
  BY <1>1, <1>2, <1>3, <1>4, <1>5

\* Keys of entries and of the empty track, and the empty track itself.
LEMMA KeyFacts ==
    /\ \A t \in Track \cup {NoTrack} : t.key \in 0..MaxAdds
    /\ \A t \in Track \cup {NoTrack} : NotRepeated(t) \in Track \cup {NoTrack}
    /\ \A q \in Seq(Track), i \in Int : KeyAt(q, i) \in 0..MaxAdds
<1>1. MaxAdds \in Nat
  BY ConstantsAssumption
<1>2. \A t \in Track \cup {NoTrack} : t.key \in 0..MaxAdds
  <2>1. \A t \in Track : t.key \in 0..MaxAdds
    BY <1>1 DEF Track
  <2>2. NoTrack.key \in 0..MaxAdds
    BY <1>1 DEF NoTrack
  <2> QED
    BY <2>1, <2>2
<1>3. \A t \in Track \cup {NoTrack} : NotRepeated(t) \in Track \cup {NoTrack}
  BY TrackFacts DEF NotRepeated
<1>4. \A q \in Seq(Track), i \in Int : KeyAt(q, i) \in 0..MaxAdds
  <2> SUFFICES ASSUME NEW q \in Seq(Track), NEW i \in Int
               PROVE  KeyAt(q, i) \in 0..MaxAdds
    OBVIOUS
  <2>1. CASE i \in 1..Len(q)
    <3>1. q[i] \in Track
      BY <2>1, ElementOfSeq
    <3> QED
      BY <2>1, <3>1, <1>2 DEF KeyAt
  <2>2. CASE i \notin 1..Len(q)
    BY <2>2, <1>1 DEF KeyAt, NoKey
  <2> QED
    BY <2>1, <2>2
<1> QED
  BY <1>2, <1>3, <1>4

\* What a command asks of the marker handler is a pair of keys.
LEMMA AskedFacts ==
    /\ Nothing \in [next : 0..MaxAdds, gone : 0..MaxAdds]
    /\ \A k \in 0..MaxAdds : Next1(k) \in [next : 0..MaxAdds, gone : 0..MaxAdds]
  BY ConstantsAssumption DEF Nothing, Next1, NoKey

\* The saved entries are entries when they come back.
LEMMA RestoredType ==
    ASSUME saved \in Seq(Track)
    PROVE  Restored \in Seq(Track) /\ Len(Restored) = Len(saved)
<1>1. Len(saved) \in Nat
  BY LenProperties
<1>2. \A i \in 1..Len(saved) : [saved[i] EXCEPT !.user = Bot, !.repeat = 0] \in Track
  BY <1>1, ElementOfSeq, TrackFacts
<1>3. Restored \in [1..Len(saved) -> Track]
  BY <1>2, Zenon DEF Restored
<1> QED
  BY <1>1, <1>3

\* The queue with the saved entries behind it.
LEMMA LoadedType ==
    ASSUME TypeOK, NEW q \in Seq(Track)
    PROVE  /\ Loaded(q) \in Seq(Track)
           /\ Len(Loaded(q)) = IF loaded THEN Len(q) ELSE Len(q) + Len(saved)
           /\ Len(saved) \in Nat
<1>1. saved \in Seq(Track) /\ Len(saved) \in Nat
  BY LenProperties DEF TypeOK
<1>2. Restored \in Seq(Track) /\ Len(Restored) = Len(saved)
  BY <1>1, RestoredType
<1> QED
  BY <1>1, <1>2, ConcatType DEF Loaded

\* The settled queue, and the settled queue with the saved entries behind it.
LEMMA SettledFacts ==
    ASSUME IInv
    PROVE  /\ Settled(queue, shifted) \in Seq(Track)
           /\ Settled(Loaded(queue), shifted) \in Seq(Track)
<1>1. /\ queue \in Seq(Track) /\ shifted \in Nat
      /\ shifted = 0 \/ shifted < Len(queue)
      /\ Len(queue) \in Nat
  BY LenProperties DEF IInv, TypeOK, ShiftedInRange
<1>2. /\ Loaded(queue) \in Seq(Track)
      /\ shifted = 0 \/ shifted < Len(Loaded(queue))
  BY <1>1, LoadedType DEF IInv
<1> QED
  BY <1>1, <1>2, SettledType

----------------------------------------------------------------------------
(***************************************************************************)
(* Every step keeps the invariant.  The facts each proof needs of the      *)
(* state before the step:                                                  *)
(***************************************************************************)
LEMMA StateFacts ==
    ASSUME IInv
    PROVE  /\ queue \in Seq(Track) /\ Len(queue) \in Nat /\ shifted \in Nat
           /\ shifted = 0 \/ shifted < Len(queue)
           /\ current \in Track \cup {NoTrack} /\ redo \in Track \cup {NoTrack}
           /\ current.key \in 0..MaxAdds
           /\ NotRepeated(current) \in Track \cup {NoTrack}
           /\ saved \in Seq(Track)
           /\ phase \in Phases /\ StoppedPhase \in Phases
           /\ phase = "idle" \/ phase = "start" \/ loaded
           /\ StoppedPhase = "idle" \/ StoppedPhase = "start" \/ loaded
           /\ \A listening : /\ DecidedPhase(listening) \in Phases
                             /\ \/ DecidedPhase(listening) = "idle"
                                \/ DecidedPhase(listening) = "start"
                                \/ loaded
           /\ MaxAdds \in Nat /\ MaxRepeat \in Nat
<1>1. /\ queue \in Seq(Track) /\ Len(queue) \in Nat /\ shifted \in Nat
      /\ shifted = 0 \/ shifted < Len(queue)
      /\ current \in Track \cup {NoTrack} /\ redo \in Track \cup {NoTrack}
      /\ saved \in Seq(Track) /\ phase \in Phases
  BY LenProperties DEF IInv, TypeOK, ShiftedInRange
<1>2. phase = "idle" \/ phase = "start" \/ loaded
  BY <1>1 DEF IInv, LoadedWhenPlaying, Phases
<1>3. /\ StoppedPhase \in Phases
      /\ StoppedPhase = "idle" \/ StoppedPhase = "start" \/ loaded
  BY <1>1, <1>2 DEF StoppedPhase, Phases
<1>6. ASSUME NEW listening
      PROVE  /\ DecidedPhase(listening) \in Phases
             /\ \/ DecidedPhase(listening) = "idle"
                \/ DecidedPhase(listening) = "start"
                \/ loaded
  BY <1>1, <1>2 DEF DecidedPhase, Phases
<1>4. current.key \in 0..MaxAdds /\ NotRepeated(current) \in Track \cup {NoTrack}
  BY <1>1, KeyFacts
<1>5. MaxAdds \in Nat /\ MaxRepeat \in Nat
  BY ConstantsAssumption
<1> QED
  BY <1>1, <1>2, <1>3, <1>4, <1>5, <1>6

\* add_track.
LEMMA AddTrackStep ==
    ASSUME IInv, NEW file \in Files, NEW user \in Users, NEW top \in BOOLEAN, NEW slip \in Nat,
           AddTrack(file, user, top, slip)
    PROVE  IInv'
<1> DEFINE t == [key |-> adds + 1, file |-> file, user |-> user, repeat |-> 0]
<1>1. t \in Track
  BY ConstantsAssumption DEF AddTrack, IInv, TypeOK, Track
<1>2. queue' = Added(queue, t, top, slip) /\ shifted' = ShiftedAfterAdd(queue, shifted, top, slip)
  BY DEF AddTrack
<1> HIDE DEF t
<1>3. /\ queue' \in Seq(Track) /\ Len(queue') = Len(queue) + 1
      /\ shifted' \in Nat /\ shifted' < Len(queue) + 1
  <2>1. queue \in Seq(Track) /\ shifted \in Nat /\ (shifted = 0 \/ shifted < Len(queue))
    BY StateFacts
  <2> QED
    BY <1>1, <1>2, <2>1, AddedType
<1>4. adds' \in 0..MaxAdds /\ publishing' \in 0..adds'
  BY ConstantsAssumption DEF AddTrack, IInv, TypeOK
<1>5. asked' \in [next : 0..MaxAdds, gone : 0..MaxAdds]
  BY AskedFacts DEF AddTrack
<1> QED
  BY <1>3, <1>4, <1>5 DEF IInv, TypeOK, ShiftedInRange, LoadedWhenPlaying, AddTrack, dbVars

\* The steps that leave shifted_track at 0 have only the types to keep.
LEMMA ShiftedZero ==
    ASSUME shifted' = 0, TypeOK', LoadedWhenPlaying'
    PROVE  IInv'
  BY DEF IInv, ShiftedInRange

\* publish_queue and decide_play.
LEMMA PublishStep ==
    ASSUME IInv, NEW listening \in BOOLEAN, Publish(listening)
    PROVE  IInv'
<1>1. queue' \in Seq(Track) /\ shifted' = 0
  BY SettledFacts DEF Publish
<1>2. adds' = adds /\ publishing' \in 0..adds
  BY StateFacts DEF Publish, IInv, TypeOK
<1>3. phase' \in Phases /\ (phase' = "idle" \/ phase' = "start" \/ loaded)
  BY StateFacts DEF Publish
<1>4. TypeOK'
  BY <1>1, <1>2, <1>3 DEF Publish, IInv, TypeOK, dbVars
<1>5. LoadedWhenPlaying'
  BY <1>3 DEF LoadedWhenPlaying, Publish, dbVars
<1> QED
  BY <1>1, <1>4, <1>5, ShiftedZero

\* manager::skip and handle_next.
LEMMA SkipStep ==
    ASSUME IInv, NEW amount \in Int, NEW remove \in BOOLEAN, Skip(amount, remove)
    PROVE  IInv'
<1> DEFINE q == Settled(queue, shifted)
<1>1. q \in Seq(Track)
  BY SettledFacts
<1> HIDE DEF q
<1>2. SkippedQueue(q, loop_mode, amount, remove, FALSE) \in Seq(Track)
  BY <1>1, TrackFacts, SkippedQueueType
<1>3. queue' \in Seq(Track) /\ shifted' = 0
  BY <1>2 DEF Skip, q
<1>4. current' \in Track \cup {NoTrack}
  BY StateFacts DEF Skip
<1>5. phase' \in Phases /\ (phase' = "idle" \/ phase' = "start" \/ loaded)
  BY StateFacts DEF Skip
<1>6. asked' \in [next : 0..MaxAdds, gone : 0..MaxAdds]
  <2>1. KeyAt(q, IF amount < 1 THEN 2 ELSE amount + 1) \in 0..MaxAdds
    <3> DEFINE i == IF amount < 1 THEN 2 ELSE amount + 1
    <3>1. i \in Int
      OBVIOUS
    <3> HIDE DEF i
    <3>2. KeyAt(q, i) \in 0..MaxAdds
      BY <1>1, <3>1, KeyFacts
    <3> QED
      BY <3>2 DEF i
  <2>2. (IF remove THEN current.key ELSE NoKey) \in 0..MaxAdds
    BY StateFacts DEF NoKey
  <2> QED
    BY <2>1, <2>2, AskedFacts DEF Skip, q
<1>7. TypeOK'
  <2>1. UNCHANGED <<loop_mode, stopped, saved, loaded, loads, redo, snap, publishing, adds>>
    BY DEF Skip, dbVars
  <2> QED
    BY <1>3, <1>4, <1>5, <1>6, <2>1 DEF IInv, TypeOK
<1>8. LoadedWhenPlaying'
  BY <1>5 DEF LoadedWhenPlaying, Skip, dbVars
<1> QED
  BY <1>3, <1>7, <1>8, ShiftedZero

\* button_run_prev and handle_prev.
LEMMA PrevStep ==
    ASSUME IInv, Prev
    PROVE  IInv'
<1> DEFINE q == Settled(queue, shifted)
<1>1. q \in Seq(Track)
  BY SettledFacts
<1> HIDE DEF q
<1>2. LastToFront(q) \in Seq(Track)
  BY <1>1, TrackFacts, LastToFrontType
<1>3. queue' \in Seq(Track) /\ shifted' = 0
  BY <1>2 DEF Prev, q
<1>4. current' \in Track \cup {NoTrack}
  BY StateFacts DEF Prev
<1>5. phase' \in Phases /\ (phase' = "idle" \/ phase' = "start" \/ loaded)
  BY StateFacts DEF Prev
<1>6. asked' \in [next : 0..MaxAdds, gone : 0..MaxAdds]
  <2>1. KeyAt(q, Len(q)) \in 0..MaxAdds
    BY <1>1, KeyFacts, LenProperties
  <2> QED
    BY <2>1, AskedFacts DEF Prev, q
<1>7. TypeOK'
  BY <1>3, <1>4, <1>5, <1>6 DEF Prev, IInv, TypeOK, dbVars
<1>8. LoadedWhenPlaying'
  BY <1>5 DEF LoadedWhenPlaying, Prev, dbVars
<1> QED
  BY <1>3, <1>7, <1>8, ShiftedZero

\* The stop command.
LEMMA StopStep ==
    ASSUME IInv, Stop
    PROVE  IInv'
<1>1. phase' \in Phases /\ (phase' = "idle" \/ phase' = "start" \/ loaded)
  BY StateFacts DEF Stop
<1>2. asked' \in [next : 0..MaxAdds, gone : 0..MaxAdds]
  BY StateFacts, AskedFacts DEF Stop
<1>3. TypeOK' /\ ShiftedInRange'
  BY <1>1, <1>2 DEF Stop, IInv, TypeOK, ShiftedInRange, dbVars
<1>4. LoadedWhenPlaying'
  BY <1>1 DEF LoadedWhenPlaying, Stop, dbVars
<1> QED
  BY <1>3, <1>4 DEF IInv

\* The move command.
LEMMA MoveStep ==
    ASSUME IInv, NEW fr \in Nat, NEW to \in Nat, Move(fr, to)
    PROVE  IInv'
<1>1. Moved(queue, fr, to) \in Seq(Track) /\ Len(Moved(queue, fr, to)) = Len(queue)
  <2>1. queue \in Seq(Track) /\ fr \in 1..(Len(queue) - 1) /\ to \in 1..(Len(queue) - 1)
    BY StateFacts DEF Move
  <2> QED
    BY <2>1, MovedType
<1>2. Settled(Moved(queue, fr, to), shifted) \in Seq(Track)
  <2>1. shifted \in Nat /\ (shifted = 0 \/ shifted < Len(Moved(queue, fr, to)))
    BY <1>1, StateFacts
  <2> QED
    BY <1>1, <2>1, SettledType
<1>3. queue' \in Seq(Track) /\ shifted' = 0
  BY <1>2 DEF Move
<1>4. TypeOK'
  BY <1>3, AskedFacts DEF Move, IInv, TypeOK, dbVars
<1>5. LoadedWhenPlaying'
  BY DEF LoadedWhenPlaying, Move, dbVars, IInv
<1> QED
  BY <1>3, <1>4, <1>5, ShiftedZero

\* The remove command.
LEMMA RemoveTrackStep ==
    ASSUME IInv, NEW pos \in Nat, NEW amount \in Nat, NEW to \in Int,
           RemoveTrack(pos, amount, to)
    PROVE  IInv'
<1> DEFINE q == Settled(queue, shifted)
<1>1. q \in Seq(Track)
  BY SettledFacts
<1> HIDE DEF q
<1>2. RemovedTracks(q, pos, amount, to) \in Seq(Track)
  BY <1>1, RemovedTracksType
<1>3. queue' \in Seq(Track) /\ shifted' = 0
  BY <1>2 DEF RemoveTrack, q
<1>4. TypeOK'
  BY <1>3, AskedFacts DEF RemoveTrack, IInv, TypeOK, dbVars
<1>5. LoadedWhenPlaying'
  BY DEF LoadedWhenPlaying, RemoveTrack, dbVars, IInv
<1> QED
  BY <1>3, <1>4, <1>5, ShiftedZero

\* get_queue.
LEMMA GetQueueStep ==
    ASSUME IInv, GetQueue
    PROVE  IInv'
<1>1. queue' \in Seq(Track) /\ shifted' = 0
  BY SettledFacts DEF GetQueue
<1>2. TypeOK'
  BY <1>1 DEF GetQueue, IInv, TypeOK, dbVars
<1>3. LoadedWhenPlaying'
  BY DEF LoadedWhenPlaying, GetQueue, dbVars, IInv
<1> QED
  BY <1>1, <1>2, <1>3, ShiftedZero

\* The loop command with a number of repeats.
LEMMA LoopAmountStep ==
    ASSUME IInv, NEW n \in 0..MaxRepeat, LoopAmount(n)
    PROVE  IInv'
<1> DEFINE q == Settled(queue, shifted)
           r == IF q = <<>> THEN <<current>> ELSE q
<1>1. q \in Seq(Track)
  BY SettledFacts
<1>2. current \in Track
  BY StateFacts DEF LoopAmount
<1> HIDE DEF q
<1>3. r \in Seq(Track)
  BY <1>1, <1>2
<1> HIDE DEF r
<1>4. FrontRepeat(r, n) \in Seq(Track)
  BY <1>3, TrackFacts, FrontRepeatType
<1>5. queue' \in Seq(Track) /\ shifted' = 0
  BY <1>4 DEF LoopAmount, r, q
<1>6. current' \in Track \cup {NoTrack}
  BY <1>2, TrackFacts DEF LoopAmount
<1>7. TypeOK'
  <2>1. UNCHANGED <<loop_mode, stopped, phase, saved, loaded, loads, redo, snap, publishing, adds>>
    BY DEF LoopAmount, dbVars
  <2>2. asked' \in [next : 0..MaxAdds, gone : 0..MaxAdds]
    BY AskedFacts DEF LoopAmount
  <2> QED
    BY <1>5, <1>6, <2>1, <2>2 DEF IInv, TypeOK
<1>8. LoadedWhenPlaying'
  BY DEF LoadedWhenPlaying, LoopAmount, dbVars, IInv
<1> QED
  BY <1>5, <1>7, <1>8, ShiftedZero

\* The loop command with a mode.
LEMMA SetLoopModeStep ==
    ASSUME IInv, NEW mode \in LoopModes, SetLoopMode(mode)
    PROVE  IInv'
<1>1. queue' \in Seq(Track) /\ shifted' = 0
  BY SettledFacts DEF SetLoopMode
<1>2. TypeOK'
  BY <1>1, AskedFacts DEF SetLoopMode, IInv, TypeOK, dbVars
<1>3. LoadedWhenPlaying'
  BY DEF LoadedWhenPlaying, SetLoopMode, dbVars, IInv
<1> QED
  BY <1>1, <1>2, <1>3, ShiftedZero

\* The queue command: the part before the lock.
LEMMA QueueSnapshotStep ==
    ASSUME IInv, QueueSnapshot
    PROVE  IInv'
<1> DEFINE q == Settled(Loaded(queue), shifted)
<1>1. q \in Seq(Track)
  BY SettledFacts
<1>2. queue' = q /\ shifted' = 0 /\ loaded' = TRUE /\ asked' = Nothing
      /\ snap' = IF q = <<>> THEN NoSnap ELSE Len(q)
  BY DEF QueueSnapshot
<1> HIDE DEF q
<1>3. snap' \in Nat \cup {NoSnap}
  BY <1>1, <1>2, LenProperties
<1>4. TypeOK'
  <2>1. UNCHANGED <<current, loop_mode, stopped, phase, saved, loads, redo, publishing, adds>>
    BY DEF QueueSnapshot
  <2> QED
    BY <1>1, <1>2, <1>3, <2>1, AskedFacts DEF IInv, TypeOK
<1>5. LoadedWhenPlaying'
  BY <1>2 DEF LoadedWhenPlaying
<1> QED
  BY <1>2, <1>4, <1>5, ShiftedZero

\* The queue command: the part under the lock.
LEMMA QueueApplyStep ==
    ASSUME IInv, QueueApply
    PROVE  IInv'
<1> DEFINE q == Settled(queue, shifted)
<1>1. q \in Seq(Track) /\ Len(q) \in Nat
  BY SettledFacts, LenProperties
<1>2. QueueModified(q) /\ snap \in Nat /\ shifted' = 0
  BY DEF QueueApply, IInv, TypeOK
<1> HIDE DEF q
<1>3. queue' \in Seq(Track)
  <2>1. CASE queue' = IF snap >= 2 /\ q # <<>> THEN <<q[1]>> ELSE q
    <3>1. q # <<>> => q[1] \in Track
      BY <1>1, EmptySeq, ElementOfSeq
    <3> QED
      BY <2>1, <3>1, <1>1
  <2>2. CASE queue' \in IF Len(q) >= 3 THEN Shuffles(q) ELSE {q}
    BY <2>2, <1>1, ShufflesType
  <2>3. CASE queue' = IF snap >= 3 /\ snap <= Len(q) THEN ReversedTail(q, snap) ELSE q
    <3>1. snap >= 3 /\ snap <= Len(q) => snap \in 1..Len(q)
      BY <1>1, <1>2
    <3> QED
      BY <2>3, <3>1, <1>1, ReversedTailType
  <2>4. CASE \E users \in SUBSET Users : queue' \in RemovedUsers(q, users)
    BY <2>4, <1>1, RemovedUsersType
  <2> QED
    BY <1>2, <2>1, <2>2, <2>3, <2>4 DEF QueueModified
<1>4. TypeOK'
  BY <1>2, <1>3, AskedFacts DEF QueueApply, IInv, TypeOK, dbVars
<1>5. LoadedWhenPlaying'
  BY DEF LoadedWhenPlaying, QueueApply, dbVars, IInv
<1> QED
  BY <1>2, <1>4, <1>5, ShiftedZero

\* What the end of a track does to the queue.
LEMMA AfterEndType ==
    ASSUME TypeOK, NEW q \in Seq(Track), q # <<>>, current \in Track
    PROVE  AfterEnd(q) \in Seq(Track)
<1>1. 1 \in 1..Len(q) /\ q[1] \in Track /\ Tail(q) \in Seq(Track)
  BY EmptySeq, ElementOfSeq, HeadTailProperties
<1>2. Append(Tail(q), q[1]) \in Seq(Track)
  BY <1>1, AppendProperties
<1>3. current.repeat > 0 => [q EXCEPT ![1].repeat = current.repeat - 1] \in Seq(Track)
  <2> SUFFICES ASSUME current.repeat > 0
               PROVE  [q EXCEPT ![1].repeat = current.repeat - 1] \in Seq(Track)
    OBVIOUS
  <2> DEFINE n == current.repeat - 1
             e == [q[1] EXCEPT !.repeat = n]
  <2>1. n \in 0..MaxRepeat
    <3>1. current.repeat \in 0..MaxRepeat
      BY TrackFacts
    <3> QED
      BY <3>1, ConstantsAssumption
  <2> HIDE DEF n
  <2>2. e \in Track
    BY <1>1, <2>1, TrackFacts
  <2>3. [q EXCEPT ![1].repeat = n] = [q EXCEPT ![1] = e]
    OBVIOUS
  <2> HIDE DEF e
  <2>4. [q EXCEPT ![1] = e] \in Seq(Track)
    BY <1>1, <2>2, ExceptSeq
  <2> QED
    BY <2>3, <2>4 DEF n
<1>4. CASE stopped \/ q[1].file # current.file
  BY <1>4 DEF AfterEnd
<1>5. CASE ~(stopped \/ q[1].file # current.file) /\ current.repeat > 0 /\ q[1].repeat > 0
  BY <1>3, <1>5 DEF AfterEnd
<1>6. CASE ~(stopped \/ q[1].file # current.file) /\ ~(current.repeat > 0 /\ q[1].repeat > 0)
  <2>1. CASE loop_mode = "l_none"
    BY <1>1, <1>6, <2>1 DEF AfterEnd
  <2>2. CASE loop_mode = "l_queue"
    BY <1>2, <1>6, <2>2 DEF AfterEnd
  <2>3. CASE loop_mode # "l_none" /\ loop_mode # "l_queue"
    BY <1>6, <2>3 DEF AfterEnd
  <2> QED
    BY <2>1, <2>2, <2>3
<1> QED
  BY <1>4, <1>5, <1>6

\* handle_on_track_marker.
LEMMA TrackMarkerStep ==
    ASSUME IInv, NEW meta, NEW listening \in BOOLEAN, TrackMarker(meta, listening)
    PROVE  IInv'
<1> DEFINE q == Settled(Loaded(queue), shifted)
           r == IF q # <<>> /\ meta = "e" /\ current # NoTrack THEN AfterEnd(q) ELSE q
<1>1. q \in Seq(Track)
  BY SettledFacts
<1>2. loaded' = TRUE /\ UNCHANGED <<loop_mode, loads, redo, snap, publishing, adds, asked>>
  BY DEF TrackMarker
<1>3. \/ /\ q = <<>> /\ phase' = "idle"
         /\ UNCHANGED <<queue, shifted, current, stopped, saved>>
      \/ /\ q # <<>> /\ r = <<>> /\ queue' = r /\ shifted' = 0
         /\ current' = NoTrack /\ saved' = SavedAfter(r) /\ phase' = "idle"
         /\ UNCHANGED stopped
      \/ /\ q # <<>> /\ r # <<>> /\ queue' = r /\ shifted' = 0
         /\ current' = r[1] /\ stopped' = FALSE /\ saved' = SavedAfter(r)
         /\ phase' = IF listening THEN "starting" ELSE "idle"
  BY DEF TrackMarker
<1> HIDE DEF q
<1>4. r \in Seq(Track)
  <2>1. q # <<>> /\ current # NoTrack => AfterEnd(q) \in Seq(Track)
    BY <1>1, AfterEndType DEF IInv, TypeOK
  <2> QED
    BY <1>1, <2>1
<1> HIDE DEF r
<1>5. SavedAfter(r) \in Seq(Track)
  BY <1>4, StateFacts DEF SavedAfter
<1>6. r # <<>> => r[1] \in Track
  BY <1>4, EmptySeq, ElementOfSeq
<1>7. LoadedWhenPlaying'
  BY <1>2 DEF LoadedWhenPlaying
<1>8. CASE /\ q = <<>> /\ phase' = "idle"
           /\ UNCHANGED <<queue, shifted, current, stopped, saved>>
  <2>1. TypeOK' /\ ShiftedInRange'
    BY <1>2, <1>8 DEF IInv, TypeOK, ShiftedInRange, Phases
  <2> QED
    BY <2>1, <1>7 DEF IInv
<1>9. CASE /\ r = <<>> /\ queue' = r /\ shifted' = 0
           /\ current' = NoTrack /\ saved' = SavedAfter(r) /\ phase' = "idle"
           /\ UNCHANGED stopped
  <2>1. TypeOK'
    BY <1>2, <1>4, <1>5, <1>9 DEF IInv, TypeOK, Phases
  <2> QED
    BY <1>7, <1>9, <2>1, ShiftedZero
<1>10. CASE /\ r # <<>> /\ queue' = r /\ shifted' = 0
            /\ current' = r[1] /\ stopped' = FALSE /\ saved' = SavedAfter(r)
            /\ phase' = IF listening THEN "starting" ELSE "idle"
  <2>1. TypeOK'
    BY <1>2, <1>4, <1>5, <1>6, <1>10 DEF IInv, TypeOK, Phases
  <2> QED
    BY <1>7, <1>10, <2>1, ShiftedZero
<1> QED
  BY <1>3, <1>8, <1>9, <1>10

\* handle_on_voice_ready and the worker that plays.
LEMMA StartStep ==
    ASSUME IInv, VoiceReady \/ WorkerPlays
    PROVE  IInv'
<1>1. CASE VoiceReady
  BY <1>1 DEF VoiceReady, playerVars, dbVars, IInv, TypeOK, ShiftedInRange, LoadedWhenPlaying, Phases
<1>2. CASE WorkerPlays
  BY <1>2, AskedFacts
     DEF WorkerPlays, playerVars, dbVars, IInv, TypeOK, ShiftedInRange, LoadedWhenPlaying, Phases
<1> QED
  BY <1>1, <1>2

\* The worker that finds no file.
LEMMA WorkerFailsStep ==
    ASSUME IInv, NEW giveUp \in BOOLEAN, NEW download \in BOOLEAN, WorkerFails(giveUp, download)
    PROVE  IInv'
<1> DEFINE q == Settled(queue, shifted)
<1>1. q \in Seq(Track)
  BY SettledFacts
<1>2. queue' = SkippedQueue(q, loop_mode, 1, TRUE, TRUE) /\ shifted' = 0
  BY DEF WorkerFails
<1> HIDE DEF q
<1>3. queue' \in Seq(Track)
  <2>1. SkippedQueue(q, loop_mode, 1, TRUE, TRUE) \in Seq(Track)
    <3>1. 1 \in Int /\ TRUE \in BOOLEAN
      OBVIOUS
    <3> QED
      BY <1>1, <3>1, TrackFacts, SkippedQueueType
  <2> QED
    BY <1>2, <2>1
<1>4. current' \in Track \cup {NoTrack} /\ redo' \in Track \cup {NoTrack}
  BY StateFacts DEF WorkerFails
<1>5. phase' \in Phases /\ phase = "starting" /\ stopped' \in BOOLEAN
  BY DEF WorkerFails, Phases, IInv, TypeOK
<1>6. TypeOK'
  <2>1. UNCHANGED <<loop_mode, saved, loaded, loads, snap, publishing, adds>>
    BY DEF WorkerFails, dbVars
  <2>2. asked' \in [next : 0..MaxAdds, gone : 0..MaxAdds]
    BY AskedFacts DEF WorkerFails
  <2> QED
    BY <1>2, <1>3, <1>4, <1>5, <2>1, <2>2 DEF IInv, TypeOK
<1>7. LoadedWhenPlaying'
  BY <1>5 DEF LoadedWhenPlaying, WorkerFails, dbVars, IInv
<1> QED
  BY <1>2, <1>6, <1>7, ShiftedZero

\* The redownloaded track.
LEMMA RedownloadedStep ==
    ASSUME IInv, NEW listening \in BOOLEAN, Redownloaded(listening)
    PROVE  IInv'
<1> DEFINE a == Added(queue, redo, TRUE, 0)
           n == ShiftedAfterAdd(queue, shifted, TRUE, 0)
<1>1. redo \in Track
  BY StateFacts DEF Redownloaded
<1>2. a \in Seq(Track) /\ n \in Nat /\ (n = 0 \/ n < Len(a))
  <2>1. /\ queue \in Seq(Track) /\ shifted \in Nat
        /\ shifted = 0 \/ shifted < Len(queue)
    BY StateFacts
  <2>2. TRUE \in BOOLEAN /\ 0 \in Nat
    OBVIOUS
  <2>3. /\ Added(queue, redo, TRUE, 0) = <<redo>> \o queue
        /\ <<redo>> \in Seq(Track)
    BY <1>1 DEF Added, OnTop
  <2>4. /\ <<redo>> \o queue \in Seq(Track)
        /\ Len(<<redo>> \o queue) = Len(queue) + 1
    BY <2>1, <2>3, ConcatType
  <2>5. /\ ShiftedAfterAdd(queue, shifted, TRUE, 0) \in Nat
        /\ ShiftedAfterAdd(queue, shifted, TRUE, 0) < Len(queue) + 1
    BY <1>1, <2>1, <2>2, AddedType
  <2> QED
    BY <2>3, <2>4, <2>5
<1>3. queue' = Settled(a, n) /\ shifted' = 0
  BY DEF Redownloaded
<1> HIDE DEF a, n
<1>4. queue' \in Seq(Track)
  BY <1>2, <1>3, SettledType
<1>5. phase' \in Phases /\ (phase' = "idle" \/ phase' = "start" \/ loaded)
  BY StateFacts DEF Redownloaded
<1>6. TypeOK'
  <2>1. UNCHANGED <<current, loop_mode, stopped, saved, loaded, loads, snap, publishing, adds>>
    BY DEF Redownloaded, dbVars
  <2>2. redo' = NoTrack /\ asked' \in [next : 0..MaxAdds, gone : 0..MaxAdds]
    BY AskedFacts DEF Redownloaded
  <2> QED
    BY <1>3, <1>4, <1>5, <2>1, <2>2 DEF IInv, TypeOK
<1>7. LoadedWhenPlaying'
  BY <1>5 DEF LoadedWhenPlaying, Redownloaded, dbVars
<1> QED
  BY <1>3, <1>6, <1>7, ShiftedZero

\* The end of the stream.
LEMMA StreamEndsStep ==
    ASSUME IInv, StreamEnds
    PROVE  IInv'
<1> DEFINE q == Settled(queue, shifted)
<1>1. KeyAt(q, 2) \in 0..MaxAdds
  <2>1. q \in Seq(Track) /\ 2 \in Int
    BY SettledFacts
  <2> HIDE DEF q
  <2> QED
    BY <2>1, KeyFacts
<1>2. asked' \in [next : 0..MaxAdds, gone : 0..MaxAdds]
  <2> HIDE DEF q
  <2> QED
    BY <1>1, StateFacts, AskedFacts DEF StreamEnds, q
<1>3. phase' \in Phases /\ phase = "playing"
  BY DEF StreamEnds, Phases
<1> QED
  BY <1>2, <1>3 DEF StreamEnds, playerVars, dbVars, IInv, TypeOK, ShiftedInRange, LoadedWhenPlaying

\* A restart.
LEMMA RestartStep ==
    ASSUME IInv, Restart
    PROVE  IInv'
<1>1. TypeOK'
  <2>1. /\ queue' = <<>> /\ shifted' = 0 /\ current' = NoTrack /\ redo' = NoTrack
        /\ stopped' = FALSE /\ phase' = "idle" /\ loaded' = FALSE /\ snap' = NoSnap
        /\ publishing' = 0 /\ asked' = Nothing /\ UNCHANGED <<saved, adds>>
    BY DEF Restart
  <2>2. loop_mode' \in LoopModes /\ loads' \in 0..MaxLoads
    BY ConstantsAssumption DEF Restart, IInv, TypeOK
  <2>3. publishing' \in 0..adds' /\ asked' \in [next : 0..MaxAdds, gone : 0..MaxAdds]
    BY <2>1, AskedFacts, ConstantsAssumption DEF IInv, TypeOK
  <2>4. queue' \in Seq(Track)
    BY <2>1, EmptySeq
  <2> QED
    BY <2>1, <2>2, <2>3, <2>4 DEF IInv, TypeOK, Phases
<1>2. LoadedWhenPlaying' /\ shifted' = 0
  BY DEF LoadedWhenPlaying, Restart
<1> QED
  BY <1>1, <1>2, ShiftedZero

----------------------------------------------------------------------------
\* The invariant holds at the start and is kept by every step.
LEMMA InitIInv == Init => IInv
<1> SUFFICES ASSUME Init PROVE IInv
  OBVIOUS
<1>1. queue \in Seq(Track) /\ saved \in Seq(Track)
  BY EmptySeq DEF Init
<1>2. asked \in [next : 0..MaxAdds, gone : 0..MaxAdds]
  BY AskedFacts DEF Init
<1>3. loop_mode \in LoopModes /\ loads \in 0..MaxLoads /\ adds \in 0..MaxAdds
  BY ConstantsAssumption DEF Init
<1>4. publishing \in 0..adds /\ phase \in Phases
  BY DEF Init, Phases
<1> QED
  BY <1>1, <1>2, <1>3, <1>4
     DEF Init, IInv, TypeOK, ShiftedInRange, LoadedWhenPlaying

\* Every step of a command keeps the invariant.
LEMMA CommandStep ==
    ASSUME IInv, Command
    PROVE  IInv'
<1>1. CASE AddCommand
  <2>1. 0 \in Nat /\ Slips \subseteq Nat
    BY ConstantsAssumption
  <2> QED
    BY <1>1, <2>1, AddTrackStep DEF AddCommand
<1>2. CASE \E listening \in BOOLEAN : Publish(listening)
  BY <1>2, PublishStep
<1>3. CASE \E n \in SkipAmounts, remove \in BOOLEAN : Skip(n, remove)
  BY <1>3, ConstantsAssumption, SkipStep
<1>4. CASE Prev
  BY <1>4, PrevStep
<1>5. CASE Stop
  BY <1>5, StopStep
<1>6. CASE \E fr, to \in 1..(MaxAdds - 1) : Move(fr, to)
  <2>1. \A i \in 1..(MaxAdds - 1) : i \in Nat
    BY ConstantsAssumption
  <2> QED
    BY <1>6, <2>1, MoveStep
<1>7. CASE RemoveCommand
  <2>1. PICK pos \in 1..(MaxAdds - 1) :
            \/ \E n \in 1..(MaxAdds - 1) : RemoveTrack(pos, n, NoTo)
            \/ \E to \in pos..(MaxAdds - 1) : RemoveTrack(pos, 1, to)
    BY <1>7 DEF RemoveCommand
  <2>2. pos \in Nat /\ 1 \in Nat /\ NoTo \in Int
    BY ConstantsAssumption DEF NoTo
  <2>3. CASE \E n \in 1..(MaxAdds - 1) : RemoveTrack(pos, n, NoTo)
    <3>1. PICK n \in 1..(MaxAdds - 1) : RemoveTrack(pos, n, NoTo)
      BY <2>3
    <3>2. n \in Nat
      BY ConstantsAssumption
    <3> QED
      BY <3>1, <3>2, <2>2, RemoveTrackStep
  <2>4. CASE \E to \in pos..(MaxAdds - 1) : RemoveTrack(pos, 1, to)
    <3>1. PICK to \in pos..(MaxAdds - 1) : RemoveTrack(pos, 1, to)
      BY <2>4
    <3>2. to \in Int
      BY ConstantsAssumption
    <3> QED
      BY <3>1, <3>2, <2>2, RemoveTrackStep
  <2> QED
    BY <2>1, <2>3, <2>4
<1>8. CASE GetQueue
  BY <1>8, GetQueueStep
<1>9. CASE \E n \in 0..MaxRepeat : LoopAmount(n)
  BY <1>9, LoopAmountStep
<1>10. CASE \E m \in LoopModes : SetLoopMode(m)
  BY <1>10, SetLoopModeStep
<1>11. CASE QueueSnapshot
  BY <1>11, QueueSnapshotStep
<1>12. CASE QueueApply
  BY <1>12, QueueApplyStep
<1> QED
  BY <1>1, <1>2, <1>3, <1>4, <1>5, <1>6, <1>7, <1>8, <1>9, <1>10, <1>11, <1>12 DEF Command

\* Every step of playback keeps the invariant.
LEMMA PlaybackStep ==
    ASSUME IInv, Playback
    PROVE  IInv'
<1>1. CASE \E meta \in {"s", "e"}, listening \in BOOLEAN : TrackMarker(meta, listening)
  BY <1>1, TrackMarkerStep
<1>2. CASE VoiceReady \/ WorkerPlays
  BY <1>2, StartStep
<1>3. CASE \E giveUp, download \in BOOLEAN : WorkerFails(giveUp, download)
  BY <1>3, WorkerFailsStep
<1>4. CASE \E listening \in BOOLEAN : Redownloaded(listening)
  BY <1>4, RedownloadedStep
<1>5. CASE StreamEnds
  BY <1>5, StreamEndsStep
<1> QED
  BY <1>1, <1>2, <1>3, <1>4, <1>5 DEF Playback

\* Every step keeps the invariant.
LEMMA NextIInv ==
    ASSUME IInv, [Next]_vars
    PROVE  IInv'
<1>1. CASE UNCHANGED vars
  BY <1>1 DEF vars, playerVars, dbVars, IInv, TypeOK, ShiftedInRange, LoadedWhenPlaying
<1> QED
  BY <1>1, CommandStep, PlaybackStep, RestartStep DEF Next

\* The inductive invariant holds in every reachable state.
THEOREM Invariant == Spec => []IInv
  BY InitIInv, NextIInv, PTL DEF Spec

\* The player's fields, the saved queue and the bounds keep their types.
THEOREM TypeCorrect == Spec => []TypeOK
<1>1. IInv => TypeOK
  BY DEF IInv
<1> QED
  BY <1>1, Invariant, PTL

\* reset_shifted and get_queue never index the deque past its end: whatever
\* commands, markers, failures and restarts came before, shifted_track is 0 or
\* the index of an entry.
THEOREM ShiftedCorrect == Spec => []ShiftedInRange
<1>1. IInv => ShiftedInRange
  BY DEF IInv
<1> QED
  BY <1>1, Invariant, PTL

----------------------------------------------------------------------------
\* Once the marker handler has handled the end of a track it has saved the
\* queue it leaves: only a marker takes the phase from "start" or "end" to
\* "idle" or "starting" while the saved queue stays loaded.
THEOREM SavedCorrect == Spec => SavedFollowsQueue
<1> DEFINE A == loaded /\ loaded' /\ queue # <<>>
                 /\ phase \in {"start", "end"} /\ phase' \in {"idle", "starting"}
                   => KeySet(saved') = KeySet(queue')
<1>1. ASSUME IInv, [Next]_vars PROVE [A]_vars
  <2> SUFFICES ASSUME IInv, Next, loaded, loaded', queue # <<>>,
                      phase \in {"start", "end"}, phase' \in {"idle", "starting"}
               PROVE  KeySet(saved') = KeySet(queue')
    BY <1>1
  <2>1. PICK meta \in {"s", "e"}, listening \in BOOLEAN : TrackMarker(meta, listening)
    <3>1. ~Command
      BY DEF Command, AddCommand, AddTrack, Publish, DecidedPhase, Skip, Prev, Stop, StoppedPhase,
             Move, RemoveCommand, RemoveTrack, GetQueue, LoopAmount, SetLoopMode,
             QueueSnapshot, QueueApply
    <3>2. ~Restart
      BY DEF Restart
    <3> QED
      BY <3>1, <3>2 DEF Next, Playback, VoiceReady, WorkerPlays, WorkerFails, Redownloaded,
                        DecidedPhase, StreamEnds
  <2>2. Settled(Loaded(queue), shifted) # <<>>
    <3>1. queue \in Seq(Track) /\ Settled(queue, shifted) \in Seq(Track)
      BY StateFacts, SettledFacts
    <3>2. Loaded(queue) = queue
      BY DEF Loaded
    <3>3. /\ shifted \in Nat /\ (shifted = 0 \/ shifted < Len(queue))
      BY StateFacts
    <3>4. Len(Settled(queue, shifted)) = Len(queue)
      BY <3>1, <3>3, SettledType
    <3> QED
      BY <3>1, <3>2, <3>4, EmptySeq
  <2>3. saved' = SavedAfter(queue')
    BY <2>1, <2>2 DEF TrackMarker
  <2> QED
    BY <2>3 DEF SavedAfter
<1> QED
  BY <1>1, Invariant, PTL DEF Spec, SavedFollowsQueue

\* What a first marker or queue command after a restart makes of the queue:
\* the saved entries stand behind the others.
LEMMA LoadedBehind ==
    ASSUME IInv, ~loaded
    PROVE  LET q == Settled(Loaded(queue), shifted)
           IN  /\ Len(q) = Len(queue) + Len(saved)
               /\ \A i \in 1..Len(saved) : q[Len(queue) + i].key = saved[i].key
<1>1. /\ queue \in Seq(Track) /\ Len(queue) \in Nat /\ shifted \in Nat
      /\ shifted = 0 \/ shifted < Len(queue)
      /\ saved \in Seq(Track) /\ Len(saved) \in Nat
  BY StateFacts, LenProperties
<1>2. Loaded(queue) \in Seq(Track) /\ Len(Loaded(queue)) = Len(queue) + Len(saved)
  BY <1>1, LoadedType DEF IInv
<1>3. Len(Settled(Loaded(queue), shifted)) = Len(queue) + Len(saved)
  BY <1>1, <1>2, SettledType
<1>4. ASSUME NEW i \in 1..Len(saved)
      PROVE  Settled(Loaded(queue), shifted)[Len(queue) + i].key = saved[i].key
  <2> DEFINE j == Len(queue) + i
  <2>1. j \in 1..Len(Loaded(queue)) /\ (shifted = 0 \/ shifted + 1 < j) /\ j > Len(queue)
    BY <1>1, <1>2
  <2>2. j - Len(queue) = i
    BY <1>1
  <2> HIDE DEF j
  <2>3. Settled(Loaded(queue), shifted)[j] = Loaded(queue)[j]
    BY <1>1, <1>2, <2>1, SettledKeeps
  <2>4. Loaded(queue)[j] = Restored[i]
    <3>1. Restored \in Seq(Track) /\ Len(Restored) = Len(saved)
      BY <1>1, RestoredType
    <3>2. Loaded(queue) = queue \o Restored
      BY DEF Loaded
    <3> QED
      BY <1>1, <1>2, <2>1, <2>2, <3>1, <3>2, ConcatProperties
  <2>5. Restored[i].key = saved[i].key
    <3>1. Restored[i] = [saved[i] EXCEPT !.user = Bot, !.repeat = 0]
      BY DEF Restored
    <3>2. saved[i] \in Track
      BY <1>1, ElementOfSeq
    <3> QED
      BY <3>1, <3>2 DEF Track
  <2> QED
    BY <2>3, <2>4, <2>5 DEF j
<1> QED
  BY <1>3, <1>4

\* The entries a restart brings back come in their saved order, behind those
\* added before they were loaded, even when tracks were put on top meanwhile.
THEOREM RestoredCorrect == Spec => RestoredBehindNew
<1> DEFINE A == ~loaded /\ loaded' /\ queue' # <<>>
                 => /\ Len(queue') = Len(queue) + Len(saved)
                    /\ \A i \in 1..Len(saved) : queue'[Len(queue) + i].key = saved[i].key
<1>1. ASSUME IInv, [Next]_vars PROVE [A]_vars
  <2> SUFFICES ASSUME IInv, Next, ~loaded, loaded', queue' # <<>>
               PROVE  queue' = Settled(Loaded(queue), shifted)
    BY <1>1, LoadedBehind
  <2>1. \/ QueueSnapshot
        \/ \E meta \in {"s", "e"}, listening \in BOOLEAN : TrackMarker(meta, listening)
    <3>1. CASE Command
      BY <3>1 DEF Command, AddCommand, AddTrack, Publish, Skip, Prev, Stop, Move, RemoveCommand,
                  RemoveTrack, GetQueue, LoopAmount, SetLoopMode, QueueApply, dbVars
    <3>2. CASE Playback
      BY <3>2 DEF Playback, VoiceReady, WorkerPlays, WorkerFails, Redownloaded, StreamEnds, dbVars
    <3>3. CASE Restart
      BY <3>3 DEF Restart
    <3> QED
      BY <3>1, <3>2, <3>3 DEF Next
  <2>2. CASE QueueSnapshot
    BY <2>2 DEF QueueSnapshot
  <2>3. CASE \E meta \in {"s", "e"}, listening \in BOOLEAN : TrackMarker(meta, listening)
    <3>1. PICK meta \in {"s", "e"}, listening \in BOOLEAN : TrackMarker(meta, listening)
      BY <2>3
    <3>2. meta # "e"
      BY <3>1 DEF TrackMarker, IInv, LoadedWhenPlaying
    <3> DEFINE q == Settled(Loaded(queue), shifted)
    <3>3. \/ q = <<>> /\ queue' = queue
          \/ q # <<>> /\ queue' = q
      BY <3>1, <3>2 DEF TrackMarker
    <3>4. q = <<>> => queue = <<>>
      <4>1. queue \in Seq(Track) /\ Len(queue) \in Nat /\ Len(saved) \in Nat
        BY StateFacts, LoadedType DEF IInv
      <4>2. Len(q) = Len(queue) + Len(saved)
        BY LoadedBehind
      <4> HIDE DEF q
      <4> QED
        BY <4>1, <4>2, EmptySeq
    <3> QED
      BY <3>3, <3>4
  <2> QED
    BY <2>1, <2>2, <2>3
<1> QED
  BY <1>1, Invariant, PTL DEF Spec, RestoredBehindNew

----------------------------------------------------------------------------
(***************************************************************************)
(* No entry is in the queue twice.  Where tracks may fail to play, the     *)
(* worker takes the first entry for the one that failed, so that it must   *)
(* be the first still: no command may have moved it in between.            *)
(***************************************************************************)
FailsApart ==
    "fail" \in Commands =>
        Slips \subseteq {0, 1} /\ Commands \cap {"skip", "prev", "move", "loop"} = {}

\* The keys of q are different and were given to entries already.
Keyed(q, n) == Distinct(q) /\ \A i \in 1..Len(q) : q[i].key <= n

Lacks(q, k) == \A i \in 1..Len(q) : q[i].key # k

\* Until the saved queue is loaded, nothing plays and no entry is in both.
SavedApart ==
    ~loaded => current = NoTrack /\ \A j \in 1..Len(saved) : Lacks(queue, saved[j].key)

\* The track a worker is about to play is where shifted_track points.
StartsFirst ==
    "fail" \in Commands /\ phase = "starting" =>
        queue # <<>> /\ queue[shifted + 1].key = current.key

\* The failed entry that comes back is not in the queue meanwhile.
RedoIsAway ==
    redo # NoTrack => /\ "fail" \in Commands /\ loaded
                      /\ redo.key <= adds /\ Lacks(queue, redo.key)

DInv ==
    /\ Keyed(queue, adds)
    /\ Keyed(saved, adds)
    /\ current.key <= adds
    /\ SavedApart
    /\ StartsFirst
    /\ RedoIsAway

\* The repeat count and the owner are not the key.
LEMMA TrackKeys ==
    /\ \A t \in Track, n \in 0..MaxRepeat :
          [t EXCEPT !.repeat = n] \in Track /\ [t EXCEPT !.repeat = n].key = t.key
    /\ \A t \in Track : [t EXCEPT !.repeat = 0] \in Track /\ [t EXCEPT !.repeat = 0].key = t.key
    /\ \A t \in Track : [t EXCEPT !.user = Bot, !.repeat = 0].key = t.key
    /\ \A t \in Track \cup {NoTrack} : NotRepeated(t).key = t.key
    /\ \A t \in Track : t.key \in Nat /\ t.key > 0
<1>1. \A t \in Track, n \in 0..MaxRepeat :
        [t EXCEPT !.repeat = n] \in Track /\ [t EXCEPT !.repeat = n].key = t.key
  BY DEF Track
<1>2. \A t \in Track : [t EXCEPT !.user = Bot, !.repeat = 0].key = t.key
  BY DEF Track
<1>3. \A t \in Track : [t EXCEPT !.repeat = 0] \in Track /\ [t EXCEPT !.repeat = 0].key = t.key
  BY <1>1, TrackFacts
<1>4. \A t \in Track \cup {NoTrack} : NotRepeated(t).key = t.key
  BY <1>3 DEF NotRepeated
<1>5. \A t \in Track : t.key \in Nat /\ t.key > 0
  BY DEF Track
<1> QED
  BY <1>1, <1>2, <1>3, <1>4, <1>5

\* Nor the file.
LEMMA TrackIds ==
    /\ \A t \in Track, n \in 0..MaxRepeat :
          [t EXCEPT !.repeat = n] \in Track /\ Id([t EXCEPT !.repeat = n]) = Id(t)
    /\ \A t \in Track : [t EXCEPT !.repeat = 0] \in Track /\ Id([t EXCEPT !.repeat = 0]) = Id(t)
    /\ \A t \in Track : Id([t EXCEPT !.user = Bot, !.repeat = 0]) = Id(t)
    /\ \A t \in Track : NotRepeated(t) \in Track /\ Id(NotRepeated(t)) = Id(t)
<1>1. \A t \in Track, n \in 0..MaxRepeat :
        [t EXCEPT !.repeat = n] \in Track /\ Id([t EXCEPT !.repeat = n]) = Id(t)
  BY DEF Track, Id
<1>2. \A t \in Track : Id([t EXCEPT !.user = Bot, !.repeat = 0]) = Id(t)
  BY DEF Track, Id
<1>3. \A t \in Track : [t EXCEPT !.repeat = 0] \in Track /\ Id([t EXCEPT !.repeat = 0]) = Id(t)
  BY <1>1, TrackFacts
<1>4. \A t \in Track : NotRepeated(t) \in Track /\ Id(NotRepeated(t)) = Id(t)
  BY <1>3 DEF NotRepeated
<1> QED
  BY <1>1, <1>2, <1>3, <1>4

\* What is drawn from a queue has its properties.
LEMMA FromKeyed ==
    ASSUME NEW q, NEW r, From(r, q, All(q))
    PROVE  /\ \A n : Keyed(q, n) => Keyed(r, n)
           /\ \A k : Lacks(q, k) => Lacks(r, k)
<1>1. ASSUME NEW n, Keyed(q, n) PROVE Keyed(r, n)
  <2>1. Distinct(r) /\ \A i \in 1..Len(r) : \E j \in 1..Len(q) : r[i].key = q[j].key
    BY <1>1, FromDistinct DEF Keyed
  <2> QED
    BY <1>1, <2>1 DEF Keyed
<1>2. \A k : Lacks(q, k) => Lacks(r, k)
  <2>1. PICK f \in [1..Len(r) -> 1..Len(q)] : \A i \in 1..Len(r) : Id(r[i]) = Id(q[f[i]])
    BY DEF From, All
  <2>2. \A i \in 1..Len(r) : f[i] \in 1..Len(q) /\ r[i].key = q[f[i]].key
    BY <2>1, IdKey
  <2> QED
    BY <2>1, <2>2 DEF Lacks
<1> QED
  BY <1>1, <1>2

\* What is drawn from the settled queue is drawn from the queue.
LEMMA FromQueue ==
    ASSUME IInv, NEW r, From(r, Settled(queue, shifted), All(Settled(queue, shifted)))
    PROVE  From(r, queue, All(queue))
<1>1. From(Settled(queue, shifted), queue, All(queue))
  BY StateFacts, FromSettled
<1> DEFINE q == Settled(queue, shifted)
<1> HIDE DEF q
<1> QED
  BY <1>1, FromTrans DEF q

\* The steps that draw the new queue from the old one.
LEMMA DrawnStep ==
    ASSUME DInv, From(queue', queue, All(queue)), UNCHANGED <<saved, loaded, redo, adds>>,
           current'.key <= adds, ~loaded => current' = NoTrack, StartsFirst'
    PROVE  DInv'
<1>1. Keyed(queue', adds) /\ \A k : Lacks(queue, k) => Lacks(queue', k)
  BY FromKeyed DEF DInv
<1>2. SavedApart' /\ RedoIsAway'
  BY <1>1 DEF DInv, SavedApart, RedoIsAway
<1> QED
  BY <1>1, <1>2 DEF DInv

\* The steps that settle the queue and keep its first entry, or that no
\* instance with failing tracks takes.
LEMMA SettledStep ==
    ASSUME IInv, DInv, From(queue', queue, All(queue)), UNCHANGED <<saved, loaded, redo, adds>>,
           current' = current \/ current' = NotRepeated(current), shifted' = 0,
           \/ "fail" \notin Commands
           \/ /\ KeepsFirst(queue', Settled(queue, shifted)) /\ UNCHANGED current
              /\ phase' = "starting" => phase = "starting"
    PROVE  DInv'
<1>1. /\ queue \in Seq(Track) /\ shifted \in Nat /\ (shifted = 0 \/ shifted < Len(queue))
      /\ current \in Track \cup {NoTrack}
  BY StateFacts
<1>2. current'.key = current.key /\ (~loaded => current' = NoTrack)
  BY <1>1, TrackKeys DEF DInv, SavedApart, NotRepeated
<1>3. StartsFirst'
  <2> SUFFICES ASSUME "fail" \in Commands, phase' = "starting"
               PROVE  queue' # <<>> /\ queue'[1].key = current'.key
    BY DEF StartsFirst
  <2>1. queue # <<>> /\ queue[shifted + 1].key = current.key
    BY DEF DInv, StartsFirst
  <2>2. shifted < Len(queue)
    BY <1>1, <2>1, EmptySeq
  <2>3. Settled(queue, shifted) # <<>> /\ Settled(queue, shifted)[1] = queue[shifted + 1]
    BY <1>1, <2>1, <2>2, SettledFirst
  <2> QED
    BY <1>2, <2>1, <2>3 DEF KeepsFirst
<1> QED
  BY <1>2, <1>3, DrawnStep DEF DInv

\* The commands that leave the queue, and playback where it does.
LEMMA SameQueueStep ==
    ASSUME DInv, UNCHANGED <<queue, shifted, current, saved, loaded, redo, adds>>,
           phase' = "starting" => phase = "starting"
    PROVE  DInv'
  BY DEF DInv, SavedApart, StartsFirst, RedoIsAway

\* add_track.
LEMMA AddTrackDistinct ==
    ASSUME FailsApart, IInv, DInv, NEW file \in Files, NEW user \in Users,
           NEW top \in BOOLEAN, NEW slip \in Slips \cup {0}, AddTrack(file, user, top, slip)
    PROVE  DInv'
<1> DEFINE t == [key |-> adds + 1, file |-> file, user |-> user, repeat |-> 0]
           p == queue \o <<t>>
<1>1. t \in Track /\ t.key = adds + 1 /\ adds \in Nat
  BY ConstantsAssumption DEF AddTrack, IInv, TypeOK, Track
<1>2. /\ queue' = Added(queue, t, top, slip) /\ shifted' = ShiftedAfterAdd(queue, shifted, top, slip)
      /\ adds' = adds + 1 /\ UNCHANGED <<current, phase, saved, loaded, redo>>
  BY DEF AddTrack, dbVars
<1>3. queue \in Seq(Track) /\ shifted \in Nat /\ saved \in Seq(Track) /\ slip \in Nat
  BY StateFacts, ConstantsAssumption
<1> HIDE DEF t
<1>4. From(queue', p, All(p))
  BY <1>1, <1>2, <1>3, FromAdded
<1>5. \A i \in 1..Len(queue) : queue[i].key \in Nat /\ queue[i].key <= adds
  BY <1>3, TrackKeys, ElementOfSeq DEF DInv, Keyed
<1>6. /\ Distinct(p)
      /\ \A i \in 1..Len(p) : p[i] = t \/ \E j \in 1..Len(queue) : p[i] = queue[j]
  <2> DEFINE b == <<t>>
  <2>1. b \in Seq(Track) /\ Len(b) = 1 /\ b[1] = t
    BY <1>1
  <2> HIDE DEF b
  <2>2. Distinct(b) /\ \A j \in 1..Len(b) : b[j] = t
    BY <2>1 DEF Distinct
  <2>3. \A i \in 1..Len(queue), j \in 1..Len(b) : queue[i].key # b[j].key
    BY <1>1, <1>5, <2>2
  <2>4. /\ Distinct(queue \o b)
        /\ \A i \in 1..Len(queue \o b) : \/ \E j \in 1..Len(queue) : (queue \o b)[i] = queue[j]
                                         \/ \E j \in 1..Len(b) : (queue \o b)[i] = b[j]
    <3>1. queue \in Seq(Track) /\ b \in Seq(Track) /\ Distinct(queue) /\ Distinct(b)
      BY <1>3, <2>1, <2>2 DEF DInv, Keyed
    <3> QED
      BY <2>3, <3>1, DistinctConcat
  <2> QED
    BY <2>2, <2>4 DEF b
<1> HIDE DEF p
<1>7. Keyed(p, adds + 1)
  <2>1. \A j \in 1..Len(queue) : queue[j].key <= adds + 1
    BY <1>1, <1>5
  <2>2. t.key <= adds + 1
    BY <1>1
  <2> QED
    BY <1>6, <2>1, <2>2 DEF Keyed
<1>8. \A k : Lacks(queue, k) /\ k # adds + 1 => Lacks(p, k)
  BY <1>1, <1>6 DEF Lacks
<1>9. Keyed(queue', adds') /\ \A k : Lacks(queue, k) /\ k # adds + 1 => Lacks(queue', k)
  BY <1>2, <1>4, <1>7, <1>8, FromKeyed
<1>10. Keyed(saved', adds') /\ \A j \in 1..Len(saved) : saved[j].key # adds + 1
  <2>1. \A i \in 1..Len(saved) : saved[i].key \in Nat /\ saved[i].key <= adds
    BY <1>3, TrackKeys, ElementOfSeq DEF DInv, Keyed
  <2>2. \A i \in 1..Len(saved) : saved[i].key <= adds + 1 /\ saved[i].key # adds + 1
    BY <1>1, <2>1
  <2> QED
    BY <1>2, <2>2 DEF DInv, Keyed
<1>11. current'.key <= adds'
  BY <1>1, <1>2, StateFacts DEF DInv
<1>12. SavedApart'
  BY <1>2, <1>9, <1>10 DEF DInv, SavedApart
<1>13. RedoIsAway'
  <2> SUFFICES ASSUME redo # NoTrack
               PROVE  redo.key <= adds + 1 /\ Lacks(queue', redo.key)
    BY <1>2 DEF DInv, RedoIsAway
  <2>1. redo.key \in Nat /\ redo.key <= adds /\ Lacks(queue, redo.key)
    BY StateFacts, TrackKeys DEF DInv, RedoIsAway
  <2>2. redo.key # adds + 1 /\ redo.key <= adds + 1
    BY <1>1, <2>1
  <2> QED
    BY <1>9, <2>1, <2>2
<1>14. StartsFirst'
  <2> SUFFICES ASSUME "fail" \in Commands, phase = "starting"
               PROVE  queue' # <<>> /\ queue'[shifted' + 1].key = current.key
    BY <1>2 DEF StartsFirst
  <2>1. queue # <<>> /\ queue[shifted + 1].key = current.key
    BY DEF DInv, StartsFirst
  <2>2. shifted < Len(queue) /\ slip \in {0, 1}
    BY <1>3, <2>1, StateFacts, EmptySeq DEF FailsApart
  <2>3. queue'[shifted' + 1] = queue[shifted + 1]
    BY <1>1, <1>2, <1>3, <2>1, <2>2, AddedOnTopFirst
  <2>4. Len(queue') = Len(queue) + 1
    BY <1>1, <1>2, <1>3, <2>2, AddedType
  <2>5. queue' # <<>>
    BY <1>3, <2>4, LenProperties, EmptySeq
  <2> QED
    BY <2>1, <2>3, <2>5
<1> QED
  BY <1>9, <1>10, <1>11, <1>12, <1>13, <1>14 DEF DInv

\* What the queue command does under the lock draws on the queue and keeps its
\* first entry.
LEMMA ModifiedKeepsFirst ==
    ASSUME NEW q \in Seq(Track), snap \in Nat, QueueModified(q)
    PROVE  From(queue', q, All(q)) /\ KeepsFirst(queue', q)
<1>1. Len(q) \in Nat
  BY LenProperties
<1>2. From(q, q, All(q)) /\ KeepsFirst(q, q)
  BY FromSame DEF KeepsFirst
<1>3. CASE queue' = IF snap >= 2 /\ q # <<>> THEN <<q[1]>> ELSE q
  <2>1. CASE snap >= 2 /\ q # <<>>
    <3>1. {1} \subseteq All(q)
      BY <1>1, <2>1, EmptySeq DEF All
    <3>2. From(<<q[1]>>, q, {1})
      BY FromFew
    <3>3. From(<<q[1]>>, q, All(q))
      BY <3>1, <3>2, FromWider
    <3>4. KeepsFirst(<<q[1]>>, q)
      BY DEF KeepsFirst
    <3> QED
      BY <1>3, <2>1, <3>3, <3>4
  <2> QED
    BY <1>2, <1>3, <2>1
<1>4. CASE queue' \in IF Len(q) >= 3 THEN Shuffles(q) ELSE {q}
  BY <1>1, <1>2, <1>4, FromShuffles, ShufflesFirst
<1>5. CASE queue' = IF snap >= 3 /\ snap <= Len(q) THEN ReversedTail(q, snap) ELSE q
  <2>1. snap >= 3 /\ snap <= Len(q) => snap \in 1..Len(q)
    BY <1>1
  <2> QED
    BY <1>1, <1>2, <1>5, <2>1, FromReversedTail, ReversedTailFirst
<1>6. CASE \E users \in SUBSET Users : queue' \in RemovedUsers(q, users)
  <2>1. PICK users \in SUBSET Users : queue' \in RemovedUsers(q, users)
    BY <1>6
  <2>2. KeepsFirst(queue', q)
    BY <1>1, <2>1, RemovedUsersFirst
  <2> DEFINE I == {i \in 1..Len(q) : i = 1 \/ q[i].user \notin users}
  <2>3. queue' \in EntriesAt(q, I) /\ I \in SUBSET (1..Len(q))
    BY <2>1 DEF RemovedUsers
  <2> HIDE DEF I
  <2>4. From(queue', q, All(q))
    BY <1>1, <2>3, FromEntriesAt
  <2> QED
    BY <2>2, <2>4
<1> QED
  BY <1>3, <1>4, <1>5, <1>6 DEF QueueModified

\* The commands that rearrange or shorten the settled queue.
LEMMA SettledCommandDistinct ==
    ASSUME FailsApart, IInv, DInv,
           \/ \E listening \in BOOLEAN : Publish(listening)
           \/ \E n \in Int, remove \in BOOLEAN : Skip(n, remove)
           \/ Prev
           \/ \E fr, to \in Nat : Move(fr, to)
           \/ \E pos, n \in Nat, to \in Int : RemoveTrack(pos, n, to)
           \/ GetQueue
           \/ \E mode \in LoopModes : SetLoopMode(mode)
           \/ QueueApply
    PROVE  DInv'
<1> DEFINE q == Settled(queue, shifted)
<1>1. q \in Seq(Track) /\ Len(q) \in Nat /\ From(q, queue, All(queue))
  BY SettledFacts, StateFacts, LenProperties, FromSettled
<1>2. \A r : From(r, q, All(q)) => From(r, queue, All(queue))
  BY FromQueue
<1>3. KeepsFirst(q, q)
  BY DEF KeepsFirst
<1>4. CASE \E listening \in BOOLEAN : Publish(listening)
  <2>1. /\ queue' = q /\ shifted' = 0 /\ UNCHANGED <<current, saved, loaded, redo, adds>>
        /\ phase' = "starting" => phase = "starting"
    BY <1>4 DEF Publish, DecidedPhase, dbVars
  <2> HIDE DEF q
  <2> QED
    BY <1>1, <1>3, <2>1, SettledStep DEF q
<1>5. CASE \E n \in Int, remove \in BOOLEAN : Skip(n, remove)
  <2>1. PICK n \in Int, remove \in BOOLEAN : Skip(n, remove)
    BY <1>5
  <2>2. /\ "fail" \notin Commands /\ shifted' = 0 /\ UNCHANGED <<saved, loaded, redo, adds>>
        /\ current' = NotRepeated(current)
        /\ queue' = SkippedQueue(q, loop_mode, n, remove, FALSE)
    BY <2>1 DEF Skip, FailsApart, dbVars
  <2> HIDE DEF q
  <2>3. From(SkippedQueue(q, loop_mode, n, remove, FALSE), q, All(q))
    BY <1>1, TrackIds, FromSkippedQueue
  <2> QED
    BY <1>2, <2>2, <2>3, SettledStep
<1>6. CASE Prev
  <2>1. /\ "fail" \notin Commands /\ shifted' = 0 /\ UNCHANGED <<saved, loaded, redo, adds>>
        /\ current' = NotRepeated(current) /\ queue' = LastToFront(q)
    BY <1>6 DEF Prev, FailsApart, dbVars
  <2> HIDE DEF q
  <2>2. From(LastToFront(q), q, All(q))
    BY <1>1, TrackIds, FromLastToFront
  <2> QED
    BY <1>2, <2>1, <2>2, SettledStep
<1>7. CASE \E fr, to \in Nat : Move(fr, to)
  <2>1. PICK fr \in Nat, to \in Nat : Move(fr, to)
    BY <1>7
  <2> DEFINE r == Moved(queue, fr, to)
  <2>2. /\ "fail" \notin Commands /\ shifted' = 0 /\ UNCHANGED <<current, saved, loaded, redo, adds>>
        /\ queue' = Settled(r, shifted)
        /\ fr \in 1..(Len(queue) - 1) /\ to \in 1..(Len(queue) - 1)
    BY <2>1 DEF Move, FailsApart, dbVars
  <2>3. /\ queue \in Seq(Track) /\ shifted \in Nat /\ (shifted = 0 \/ shifted < Len(queue))
    BY StateFacts
  <2>4. r \in Seq(Track) /\ Len(r) = Len(queue) /\ From(r, queue, All(queue))
    BY <2>2, <2>3, MovedType, FromMoved
  <2> HIDE DEF r
  <2>5. From(Settled(r, shifted), r, All(r))
    BY <2>3, <2>4, FromSettled
  <2>6. From(queue', queue, All(queue))
    BY <2>2, <2>4, <2>5, FromTrans
  <2> QED
    BY <2>2, <2>6, SettledStep
<1>8. CASE \E pos, n \in Nat, to \in Int : RemoveTrack(pos, n, to)
  <2>1. PICK pos \in Nat, n \in Nat, to \in Int : RemoveTrack(pos, n, to)
    BY <1>8
  <2>2. /\ shifted' = 0 /\ UNCHANGED <<current, phase, saved, loaded, redo, adds>>
        /\ queue' = RemovedTracks(q, pos, n, to)
    BY <2>1 DEF RemoveTrack, dbVars
  <2> HIDE DEF q
  <2>3. /\ From(RemovedTracks(q, pos, n, to), q, All(q))
        /\ KeepsFirst(RemovedTracks(q, pos, n, to), q)
    BY <1>1, FromRemovedTracks, RemovedTracksFirst
  <2>4. From(queue', queue, All(queue)) /\ KeepsFirst(queue', q)
    BY <1>2, <2>2, <2>3
  <2> QED
    BY <2>2, <2>4, SettledStep DEF q
<1>9. CASE GetQueue
  <2>1. /\ queue' = q /\ shifted' = 0 /\ UNCHANGED <<current, phase, saved, loaded, redo, adds>>
    BY <1>9 DEF GetQueue, dbVars
  <2> HIDE DEF q
  <2> QED
    BY <1>1, <1>3, <2>1, SettledStep DEF q
<1>10. CASE \E mode \in LoopModes : SetLoopMode(mode)
  <2>1. /\ queue' = q /\ shifted' = 0 /\ UNCHANGED <<current, phase, saved, loaded, redo, adds>>
    BY <1>10 DEF SetLoopMode, dbVars
  <2> HIDE DEF q
  <2> QED
    BY <1>1, <1>3, <2>1, SettledStep DEF q
<1>11. CASE QueueApply
  <2>1. /\ QueueModified(q) /\ shifted' = 0 /\ snap \in Nat
        /\ UNCHANGED <<current, phase, saved, loaded, redo, adds>>
    BY <1>11 DEF QueueApply, IInv, TypeOK, dbVars
  <2> HIDE DEF q
  <2>2. From(queue', q, All(q)) /\ KeepsFirst(queue', q)
    BY <1>1, <2>1, ModifiedKeepsFirst
  <2>3. From(queue', queue, All(queue))
    BY <1>2, <2>2
  <2> QED
    BY <2>1, <2>2, <2>3, SettledStep DEF q
<1> QED
  BY <1>4, <1>5, <1>6, <1>7, <1>8, <1>9, <1>10, <1>11

\* The loop command with a number of repeats; an empty queue gets the track
\* that plays.
LEMMA LoopAmountDistinct ==
    ASSUME FailsApart, IInv, DInv, NEW n \in 0..MaxRepeat, LoopAmount(n)
    PROVE  DInv'
<1> DEFINE q == Settled(queue, shifted)
<1>1. q \in Seq(Track) /\ From(q, queue, All(queue)) /\ current \in Track \cup {NoTrack}
  BY SettledFacts, StateFacts, FromSettled
<1>2. /\ "fail" \notin Commands /\ current # NoTrack /\ current' = [current EXCEPT !.repeat = n]
      /\ queue' = FrontRepeat(IF q = <<>> THEN <<current>> ELSE q, n)
      /\ UNCHANGED <<saved, loaded, redo, adds>>
  BY DEF LoopAmount, FailsApart, dbVars
<1> HIDE DEF q
<1>3. loaded /\ redo = NoTrack
  BY <1>2 DEF DInv, SavedApart, RedoIsAway
<1>4. current'.key <= adds /\ current.key <= adds
  BY <1>1, <1>2, TrackKeys DEF DInv
<1>5. CASE q # <<>>
  <2>1. From(FrontRepeat(q, n), q, All(q))
    BY <1>1, TrackIds, FromFrontRepeat
  <2>2. From(queue', queue, All(queue))
    BY <1>1, <1>2, <1>5, <2>1, FromTrans
  <2> QED
    BY <1>2, <1>3, <1>4, <2>2, DrawnStep DEF StartsFirst
<1>6. CASE q = <<>>
  <2> DEFINE c == <<current>>
  <2>1. c \in Seq(Track) /\ Len(c) = 1 /\ c[1] = current
    BY <1>1, <1>2
  <2>2. queue' = FrontRepeat(c, n)
    BY <1>2, <1>6
  <2> HIDE DEF c
  <2>3. Keyed(c, adds)
    BY <1>4, <2>1 DEF Keyed, Distinct
  <2>4. From(FrontRepeat(c, n), c, All(c))
    BY <2>1, TrackIds, FromFrontRepeat
  <2>5. Keyed(queue', adds)
    BY <2>2, <2>3, <2>4, FromKeyed
  <2> QED
    BY <1>2, <1>3, <1>4, <2>5 DEF DInv, SavedApart, StartsFirst, RedoIsAway
<1> QED
  BY <1>5, <1>6

\* The queue with the saved entries behind it.
LEMMA LoadedKeyed ==
    ASSUME IInv, DInv
    PROVE  LET q == Settled(Loaded(queue), shifted)
           IN  /\ q \in Seq(Track)
               /\ Keyed(q, adds)
               /\ loaded => From(q, queue, All(queue))
<1> DEFINE l == Loaded(queue)
           q == Settled(l, shifted)
<1>1. /\ queue \in Seq(Track) /\ Len(queue) \in Nat /\ shifted \in Nat
      /\ shifted = 0 \/ shifted < Len(queue)
      /\ saved \in Seq(Track) /\ Len(saved) \in Nat
  BY StateFacts, LenProperties
<1>2. l \in Seq(Track) /\ (shifted = 0 \/ shifted < Len(l))
  BY <1>1, LoadedType DEF IInv
<1>3. Keyed(l, adds)
  <2>1. CASE loaded
    BY <2>1 DEF Loaded, DInv
  <2>2. CASE ~loaded
    <3>1. l = queue \o Restored
      BY <2>2 DEF Loaded
    <3>2. Restored \in Seq(Track) /\ Len(Restored) = Len(saved)
      BY <1>1, RestoredType
    <3>3. \A i \in 1..Len(saved) : Id(Restored[i]) = Id(saved[i]) /\ Restored[i].key = saved[i].key
      <4>1. \A i \in 1..Len(saved) : /\ Restored[i] = [saved[i] EXCEPT !.user = Bot, !.repeat = 0]
                                     /\ saved[i] \in Track
        BY <1>1, ElementOfSeq DEF Restored
      <4> QED
        BY <4>1, TrackIds, TrackKeys
    <3>4. Keyed(Restored, adds)
      <4>1. From(Restored, saved, All(saved))
        BY <3>2, <3>3, FromSame
      <4> QED
        BY <4>1, FromKeyed DEF DInv
    <3>5. Distinct(queue) /\ Distinct(Restored)
      BY <3>4 DEF DInv, Keyed
    <3>6. \A i \in 1..Len(queue), j \in 1..Len(Restored) : queue[i].key # Restored[j].key
      BY <2>2, <3>2, <3>3 DEF DInv, SavedApart, Lacks
    <3> HIDE DEF l
    <3>7. Distinct(queue \o Restored) /\
          \A i \in 1..Len(queue \o Restored) :
             \/ \E j \in 1..Len(queue) : (queue \o Restored)[i] = queue[j]
             \/ \E j \in 1..Len(Restored) : (queue \o Restored)[i] = Restored[j]
      BY <1>1, <3>2, <3>5, <3>6, DistinctConcat
    <3> QED
      BY <3>1, <3>4, <3>7 DEF DInv, Keyed
  <2> QED
    BY <2>1, <2>2
<1>4. loaded => l = queue
  BY DEF Loaded
<1> HIDE DEF l
<1>5. From(q, l, All(l)) /\ q \in Seq(Track)
  BY <1>1, <1>2, FromSettled, SettledType
<1>6. Keyed(q, adds)
  BY <1>3, <1>5, FromKeyed
<1> QED
  BY <1>4, <1>5, <1>6 DEF l

\* The queue command: the part before the lock.
LEMMA QueueSnapshotDistinct ==
    ASSUME IInv, DInv, QueueSnapshot
    PROVE  DInv'
<1> DEFINE q == Settled(Loaded(queue), shifted)
<1>1. /\ queue' = q /\ shifted' = 0 /\ loaded' = TRUE
      /\ UNCHANGED <<current, phase, saved, redo, adds>>
  BY DEF QueueSnapshot
<1>2. Keyed(q, adds) /\ (loaded => From(q, queue, All(queue)))
  BY LoadedKeyed
<1>3. CASE loaded
  <2>1. q = Settled(queue, shifted)
    BY <1>3 DEF Loaded
  <2> HIDE DEF q
  <2>2. KeepsFirst(queue', Settled(queue, shifted))
    BY <1>1, <2>1 DEF KeepsFirst
  <2> QED
    BY <1>1, <1>2, <1>3, <2>2, SettledStep
<1>4. CASE ~loaded
  <2>1. phase # "starting" /\ redo = NoTrack
    BY <1>4 DEF IInv, LoadedWhenPlaying, DInv, RedoIsAway
  <2> HIDE DEF q
  <2> QED
    BY <1>1, <1>2, <2>1 DEF DInv, SavedApart, StartsFirst, RedoIsAway
<1> QED
  BY <1>3, <1>4

\* What the end of a track does to the queue.
LEMMA FromAfterEnd ==
    ASSUME TypeOK, NEW q \in Seq(Track), q # <<>>, current \in Track
    PROVE  From(AfterEnd(q), q, All(q))
<1>1. Len(q) \in Nat \ {0} /\ 1 \in 1..Len(q) /\ q[1] \in Track
  BY EmptySeq, ElementOfSeq
<1>2. From(q, q, All(q))
  BY FromSame
<1> DEFINE J == 2..Len(q)
           a == Tail(q)
           b == <<q[1]>>
<1>3. a \in Seq(Track) /\ From(a, q, J)
  <2>1. a = SubSeq(q, 2, Len(q))
    BY TailIsSubSeq
  <2>2. 2 \in Nat \ {0} /\ Len(q) \in Int /\ Len(q) <= Len(q)
    BY <1>1
  <2>3. SubSeq(q, 2, Len(q)) \in Seq(Track)
    BY <2>2, SubSeqType
  <2>4. From(SubSeq(q, 2, Len(q)), q, 2..Len(q))
    BY <2>2, FromSubSeq
  <2> QED
    BY <2>1, <2>3, <2>4
<1>4. b \in Seq(Track) /\ From(b, q, {1})
  <2>1. b \in Seq(Track)
    BY <1>1
  <2>2. From(b, q, {1})
    BY FromFew
  <2> QED
    BY <2>1, <2>2
<1>5. J \cap {1} = {} /\ J \cup {1} = All(q) /\ J \subseteq All(q)
  BY <1>1 DEF All
<1>6. Append(a, q[1]) = a \o b
  BY <1>1, <1>3, AppendIsConcat
<1> HIDE DEF a, b, J
<1>7. From(a, q, All(q)) /\ From(a \o b, q, All(q))
  <2>1. From(a, q, All(q))
    BY <1>3, <1>5, FromWider
  <2>2. From(a \o b, q, J \cup {1})
    BY <1>3, <1>4, <1>5, FromConcat
  <2> QED
    BY <1>5, <2>1, <2>2
<1>8. current.repeat > 0 =>
        From([q EXCEPT ![1].repeat = current.repeat - 1], q, All(q))
  <2> SUFFICES ASSUME current.repeat > 0
               PROVE  From([q EXCEPT ![1].repeat = current.repeat - 1], q, All(q))
    OBVIOUS
  <2> DEFINE n == current.repeat - 1
             r == FrontRepeat(q, n)
  <2>1. n \in 0..MaxRepeat
    <3>1. current.repeat \in 0..MaxRepeat
      BY TrackFacts
    <3> QED
      BY <3>1, ConstantsAssumption
  <2>2. r = [q EXCEPT ![1].repeat = current.repeat - 1]
    BY DEF FrontRepeat
  <2> HIDE DEF n
  <2>3. From(r, q, All(q))
    BY <2>1, TrackIds, FromFrontRepeat
  <2> QED
    BY <2>2, <2>3
<1>9. CASE stopped \/ q[1].file # current.file
  BY <1>2, <1>9 DEF AfterEnd
<1>10. CASE ~(stopped \/ q[1].file # current.file) /\ current.repeat > 0 /\ q[1].repeat > 0
  BY <1>8, <1>10 DEF AfterEnd
<1>11. CASE ~(stopped \/ q[1].file # current.file) /\ ~(current.repeat > 0 /\ q[1].repeat > 0)
  <2>1. CASE loop_mode = "l_none"
    BY <1>7, <1>11, <2>1 DEF AfterEnd, a
  <2>2. CASE loop_mode = "l_queue"
    BY <1>6, <1>7, <1>11, <2>2 DEF AfterEnd, a
  <2>3. CASE loop_mode # "l_none" /\ loop_mode # "l_queue"
    BY <1>2, <1>11, <2>3 DEF AfterEnd
  <2> QED
    BY <2>1, <2>2, <2>3
<1> QED
  BY <1>9, <1>10, <1>11

\* handle_on_track_marker.
LEMMA TrackMarkerDistinct ==
    ASSUME IInv, DInv, NEW meta, NEW listening \in BOOLEAN, TrackMarker(meta, listening)
    PROVE  DInv'
<1> DEFINE q == Settled(Loaded(queue), shifted)
           r == IF q # <<>> /\ meta = "e" /\ current # NoTrack THEN AfterEnd(q) ELSE q
<1>1. q \in Seq(Track) /\ Keyed(q, adds) /\ (loaded => From(q, queue, All(queue)))
  BY LoadedKeyed
<1>2. loaded' = TRUE /\ UNCHANGED <<redo, adds>>
  BY DEF TrackMarker
<1>3. \/ phase' = "idle" /\ UNCHANGED <<queue, shifted, current, saved>>
      \/ /\ r = <<>> /\ queue' = r /\ shifted' = 0
         /\ current' = NoTrack /\ saved' = SavedAfter(r) /\ phase' = "idle"
      \/ /\ r # <<>> /\ queue' = r /\ shifted' = 0
         /\ current' = r[1] /\ saved' = SavedAfter(r)
  BY DEF TrackMarker
<1> HIDE DEF q
<1>4. r \in Seq(Track) /\ From(r, q, All(q))
  <2>1. q # <<>> /\ current # NoTrack =>
          AfterEnd(q) \in Seq(Track) /\ From(AfterEnd(q), q, All(q))
    BY <1>1, AfterEndType, FromAfterEnd DEF IInv, TypeOK
  <2>2. From(q, q, All(q))
    BY FromSame
  <2> QED
    BY <1>1, <2>1, <2>2
<1> HIDE DEF r
<1>5. Keyed(r, adds) /\ (redo # NoTrack => Lacks(r, redo.key))
  <2>1. Keyed(r, adds) /\ \A k : Lacks(q, k) => Lacks(r, k)
    BY <1>1, <1>4, FromKeyed
  <2>2. redo # NoTrack => Lacks(q, redo.key)
    BY <1>1, FromKeyed DEF DInv, RedoIsAway
  <2> QED
    BY <2>1, <2>2
<1>6. Keyed(SavedAfter(r), adds)
  BY <1>5 DEF SavedAfter, DInv
<1>7. RedoIsAway /\ (redo # NoTrack => "fail" \in Commands /\ redo.key <= adds)
  BY DEF DInv, RedoIsAway
<1>8. CASE phase' = "idle" /\ UNCHANGED <<queue, shifted, current, saved>>
  BY <1>2, <1>8 DEF DInv, SavedApart, StartsFirst, RedoIsAway
<1>9. CASE /\ r = <<>> /\ queue' = r /\ shifted' = 0
           /\ current' = NoTrack /\ saved' = SavedAfter(r) /\ phase' = "idle"
  <2>1. NoTrack.key <= adds
    BY DEF NoTrack, IInv, TypeOK
  <2> QED
    BY <1>2, <1>5, <1>6, <1>7, <1>9, <2>1 DEF DInv, SavedApart, StartsFirst, RedoIsAway
<1>10. CASE /\ r # <<>> /\ queue' = r /\ shifted' = 0
            /\ current' = r[1] /\ saved' = SavedAfter(r)
  <2>1. r[1].key <= adds
    BY <1>4, <1>5, <1>10, EmptySeq DEF Keyed
  <2> QED
    BY <1>2, <1>5, <1>6, <1>7, <1>10, <2>1 DEF DInv, SavedApart, StartsFirst, RedoIsAway
<1> QED
  BY <1>3, <1>8, <1>9, <1>10

\* The worker that finds no file pops the entry that failed.
LEMMA WorkerFailsDistinct ==
    ASSUME IInv, DInv, NEW giveUp \in BOOLEAN, NEW download \in BOOLEAN,
           WorkerFails(giveUp, download)
    PROVE  DInv'
<1> DEFINE q == Settled(queue, shifted)
           f == FrontRepeat(q, 0)
<1>1. /\ "fail" \in Commands /\ phase = "starting" /\ shifted' = 0
      /\ queue' = SkippedQueue(q, loop_mode, 1, TRUE, TRUE)
      /\ current' = NotRepeated(current)
      /\ redo' = current' \/ redo' = NoTrack
      /\ phase' # "starting" /\ UNCHANGED <<saved, loaded, adds>>
  BY DEF WorkerFails, dbVars
<1>2. /\ queue # <<>> /\ queue[shifted + 1].key = current.key
      /\ queue \in Seq(Track) /\ shifted \in Nat /\ shifted < Len(queue)
      /\ loaded /\ current \in Track \cup {NoTrack}
  <2>1. queue # <<>> /\ queue[shifted + 1].key = current.key
    BY <1>1 DEF DInv, StartsFirst
  <2>2. loaded
    BY <1>1 DEF IInv, LoadedWhenPlaying
  <2> QED
    BY <2>1, <2>2, StateFacts, EmptySeq
<1>3. /\ q \in Seq(Track) /\ From(q, queue, All(queue))
      /\ q # <<>> /\ q[1].key = current.key
  BY <1>2, SettledFacts, FromSettled, SettledFirst
<1> HIDE DEF q
<1>4. f \in Seq(Track) /\ From(f, q, All(q)) /\ f # <<>> /\ f[1].key = current.key
  <2>1. f \in Seq(Track) /\ From(f, q, All(q)) /\ Len(f) = Len(q)
    BY <1>3, TrackIds, TrackKeys, FrontRepeatType, FromFrontRepeat
  <2>2. 1 \in 1..Len(q) /\ Len(q) \in Nat \ {0} /\ q[1] \in Track
    BY <1>3, EmptySeq, ElementOfSeq
  <2>3. f[1] = [q[1] EXCEPT !.repeat = 0]
    <3> DEFINE e == [q[1] EXCEPT !.repeat = 0]
    <3>1. e \in Track /\ f = [q EXCEPT ![1] = e]
      BY <1>3, <2>2, TrackKeys DEF FrontRepeat
    <3> HIDE DEF e
    <3>2. f[1] = e
      BY <1>3, <2>2, <3>1, ExceptSeq
    <3> QED
      BY <3>2 DEF e
  <2>4. f # <<>>
    <3> HIDE DEF f
    <3> QED
      BY <2>1, <2>2, EmptySeq
  <2> QED
    BY <1>3, <2>1, <2>2, <2>3, <2>4, TrackKeys
<1>5. queue' = SubSeq(f, 2, Len(f))
  <2>1. PopCount(1, loop_mode, TRUE) = 1
    BY DEF PopCount
  <2>2. SkippedQueue(q, loop_mode, 1, TRUE, TRUE) = Popped(f, PopCount(1, loop_mode, TRUE))
    BY DEF SkippedQueue
  <2> HIDE DEF f
  <2>3. Popped(f, 1) = SubSeq(f, 2, Len(f))
    BY DEF Popped
  <2> QED
    BY <1>1, <2>1, <2>2, <2>3
<1> HIDE DEF f
<1>6. Keyed(f, adds)
  <2>1. Keyed(q, adds)
    BY <1>3, FromKeyed DEF DInv
  <2> QED
    BY <1>4, <2>1, FromKeyed
<1> DEFINE J == 2..Len(f)
<1>7. Len(f) \in Nat \ {0} /\ 1 \in 1..Len(f) /\ J \subseteq All(f)
  BY <1>4, EmptySeq DEF All
<1>8. From(queue', f, J)
  BY <1>4, <1>5, <1>7, FromSubSeq
<1>9. Keyed(queue', adds)
  BY <1>6, <1>7, <1>8, FromWider, FromKeyed
<1>10. Lacks(queue', current.key)
  <2>1. PICK g \in [1..Len(queue') -> J] : \A i \in 1..Len(queue') : queue'[i].key = f[g[i]].key
    BY <1>8, IdKey DEF From
  <2>2. \A i \in 1..Len(queue') : g[i] \in 1..Len(f) /\ g[i] # 1
    BY <1>7, <2>1
  <2>3. \A j \in 1..Len(f) : j # 1 => f[j].key # current.key
    BY <1>4, <1>6, <1>7 DEF Keyed, Distinct
  <2> QED
    BY <2>1, <2>2, <2>3 DEF Lacks
<1>11. current'.key = current.key /\ current.key <= adds
  BY <1>1, <1>2, TrackKeys DEF DInv
<1> QED
  BY <1>1, <1>2, <1>9, <1>10, <1>11 DEF DInv, SavedApart, StartsFirst, RedoIsAway

\* The redownloaded track comes back on top and the queue is settled, so that
\* a track about to play is first again.
LEMMA RedownloadedDistinct ==
    ASSUME IInv, DInv, NEW listening \in BOOLEAN, Redownloaded(listening)
    PROVE  DInv'
<1> DEFINE top == TRUE
           slip == 0
           a == Added(queue, redo, top, slip)
           n == ShiftedAfterAdd(queue, shifted, top, slip)
           c == <<redo>>
           p == queue \o c
<1>1. /\ redo # NoTrack /\ redo' = NoTrack /\ queue' = Settled(a, n) /\ shifted' = 0
      /\ phase' = "starting" => phase = "starting"
      /\ UNCHANGED <<current, saved, loaded, adds>>
  BY DEF Redownloaded, DecidedPhase, dbVars
<1>2. /\ queue \in Seq(Track) /\ shifted \in Nat /\ (shifted = 0 \/ shifted < Len(queue))
      /\ redo \in Track
  BY <1>1, StateFacts
<1>3. loaded /\ redo.key <= adds /\ Lacks(queue, redo.key)
  BY <1>1 DEF DInv, RedoIsAway
<1>4. top \in BOOLEAN /\ slip \in Nat /\ slip \in {0, 1}
  OBVIOUS
<1> HIDE DEF top, slip
<1>5. /\ a \in Seq(Track) /\ Len(a) = Len(queue) + 1
      /\ n \in Nat /\ n < Len(queue) + 1 /\ From(a, p, All(p))
  <2>1. a \in Seq(Track) /\ Len(a) = Len(queue) + 1
    BY <1>2, <1>4, AddedType
  <2>2. n \in Nat /\ n < Len(queue) + 1
    BY <1>2, <1>4, AddedType
  <2>3. From(a, p, All(p))
    BY <1>2, <1>4, FromAdded
  <2> QED
    BY <2>1, <2>2, <2>3
<1>6. Keyed(p, adds)
  <2>1. c \in Seq(Track) /\ Len(c) = 1 /\ c[1] = redo
    BY <1>2
  <2> HIDE DEF c
  <2>2. Distinct(c) /\ \A j \in 1..Len(c) : c[j] = redo
    BY <2>1 DEF Distinct
  <2>3. \A i \in 1..Len(queue), j \in 1..Len(c) : queue[i].key # c[j].key
    BY <1>3, <2>2 DEF Lacks
  <2>4. Distinct(queue) /\ \A i \in 1..Len(queue) : queue[i].key <= adds
    BY DEF DInv, Keyed
  <2>5. /\ Distinct(queue \o c)
        /\ \A i \in 1..Len(queue \o c) : \/ \E j \in 1..Len(queue) : (queue \o c)[i] = queue[j]
                                         \/ \E j \in 1..Len(c) : (queue \o c)[i] = c[j]
    BY <1>2, <2>1, <2>2, <2>3, <2>4, DistinctConcat
  <2> QED
    BY <1>3, <2>2, <2>4, <2>5 DEF Keyed
<1>7. StartsFirst'
  <2> SUFFICES ASSUME "fail" \in Commands, phase = "starting"
               PROVE  queue' # <<>> /\ queue'[1].key = current.key
    <3>1. queue'[shifted' + 1] = queue'[1] /\ current'.key = current.key
      BY <1>1
    <3> QED
      BY <1>1, <3>1, Zenon DEF StartsFirst
  <2>1. queue # <<>> /\ queue[shifted + 1].key = current.key
    BY DEF DInv, StartsFirst
  <2>2. shifted \in Nat /\ shifted < Len(queue)
    BY <1>2, <2>1, EmptySeq
  <2>3. a[n + 1] = queue[shifted + 1]
    BY <1>2, <1>4, <2>2, AddedOnTopFirst
  <2> HIDE DEF a, n
  <2>4. a # <<>> /\ n < Len(a)
    BY <1>2, <1>5, LenProperties, EmptySeq
  <2>5. Settled(a, n) # <<>> /\ Settled(a, n)[1] = a[n + 1]
    BY <1>5, <2>4, SettledFirst
  <2> QED
    BY <1>1, <2>1, <2>3, <2>5
<1> HIDE DEF a, n, p
<1>8. Keyed(queue', adds)
  <2>1. Keyed(a, adds)
    BY <1>5, <1>6, FromKeyed
  <2>2. n = 0 \/ n < Len(a)
    BY <1>5
  <2>3. From(queue', a, All(a))
    BY <1>1, <1>5, <2>2, FromSettled
  <2> QED
    BY <2>1, <2>3, FromKeyed
<1> QED
  BY <1>1, <1>3, <1>7, <1>8 DEF DInv, SavedApart, RedoIsAway

\* A restart keeps the saved queue only.
LEMMA RestartDistinct ==
    ASSUME IInv, DInv, Restart
    PROVE  DInv'
<1>1. /\ queue' = <<>> /\ shifted' = 0 /\ current' = NoTrack /\ phase' = "idle"
      /\ redo' = NoTrack /\ UNCHANGED <<saved, adds>>
  BY DEF Restart
<1>2. Keyed(<<>>, adds) /\ \A k : Lacks(<<>>, k)
  <2>1. 1..Len(<<>>) = {}
    OBVIOUS
  <2> QED
    BY <2>1 DEF Keyed, Distinct, Lacks
<1>3. NoTrack.key <= adds
  BY DEF NoTrack, IInv, TypeOK
<1> QED
  BY <1>1, <1>2, <1>3 DEF DInv, SavedApart, StartsFirst, RedoIsAway

LEMMA InitDInv == Init => DInv
<1> SUFFICES ASSUME Init PROVE DInv
  OBVIOUS
<1>1. Keyed(<<>>, adds) /\ \A k : Lacks(<<>>, k)
  <2>1. 1..Len(<<>>) = {}
    OBVIOUS
  <2> QED
    BY <2>1 DEF Keyed, Distinct, Lacks
<1>2. NoTrack.key <= adds
  BY DEF NoTrack, Init
<1> QED
  BY <1>1, <1>2 DEF Init, DInv, SavedApart, StartsFirst, RedoIsAway, Lacks

\* Every step keeps the keys of the queue different.
LEMMA NextDInv ==
    ASSUME FailsApart, IInv, DInv, [Next]_vars
    PROVE  DInv'
<1>1. CASE UNCHANGED vars
  BY <1>1, SameQueueStep DEF vars, playerVars, dbVars
<1>2. CASE AddCommand
  BY <1>2, AddTrackDistinct DEF AddCommand
<1>3. CASE \E n \in SkipAmounts, remove \in BOOLEAN : Skip(n, remove)
  BY <1>3, ConstantsAssumption, SettledCommandDistinct
<1>4. CASE \E fr, to \in 1..(MaxAdds - 1) : Move(fr, to)
  <2>1. \A i \in 1..(MaxAdds - 1) : i \in Nat
    BY ConstantsAssumption
  <2> QED
    BY <1>4, <2>1, SettledCommandDistinct
<1>5. CASE RemoveCommand
  <2>1. \A i \in 1..(MaxAdds - 1) : i \in Nat /\ \A j \in i..(MaxAdds - 1) : j \in Int
    BY ConstantsAssumption
  <2>2. 1 \in Nat /\ NoTo \in Int
    BY DEF NoTo
  <2>3. \E pos, n \in Nat, to \in Int : RemoveTrack(pos, n, to)
    BY <1>5, <2>1, <2>2 DEF RemoveCommand
  <2> QED
    BY <2>3, SettledCommandDistinct
<1>6. CASE Stop
  BY <1>6, SameQueueStep DEF Stop, StoppedPhase, dbVars
<1>7. CASE Command /\ ~(\/ AddCommand \/ RemoveCommand \/ Stop
                        \/ \E n \in SkipAmounts, remove \in BOOLEAN : Skip(n, remove)
                        \/ \E fr, to \in 1..(MaxAdds - 1) : Move(fr, to))
  BY <1>7, SettledCommandDistinct, LoopAmountDistinct, QueueSnapshotDistinct DEF Command
<1>8. CASE VoiceReady \/ WorkerPlays \/ StreamEnds
  BY <1>8, SameQueueStep DEF VoiceReady, WorkerPlays, StreamEnds, playerVars, dbVars
<1>9. CASE Playback /\ ~(VoiceReady \/ WorkerPlays \/ StreamEnds)
  BY <1>9, TrackMarkerDistinct, WorkerFailsDistinct, RedownloadedDistinct DEF Playback
<1> QED
  BY <1>1, <1>2, <1>3, <1>4, <1>5, <1>6, <1>7, <1>8, <1>9, RestartDistinct DEF Next, Command

\* No command, rotation, failed download or restart makes an entry appear
\* twice in the queue: every command draws the new queue from the old one, new
\* entries have new keys, and what a restart or a download brings back was not
\* there.
THEOREM DistinctCorrect == FailsApart => (Spec => []NoDuplicate)
<1>1. ASSUME IInv, DInv PROVE NoDuplicate
  <2> DEFINE f == [i \in 1..Len(queue) |-> queue[i].key]
  <2>1. Len(queue) \in Nat
    BY <1>1, StateFacts
  <2>2. f \in Bijection(1..Len(queue), KeySet(queue))
    <3>1. f \in Injection(1..Len(queue), KeySet(queue))
      <4>1. f \in [1..Len(queue) -> KeySet(queue)]
        BY DEF KeySet
      <4>2. \A i, j \in 1..Len(queue) : queue[i].key = queue[j].key => i = j
        BY <1>1 DEF DInv, Keyed, Distinct
      <4>3. \A i, j \in 1..Len(queue) : f[i] = f[j] => i = j
        BY <4>2
      <4> HIDE DEF f
      <4> QED
        BY <4>1, <4>3 DEF Injection, IsInjective
    <3>2. f \in Surjection(1..Len(queue), KeySet(queue))
      BY DEF Surjection, KeySet
    <3> QED
      BY <3>1, <3>2 DEF Bijection
  <2>3. IsFiniteSet(1..Len(queue)) /\ Cardinality(1..Len(queue)) = Len(queue)
    <3> DEFINE n == Len(queue)
    <3> HIDE DEF n
    <3>1. n \in Int /\ n >= 0
      BY <2>1 DEF n
    <3>2. /\ IsFiniteSet(1..n)
          /\ Cardinality(1..n) = IF 1 > n THEN 0 ELSE n - 1 + 1
      BY <3>1, FS_Interval
    <3>3. Cardinality(1..n) = n
      BY <3>1, <3>2
    <3> QED
      BY <3>2, <3>3 DEF n
  <2> HIDE DEF f
  <2>4. ExistsBijection(1..Len(queue), KeySet(queue))
    BY <2>2 DEF ExistsBijection
  <2>5. Cardinality(KeySet(queue)) = Cardinality(1..Len(queue))
    BY <2>3, <2>4, FS_Bijection
  <2> QED
    BY <2>3, <2>5 DEF NoDuplicate
<1> SUFFICES ASSUME FailsApart PROVE Spec => []NoDuplicate
  OBVIOUS
<1>2. Init => DInv
  BY InitDInv
<1>3. DInv /\ IInv /\ [Next]_vars => DInv'
  BY NextDInv
<1> QED
  BY <1>1, <1>2, <1>3, Invariant, PTL DEF Spec

----------------------------------------------------------------------------
(***************************************************************************)
(* The playing track keeps its place, but for the move command and for     *)
(* entries added at a position behind the top: both go by the place in the *)
(* unsettled queue.                                                        *)
(***************************************************************************)
PlacesAreSettled == "move" \notin Commands /\ Slips \subseteq {0, 1}

\* A stream plays a track.
TrackChosen == phase \in {"starting", "playing"} => current # NoTrack

\* The playing track is where shifted_track points.
AtFront == queue # <<>> /\ queue[shifted + 1].key = current.key

LEMMA NextTrackChosen ==
    ASSUME IInv, TrackChosen, [Next]_vars
    PROVE  TrackChosen'
<1>1. \A t \in Track, n \in 0..MaxRepeat : [t EXCEPT !.repeat = n] # NoTrack
  <2>1. \A t \in Track, n \in 0..MaxRepeat : [t EXCEPT !.repeat = n].key > 0
    BY TrackKeys
  <2>2. NoTrack.key = 0
    BY DEF NoTrack
  <2>3. ASSUME NEW t \in Track, NEW n \in 0..MaxRepeat, [t EXCEPT !.repeat = n] = NoTrack
        PROVE  FALSE
    <3> DEFINE e == [t EXCEPT !.repeat = n]
    <3>1. e.key > 0 /\ e = NoTrack
      BY <2>1, <2>3
    <3> HIDE DEF e
    <3> QED
      BY <2>2, <3>1
  <2> QED
    BY <2>3
<1>2. /\ current \in Track \cup {NoTrack}
      /\ current # NoTrack => NotRepeated(current) # NoTrack
  BY <1>1, TrackFacts, StateFacts DEF NotRepeated
<1>3. CASE UNCHANGED vars
  BY <1>3 DEF vars, playerVars, TrackChosen
<1>4. CASE Command
  <2>1. CASE \E n \in 0..MaxRepeat : LoopAmount(n)
    BY <1>1, <1>2, <2>1 DEF LoopAmount, TrackChosen
  <2>2. CASE ~\E n \in 0..MaxRepeat : LoopAmount(n)
    <3>1. current' = current \/ current' = NotRepeated(current)
      BY <1>4, <2>2 DEF Command, AddCommand, AddTrack, Publish, Skip, Prev, Stop, Move,
         RemoveCommand, RemoveTrack, GetQueue, SetLoopMode, QueueSnapshot, QueueApply
    <3>2. phase' \in {"starting", "playing"} => phase' = phase
      BY <1>4, <2>2 DEF Command, AddCommand, AddTrack, Publish, DecidedPhase, Skip, Prev, Stop,
         StoppedPhase, Move, RemoveCommand, RemoveTrack, GetQueue, SetLoopMode,
         QueueSnapshot, QueueApply
    <3> QED
      BY <1>2, <3>1, <3>2 DEF TrackChosen
  <2> QED
    BY <2>1, <2>2
<1>5. CASE Playback
  <2>1. CASE \E meta \in {"s", "e"}, listening \in BOOLEAN : TrackMarker(meta, listening)
    <3>1. PICK meta \in {"s", "e"}, listening \in BOOLEAN : TrackMarker(meta, listening)
      BY <2>1
    <3>2. CASE phase' = "idle"
      BY <3>2 DEF TrackChosen
    <3>3. CASE phase' # "idle"
      <4>1. queue' # <<>> /\ current' = queue'[1]
        BY <3>1, <3>3 DEF TrackMarker
      <4>2. queue' \in Seq(Track)
        BY <3>1, TrackMarkerStep DEF IInv, TypeOK
      <4>3. current' \in Track
        BY <4>1, <4>2, EmptySeq, ElementOfSeq
      <4>4. current'.key > 0 /\ NoTrack.key = 0
        BY <4>3, TrackKeys DEF NoTrack
      <4>5. current' # NoTrack
        BY <4>4
      <4> QED
        BY <4>5 DEF TrackChosen
    <3> QED
      BY <3>2, <3>3
  <2>2. CASE \E giveUp, download \in BOOLEAN : WorkerFails(giveUp, download)
    BY <2>2 DEF WorkerFails, TrackChosen
  <2>3. CASE VoiceReady \/ WorkerPlays \/ StreamEnds
    BY <2>3 DEF VoiceReady, WorkerPlays, StreamEnds, playerVars, TrackChosen
  <2>4. CASE \E listening \in BOOLEAN : Redownloaded(listening)
    BY <2>4 DEF Redownloaded, DecidedPhase, TrackChosen
  <2> QED
    BY <1>5, <2>1, <2>2, <2>3, <2>4 DEF Playback
<1>6. CASE Restart
  BY <1>6 DEF Restart, TrackChosen
<1> QED
  BY <1>3, <1>4, <1>5, <1>6 DEF Next

\* PlayingIsFirst, of a track.
LEMMA FirstIsAtFront ==
    IInv /\ TrackChosen /\ phase = "playing" => (PlayingIsFirst <=> AtFront)
<1> SUFFICES ASSUME IInv, TrackChosen, phase = "playing"
             PROVE  PlayingIsFirst <=> AtFront
  OBVIOUS
<1>1. /\ queue \in Seq(Track) /\ Len(queue) \in Nat /\ shifted \in Nat
      /\ shifted = 0 \/ shifted < Len(queue)
      /\ current \in Track
  BY StateFacts DEF TrackChosen
<1>2. current.key # NoKey
  BY <1>1, TrackKeys DEF NoKey
<1>3. queue # <<>> <=> shifted + 1 \in 1..Len(queue)
  <2>1. queue # <<>> => Len(queue) > 0
    BY <1>1, EmptySeq
  <2>2. queue = <<>> => Len(queue) = 0
    BY EmptySeq
  <2> QED
    BY <1>1, <2>1, <2>2
<1> QED
  BY <1>2, <1>3 DEF PlayingIsFirst, KeyAt, AtFront

\* The first entry of the settled queue.
LEMMA SettledAtFront ==
    ASSUME IInv, AtFront
    PROVE  /\ shifted < Len(queue)
           /\ Settled(queue, shifted) # <<>>
           /\ Settled(queue, shifted)[1].key = current.key
<1>1. queue \in Seq(Track) /\ shifted \in Nat /\ (shifted = 0 \/ shifted < Len(queue))
  BY StateFacts
<1>2. shifted < Len(queue)
  BY <1>1, EmptySeq DEF AtFront
<1> QED
  BY <1>1, <1>2, SettledFirst DEF AtFront

\* add_track, and the redownloaded track that is added and settled at once.
LEMMA AddedAtFront ==
    ASSUME IInv, AtFront, NEW t \in Track, NEW top \in BOOLEAN, NEW slip \in {0, 1}
    PROVE  LET a == Added(queue, t, top, slip)
               n == ShiftedAfterAdd(queue, shifted, top, slip)
           IN  /\ a # <<>> /\ a[n + 1].key = current.key
               /\ Settled(a, n) # <<>> /\ Settled(a, n)[1].key = current.key
<1> DEFINE a == Added(queue, t, top, slip)
           n == ShiftedAfterAdd(queue, shifted, top, slip)
<1>1. queue \in Seq(Track) /\ Len(queue) \in Nat /\ shifted \in Nat /\ shifted < Len(queue)
      /\ slip \in Nat
  BY StateFacts, SettledAtFront
<1>2. a[n + 1].key = current.key
  BY <1>1, AddedOnTopFirst DEF AtFront
<1>3. a \in Seq(Track) /\ Len(a) = Len(queue) + 1 /\ n \in Nat /\ n < Len(queue) + 1
  <2>1. n \in Nat /\ n < Len(queue) + 1
    BY <1>1 DEF ShiftedAfterAdd
  <2>2. CASE OnTop(top, slip)
    <3>1. <<t>> \in Seq(Track) /\ Len(<<t>>) = 1
      OBVIOUS
    <3>2. <<t>> \o queue \in Seq(Track) /\ Len(<<t>> \o queue) = 1 + Len(queue)
      BY <1>1, <3>1, ConcatType
    <3> QED
      BY <1>1, <2>1, <2>2, <3>2 DEF Added
  <2>3. CASE ~OnTop(top, slip)
    <3>1. a = Append(queue, t)
      BY <2>3 DEF Added, OnTop
    <3> QED
      BY <1>1, <2>1, <3>1, AppendProperties
  <2> QED
    BY <2>2, <2>3
<1> HIDE DEF a, n
<1>4. a # <<>> /\ n < Len(a)
  BY <1>1, <1>3, EmptySeq
<1>5. Settled(a, n) # <<>> /\ Settled(a, n)[1] = a[n + 1]
  BY <1>3, <1>4, SettledFirst
<1> QED
  BY <1>2, <1>4, <1>5 DEF a, n

\* What neither skips the track, nor chooses another one: the other commands, a
\* stream that starts or ends, and the track that comes back.
LEMMA KeepsAtFront ==
    ASSUME PlacesAreSettled, IInv, AtFront, current # NoTrack, loaded, Next,
           ~Prev, ~\E n \in SkipAmounts, remove \in BOOLEAN : Skip(n, remove),
           ~\E meta \in {"s", "e"}, listening \in BOOLEAN : TrackMarker(meta, listening),
           ~\E giveUp, download \in BOOLEAN : WorkerFails(giveUp, download),
           ~Restart
    PROVE  AtFront'
<1> DEFINE q == Settled(queue, shifted)
<1>1. q \in Seq(Track) /\ Len(q) \in Nat /\ q # <<>> /\ q[1].key = current.key
  BY SettledFacts, LenProperties, SettledAtFront
<1>2. loaded
  OBVIOUS
<1>3. current \in Track /\ NotRepeated(current).key = current.key
  BY StateFacts, TrackKeys
<1>4. ASSUME shifted' = 0, KeepsFirst(queue', q), current'.key = current.key
      PROVE  AtFront'
  <2> HIDE DEF q
  <2> QED
    BY <1>1, <1>4 DEF AtFront, KeepsFirst
<1>5. CASE AddCommand
  <2>1. PICK file \in Files, user \in Users, top \in BOOLEAN, slip \in {0, 1} :
            AddTrack(file, user, top, slip)
    BY <1>5 DEF AddCommand, PlacesAreSettled
  <2> DEFINE t == [key |-> adds + 1, file |-> file, user |-> user, repeat |-> 0]
  <2>2. t \in Track
    BY <2>1, ConstantsAssumption DEF AddTrack, IInv, TypeOK, Track
  <2>3. /\ queue' = Added(queue, t, top, slip) /\ UNCHANGED current
        /\ shifted' = ShiftedAfterAdd(queue, shifted, top, slip)
    BY <2>1 DEF AddTrack
  <2> HIDE DEF t
  <2> QED
    BY <2>2, <2>3, AddedAtFront DEF AtFront
<1>6. CASE \E listening \in BOOLEAN : Redownloaded(listening)
  <2> DEFINE top == TRUE
             slip == 0
  <2>1. /\ redo # NoTrack /\ shifted' = 0 /\ UNCHANGED current
        /\ queue' = Settled(Added(queue, redo, top, slip), ShiftedAfterAdd(queue, shifted, top, slip))
    BY <1>6 DEF Redownloaded
  <2>2. redo \in Track /\ top \in BOOLEAN /\ slip \in {0, 1}
    BY <2>1, StateFacts
  <2> HIDE DEF top, slip
  <2> QED
    BY <2>1, <2>2, AddedAtFront DEF AtFront
<1>7. CASE \E listening \in BOOLEAN : Publish(listening)
  BY <1>4, <1>7 DEF Publish, KeepsFirst
<1>8. CASE GetQueue \/ \E m \in LoopModes : SetLoopMode(m)
  BY <1>4, <1>8 DEF GetQueue, SetLoopMode, KeepsFirst
<1>9. CASE RemoveCommand
  <2>1. \A i \in 1..(MaxAdds - 1) : i \in Nat /\ \A j \in i..(MaxAdds - 1) : j \in Int
    BY ConstantsAssumption
  <2>2. 1 \in Nat /\ NoTo \in Int
    BY DEF NoTo
  <2>3. PICK pos \in Nat, n \in Nat, to \in Int : RemoveTrack(pos, n, to)
    BY <1>9, <2>1, <2>2 DEF RemoveCommand
  <2>4. queue' = RemovedTracks(q, pos, n, to) /\ shifted' = 0 /\ UNCHANGED current
    BY <2>3 DEF RemoveTrack
  <2> HIDE DEF q
  <2>5. KeepsFirst(RemovedTracks(q, pos, n, to), q)
    BY <1>1, RemovedTracksFirst
  <2> QED
    BY <1>4, <2>4, <2>5
<1>10. CASE QueueSnapshot
  <2>1. queue' = q /\ shifted' = 0 /\ UNCHANGED current
    BY <1>2, <1>10 DEF QueueSnapshot, Loaded
  <2> QED
    BY <1>4, <2>1 DEF KeepsFirst
<1>11. CASE QueueApply
  <2>1. QueueModified(q) /\ shifted' = 0 /\ snap \in Nat /\ UNCHANGED current
    BY <1>11 DEF QueueApply, IInv, TypeOK
  <2> HIDE DEF q
  <2>2. KeepsFirst(queue', q)
    BY <1>1, <2>1, ModifiedKeepsFirst
  <2> QED
    BY <1>4, <2>1, <2>2
<1>12. CASE \E n \in 0..MaxRepeat : LoopAmount(n)
  <2>1. PICK n \in 0..MaxRepeat : LoopAmount(n)
    BY <1>12
  <2>2. /\ queue' = FrontRepeat(q, n) /\ shifted' = 0
        /\ current' = [current EXCEPT !.repeat = n]
    BY <1>1, <2>1 DEF LoopAmount
  <2>3. FrontRepeat(q, n) # <<>> /\ FrontRepeat(q, n)[1].key = q[1].key
    <3> HIDE DEF q
    <3> DEFINE e == [q[1] EXCEPT !.repeat = n]
               r == FrontRepeat(q, n)
    <3>1. 1 \in 1..Len(q) /\ q[1] \in Track
      BY <1>1, EmptySeq, ElementOfSeq
    <3>2. e \in Track /\ e.key = q[1].key
      BY <3>1, TrackKeys
    <3>3. r = [q EXCEPT ![1] = e]
      BY <1>1 DEF FrontRepeat
    <3> HIDE DEF e, r
    <3>4. r[1] = e /\ Len(r) = Len(q) /\ r \in Seq(Track)
      BY <1>1, <3>1, <3>2, <3>3, ExceptSeq
    <3>5. r # <<>>
      BY <1>1, <3>1, <3>4, EmptySeq
    <3> QED
      BY <3>2, <3>4, <3>5 DEF r
  <2>4. current'.key = current.key
    BY <1>3, <2>2, TrackKeys
  <2> HIDE DEF q
  <2> QED
    BY <1>1, <2>2, <2>3, <2>4 DEF AtFront
<1>13. CASE Stop \/ VoiceReady \/ WorkerPlays \/ StreamEnds
  BY <1>13 DEF Stop, VoiceReady, WorkerPlays, StreamEnds, playerVars, AtFront
<1>14. ~\E fr, to \in 1..(MaxAdds - 1) : Move(fr, to)
  BY DEF Move, PlacesAreSettled
<1> QED
  BY <1>5, <1>6, <1>7, <1>8, <1>9, <1>10, <1>11, <1>12, <1>13, <1>14
     DEF Next, Command, Playback

\* While the stream goes on.
LEMMA PlayingKeepsAtFront ==
    ASSUME PlacesAreSettled, IInv, AtFront, current # NoTrack,
           phase = "playing", phase' = "playing", Next
    PROVE  AtFront'
<1>1. loaded /\ Settled(queue, shifted) # <<>>
  BY SettledAtFront DEF IInv, LoadedWhenPlaying
<1>2. ~Prev /\ ~\E n \in SkipAmounts, remove \in BOOLEAN : Skip(n, remove)
  BY <1>1 DEF Prev, Skip, StoppedPhase
<1>3. /\ ~\E meta \in {"s", "e"}, listening \in BOOLEAN : TrackMarker(meta, listening)
      /\ ~\E giveUp, download \in BOOLEAN : WorkerFails(giveUp, download)
      /\ ~Restart
  BY DEF TrackMarker, WorkerFails, Restart
<1> QED
  BY <1>1, <1>2, <1>3, KeepsAtFront

\* While a stream goes on, whatever users add on top or at the end, remove,
\* shuffle, reverse or clear, and whoever settles the queue, the playing track
\* stays where shifted_track points, so that the end of the track finds it.
THEOREM StaysFirstCorrect == PlacesAreSettled => (Spec => PlayingStaysFirst)
<1> DEFINE A == phase = "playing" /\ phase' = "playing" /\ PlayingIsFirst => PlayingIsFirst'
<1>1. ASSUME PlacesAreSettled, IInv, TrackChosen, [Next]_vars PROVE [A]_vars
  <2> SUFFICES ASSUME Next, phase = "playing", phase' = "playing", PlayingIsFirst
               PROVE  PlayingIsFirst'
    BY <1>1
  <2>1. IInv' /\ TrackChosen'
    BY <1>1, NextIInv, NextTrackChosen
  <2>2. AtFront /\ current # NoTrack
    BY <1>1, FirstIsAtFront DEF TrackChosen
  <2>3. AtFront'
    BY <1>1, <2>2, PlayingKeepsAtFront
  <2>4. (IInv /\ TrackChosen /\ phase = "playing" => (PlayingIsFirst <=> AtFront))'
    BY FirstIsAtFront, PTL
  <2> QED
    BY <2>1, <2>3, <2>4
<1>2. Init => TrackChosen
  BY DEF Init, TrackChosen
<1>3. IInv /\ TrackChosen /\ [Next]_vars => TrackChosen'
  BY NextTrackChosen
<1> SUFFICES ASSUME PlacesAreSettled PROVE Spec => PlayingStaysFirst
  OBVIOUS
<1>4. Spec => []TrackChosen
  BY <1>2, <1>3, Invariant, PTL DEF Spec
<1> QED
  BY <1>1, <1>4, Invariant, PTL DEF Spec, PlayingStaysFirst

----------------------------------------------------------------------------
(***************************************************************************)
(* With the queue looping no entry is lost: what draws as many entries from*)
(* a queue as it has takes each of them.                                   *)
(***************************************************************************)
\* Every entry of q is in r.
Covers(r, q) == \A i \in 1..Len(q) : \E j \in 1..Len(r) : r[j].key = q[i].key

LEMMA FromCovers ==
    ASSUME NEW S, NEW q \in Seq(S), NEW r, From(r, q, All(q)), Len(r) = Len(q)
    PROVE  Covers(r, q)
<1>1. PICK f \in [1..Len(r) -> 1..Len(q)] :
             /\ \A i, j \in 1..Len(r) : f[i] = f[j] => i = j
             /\ \A i \in 1..Len(r) : r[i].key = q[f[i]].key
  BY IdKey DEF From, All
<1> DEFINE I == 1..Len(q)
<1>2. IsFiniteSet(I)
  BY LenProperties, FS_Interval
<1>3. f \in Injection(I, I)
  BY <1>1 DEF Injection, IsInjective
<1> HIDE DEF I
<1>4. f \in Surjection(I, I)
  BY <1>2, <1>3, FS_Injection
<1>5. \A i \in I : \E j \in I : f[j] = i
  BY <1>4 DEF Surjection
<1>6. I = 1..Len(r)
  BY DEF I
<1>7. ASSUME NEW i \in I
      PROVE  \E j \in 1..Len(r) : r[j].key = q[i].key
  <2>1. PICK j \in I : f[j] = i
    BY <1>5
  <2> QED
    BY <1>1, <1>6, <2>1
<1> QED
  BY <1>7 DEF Covers, I

LEMMA CoversTrans ==
    ASSUME NEW p, NEW q, NEW r, Covers(r, q), Covers(q, p)
    PROVE  Covers(r, p)
  BY DEF Covers

LEMMA CoversKeys ==
    ASSUME NEW q, NEW r, Covers(r, q)
    PROVE  KeySet(q) \subseteq KeySet(r)
  BY DEF Covers, KeySet

\* reset_shifted.
LEMMA CoversSettled ==
    ASSUME NEW S, NEW q \in Seq(S), NEW n \in Nat, n = 0 \/ n < Len(q)
    PROVE  Covers(Settled(q, n), q)
<1> DEFINE r == Settled(q, n)
<1>1. From(r, q, All(q)) /\ Len(r) = Len(q)
  BY FromSettled, SettledType
<1> HIDE DEF r
<1> QED
  BY <1>1, FromCovers DEF r

\* One sequence in front of another.
LEMMA CoversConcat ==
    ASSUME NEW S, NEW q \in Seq(S), NEW b \in Seq(S)
    PROVE  Covers(q \o b, q)
<1> DEFINE r == q \o b
<1>1. Len(q) \in Nat /\ Len(b) \in Nat
  BY LenProperties
<1>2. Len(r) = Len(q) + Len(b) /\ \A i \in 1..Len(q) : r[i] = q[i]
  BY <1>1, ConcatProperties
<1> HIDE DEF r
<1>3. \A i \in 1..Len(q) : i \in 1..Len(r)
  BY <1>1, <1>2
<1> QED
  BY <1>2, <1>3 DEF Covers, r

\* add_track.
LEMMA CoversAdded ==
    ASSUME NEW S, NEW q \in Seq(S), NEW t \in S, NEW top \in BOOLEAN, NEW slip \in Nat
    PROVE  Covers(Added(q, t, top, slip), q)
<1> DEFINE b == <<t>>
           p == q \o b
           r == Added(q, t, top, slip)
           n == 0
<1>1. b \in Seq(S) /\ Len(b) = 1 /\ n \in Nat /\ n = 0
  OBVIOUS
<1> HIDE DEF b, n
<1>2. p \in Seq(S) /\ Len(p) = Len(q) + 1 /\ Covers(p, q)
  BY <1>1, ConcatType, CoversConcat
<1>3. From(r, p, All(p))
  BY FromAdded DEF b
<1>4. Len(r) = Len(q) + 1
  BY <1>1, AddedType
<1> HIDE DEF p, r
<1>5. Covers(r, p)
  BY <1>2, <1>3, <1>4, FromCovers
<1> QED
  BY <1>2, <1>5, CoversTrans DEF r

\* The repeat count of the first entry.
LEMMA CoversFrontRepeat ==
    ASSUME NEW q \in Seq(Track), NEW n \in 0..MaxRepeat
    PROVE  /\ FrontRepeat(q, n) \in Seq(Track)
           /\ Len(FrontRepeat(q, n)) = Len(q)
           /\ Covers(FrontRepeat(q, n), q)
<1> DEFINE r == FrontRepeat(q, n)
<1>1. r \in Seq(Track) /\ Len(r) = Len(q)
  BY TrackKeys, FrontRepeatType
<1>2. From(r, q, All(q))
  BY TrackIds, FromFrontRepeat
<1> HIDE DEF r
<1> QED
  BY <1>1, <1>2, FromCovers DEF r

\* Entries that go to the back are as many as there were.
LEMMA RotatedLen ==
    ASSUME NEW q \in Seq(Track), q # <<>>, NEW n \in Nat
    PROVE  Len(Rotated(q, n)) = Len(q)
<1>1. Len(q) \in Nat /\ Len(q) > 0
  BY EmptySeq, LenProperties
<1>2. ASSUME NEW k \in 0..Len(q)
      PROVE  LET a == SubSeq(q, k + 1, Len(q))
                 b == SubSeq(q, 1, k)
             IN  /\ a \in Seq(Track) /\ Len(a) = Len(q) - k
                 /\ b \in Seq(Track) /\ Len(b) = k
  <2> DEFINE m == k + 1
  <2>1. m \in Nat \ {0} /\ Len(q) \in Int /\ Len(q) <= Len(q) /\ k \in Int /\ k <= Len(q)
    BY <1>1
  <2>2. 1 \in Nat \ {0}
    OBVIOUS
  <2>3. (m <= Len(q) => Len(q) - m + 1 = Len(q) - k) /\ (~(m <= Len(q)) => Len(q) - k = 0)
    BY <1>1
  <2> HIDE DEF m
  <2>4. SubSeq(q, m, Len(q)) \in Seq(Track) /\ Len(SubSeq(q, m, Len(q))) = Len(q) - k
    BY <2>1, <2>3, SubSeqType
  <2>5. SubSeq(q, 1, k) \in Seq(Track) /\ Len(SubSeq(q, 1, k)) = k
    BY <2>1, <2>2, SubSeqType
  <2> QED
    BY <2>4, <2>5 DEF m
<1>3. CASE n >= Len(q)
  <2> DEFINE k == n % Len(q)
             a == SubSeq(q, k + 1, Len(q))
             b == SubSeq(q, 1, k)
  <2>1. k \in 0..Len(q)
    BY <1>1
  <2>2. Rotated(q, n) = Unrepeated(a \o b)
    BY <1>3 DEF Rotated
  <2> HIDE DEF k
  <2>3. a \in Seq(Track) /\ Len(a) = Len(q) - k /\ b \in Seq(Track) /\ Len(b) = k
    BY <1>2, <2>1
  <2> HIDE DEF a, b
  <2>4. a \o b \in Seq(Track) /\ Len(a \o b) = Len(q)
    BY <1>1, <2>1, <2>3, ConcatType
  <2> DEFINE p == a \o b
  <2> HIDE DEF p
  <2>5. Len(Unrepeated(p)) = Len(p)
    BY <2>4, TrackFacts, UnrepeatedType DEF p
  <2> QED
    BY <2>2, <2>4, <2>5 DEF p
<1>4. CASE ~(n >= Len(q))
  <2> DEFINE a == SubSeq(q, n + 1, Len(q))
             b == SubSeq(q, 1, n)
             c == Unrepeated(b)
  <2>1. n \in 0..Len(q)
    BY <1>1, <1>4
  <2>2. Rotated(q, n) = a \o c
    BY <1>4 DEF Rotated
  <2>3. a \in Seq(Track) /\ Len(a) = Len(q) - n /\ b \in Seq(Track) /\ Len(b) = n
    BY <1>2, <2>1
  <2> HIDE DEF a, b
  <2>4. c \in Seq(Track) /\ Len(c) = n
    BY <2>3, TrackFacts, UnrepeatedType
  <2> HIDE DEF c
  <2> QED
    BY <1>1, <2>1, <2>2, <2>3, <2>4, ConcatType
<1> QED
  BY <1>3, <1>4

\* skip_queue keeps every entry when the queue loops and none is to go.
LEMMA CoversSkippedQueue ==
    ASSUME NEW q \in Seq(Track), NEW mode \in QueueModes, NEW amount \in Int
    PROVE  Covers(SkippedQueue(q, mode, amount, FALSE, FALSE), q)
<1> DEFINE n == PopCount(amount, mode, FALSE)
           f == FrontRepeat(q, 0)
           r == Rotated(f, n)
<1>1. n \in Nat
  <2>1. CASE amount < 1
    BY <2>1 DEF PopCount
  <2>2. CASE amount > 1000
    BY <2>2 DEF PopCount
  <2>3. CASE ~(amount < 1) /\ ~(amount > 1000)
    BY <2>3 DEF PopCount
  <2> QED
    BY <2>1, <2>2, <2>3
<1>2. f \in Seq(Track) /\ Len(f) = Len(q) /\ Covers(f, q)
  BY TrackFacts, CoversFrontRepeat
<1>3. f # <<>> => SkippedQueue(q, mode, amount, FALSE, FALSE) = r
  BY DEF SkippedQueue
<1> HIDE DEF f, n
<1>4. CASE f = <<>>
  <2>1. Len(q) = 0
    BY <1>2, <1>4
  <2> QED
    BY <2>1 DEF Covers
<1>5. CASE f # <<>>
  <2>1. r \in Seq(Track) /\ Len(r) = Len(f)
    BY <1>1, <1>2, <1>5, TrackFacts, RotatedType, RotatedLen
  <2>2. From(r, f, All(f))
    BY <1>1, <1>2, <1>5, TrackIds, FromRotated
  <2> HIDE DEF r
  <2>3. Covers(r, f)
    BY <1>2, <2>1, <2>2, FromCovers
  <2> QED
    BY <1>2, <1>3, <1>5, <2>3, CoversTrans
<1> QED
  BY <1>4, <1>5

\* The previous-track button.
LEMMA CoversLastToFront ==
    ASSUME NEW q \in Seq(Track)
    PROVE  Covers(LastToFront(q), q)
<1> DEFINE f == FrontRepeat(q, 0)
           a == <<f[Len(f)]>>
           b == SubSeq(f, 1, Len(f) - 1)
           r == LastToFront(q)
<1>1. f \in Seq(Track) /\ Len(f) = Len(q)
  BY TrackFacts, CoversFrontRepeat
<1>2. r = IF f = <<>> THEN f ELSE a \o b
  BY DEF LastToFront
<1>3. From(r, q, All(q))
  BY TrackIds, FromLastToFront
<1> HIDE DEF f, r
<1>4. Len(r) = Len(q)
  <2>1. CASE f = <<>>
    BY <1>1, <1>2, <2>1
  <2>2. CASE f # <<>>
    <3>1. Len(f) \in Nat \ {0}
      BY <1>1, <2>2, EmptySeq
    <3>2. a \in Seq(Track) /\ Len(a) = 1
      BY <1>1, <3>1, ElementOfSeq
    <3>3. b \in Seq(Track) /\ Len(b) = Len(f) - 1
      <4> DEFINE m == Len(f) - 1
                 k == 1
      <4>1. m \in Nat /\ m <= Len(f) /\ k \in Nat \ {0} /\ k = 1
        BY <3>1
      <4> HIDE DEF m, k
      <4>2. SubSeq(f, k, m) \in Seq(Track)
        BY <1>1, <4>1, SubSeqType
      <4>3. Len(SubSeq(f, k, m)) = IF k <= m THEN m - k + 1 ELSE 0
        BY <1>1, <4>1, SubSeqType
      <4>4. Len(SubSeq(f, k, m)) = m
        BY <4>1, <4>3
      <4> QED
        BY <4>2, <4>4 DEF m, k
    <3> HIDE DEF a, b
    <3>4. Len(a \o b) = Len(a) + Len(b)
      BY <3>2, <3>3, ConcatType
    <3> QED
      BY <1>1, <1>2, <2>2, <3>1, <3>2, <3>3, <3>4
  <2> QED
    BY <2>1, <2>2
<1> QED
  BY <1>3, <1>4, FromCovers DEF r

\* The end of a track while the queue loops.
LEMMA CoversAfterEnd ==
    ASSUME TypeOK, NEW q \in Seq(Track), q # <<>>, current \in Track, loop_mode \in QueueModes
    PROVE  AfterEnd(q) # <<>> /\ Covers(AfterEnd(q), q)
<1> DEFINE r == AfterEnd(q)
<1>1. r \in Seq(Track) /\ From(r, q, All(q))
  BY AfterEndType, FromAfterEnd
<1>2. Len(q) \in Nat \ {0} /\ 1 \in 1..Len(q) /\ q[1] \in Track
  BY EmptySeq, ElementOfSeq
<1>3. Len(r) = Len(q)
  <2>1. r = q \/ r = Append(Tail(q), q[1])
        \/ (current.repeat > 0 /\ r = [q EXCEPT ![1].repeat = current.repeat - 1])
    BY DEF AfterEnd, QueueModes
  <2>2. Len(Append(Tail(q), q[1])) = Len(q)
    <3>1. Tail(q) \in Seq(Track) /\ Len(Tail(q)) = Len(q) - 1
      BY HeadTailProperties
    <3> QED
      BY <1>2, <3>1, AppendProperties
  <2>3. current.repeat > 0 => Len([q EXCEPT ![1].repeat = current.repeat - 1]) = Len(q)
    <3> SUFFICES ASSUME current.repeat > 0
                 PROVE  Len([q EXCEPT ![1].repeat = current.repeat - 1]) = Len(q)
      OBVIOUS
    <3> DEFINE n == current.repeat - 1
    <3>1. n \in 0..MaxRepeat
      <4>1. current.repeat \in 0..MaxRepeat
        BY TrackFacts
      <4> QED
        BY <4>1, ConstantsAssumption
    <3>2. FrontRepeat(q, n) = [q EXCEPT ![1].repeat = current.repeat - 1]
      BY DEF FrontRepeat
    <3> HIDE DEF n
    <3>3. Len(FrontRepeat(q, n)) = Len(q)
      BY <3>1, CoversFrontRepeat
    <3> QED
      BY <3>2, <3>3
  <2> HIDE DEF r
  <2> QED
    BY <2>1, <2>2, <2>3
<1> HIDE DEF r
<1>4. Covers(r, q) /\ r # <<>>
  BY <1>1, <1>2, <1>3, FromCovers, EmptySeq
<1> QED
  BY <1>4 DEF r

\* The entries of the queue are there when its settled form's are.
LEMMA CoversQueue ==
    ASSUME IInv, Covers(queue', Settled(queue, shifted))
    PROVE  KeySet(queue) \subseteq KeySet(queue')
<1>1. Covers(Settled(queue, shifted), queue)
  BY StateFacts, CoversSettled
<1> QED
  BY <1>1, CoversTrans, CoversKeys

\* The queue with the saved entries behind it.
LEMMA CoversLoaded ==
    ASSUME IInv
    PROVE  /\ Settled(Loaded(queue), shifted) \in Seq(Track)
           /\ Covers(Settled(Loaded(queue), shifted), queue)
<1> DEFINE l == Loaded(queue)
<1>1. /\ queue \in Seq(Track) /\ Len(queue) \in Nat /\ shifted \in Nat
      /\ shifted = 0 \/ shifted < Len(queue)
      /\ saved \in Seq(Track)
  BY StateFacts
<1>2. l \in Seq(Track) /\ (shifted = 0 \/ shifted < Len(l))
  BY <1>1, LoadedType DEF IInv
<1>3. Covers(l, queue)
  <2>1. Restored \in Seq(Track)
    BY <1>1, RestoredType
  <2>2. Covers(queue \o Restored, queue)
    BY <1>1, <2>1, CoversConcat
  <2>3. Covers(queue, queue)
    BY DEF Covers
  <2> QED
    BY <2>2, <2>3 DEF Loaded
<1> HIDE DEF l
<1>4. Covers(Settled(l, shifted), l) /\ Settled(l, shifted) \in Seq(Track)
  BY <1>1, <1>2, CoversSettled, SettledType
<1> DEFINE s == Settled(l, shifted)
<1> HIDE DEF s
<1>5. Covers(s, queue)
  BY <1>3, <1>4, CoversTrans DEF s
<1> QED
  BY <1>4, <1>5 DEF s, l

\* The entry that a download puts back is settled with the queue.
LEMMA CoversRedownloaded ==
    ASSUME IInv, NEW listening \in BOOLEAN, Redownloaded(listening)
    PROVE  KeySet(queue) \subseteq KeySet(queue')
<1> DEFINE top == TRUE
           slip == 0
           a == Added(queue, redo, top, slip)
           n == ShiftedAfterAdd(queue, shifted, top, slip)
<1>1. redo # NoTrack /\ queue' = Settled(a, n)
  BY DEF Redownloaded
<1>2. /\ queue \in Seq(Track) /\ shifted \in Nat /\ (shifted = 0 \/ shifted < Len(queue))
      /\ redo \in Track
  BY <1>1, StateFacts
<1>3. top \in BOOLEAN /\ slip \in Nat
  OBVIOUS
<1> HIDE DEF top, slip
<1>4. a \in Seq(Track) /\ Len(a) = Len(queue) + 1
  BY <1>2, <1>3, AddedType
<1>5. n \in Nat /\ n < Len(queue) + 1
  BY <1>2, <1>3, AddedType
<1>7. Covers(a, queue)
  BY <1>2, <1>3, CoversAdded
<1> HIDE DEF a, n
<1>6. Covers(queue', a)
  BY <1>1, <1>4, <1>5, CoversSettled
<1> QED
  BY <1>6, <1>7, CoversTrans, CoversKeys

\* Every step but those that are to remove entries keeps them.
LEMMA NextKeepsEntries ==
    ASSUME IInv, Next, loop_mode \in QueueModes,
           ~\E n \in SkipAmounts : Skip(n, TRUE), ~RemoveCommand, ~QueueApply,
           ~\E giveUp, download \in BOOLEAN : WorkerFails(giveUp, download), ~Restart
    PROVE  KeySet(queue) \subseteq KeySet(queue')
<1> DEFINE q == Settled(queue, shifted)
<1>1. q \in Seq(Track) /\ Covers(q, q)
  BY SettledFacts DEF Covers
<1>2. /\ queue \in Seq(Track) /\ Len(queue) \in Nat /\ shifted \in Nat
      /\ shifted = 0 \/ shifted < Len(queue)
  BY StateFacts
<1>3. ASSUME Covers(queue', q) PROVE KeySet(queue) \subseteq KeySet(queue')
  BY <1>3, CoversQueue
<1> HIDE DEF q
<1>4. CASE AddCommand
  <2>1. PICK file \in Files, user \in Users, top \in BOOLEAN, slip \in Slips \cup {0} :
            AddTrack(file, user, top, slip)
    BY <1>4 DEF AddCommand
  <2> DEFINE t == [key |-> adds + 1, file |-> file, user |-> user, repeat |-> 0]
  <2>2. t \in Track
    BY <2>1, ConstantsAssumption DEF AddTrack, IInv, TypeOK, Track
  <2>3. queue' = Added(queue, t, top, slip)
    BY <2>1 DEF AddTrack
  <2>4. slip \in Nat
    BY ConstantsAssumption
  <2> HIDE DEF t
  <2> QED
    BY <1>2, <2>2, <2>3, <2>4, CoversAdded, CoversKeys
<1>5. CASE \/ GetQueue
           \/ \E listening \in BOOLEAN : Publish(listening)
           \/ \E m \in LoopModes : SetLoopMode(m)
  <2>1. queue' = q
    BY <1>5 DEF GetQueue, Publish, SetLoopMode, q
  <2> QED
    BY <1>1, <1>3, <2>1
<1>6. CASE \E n \in SkipAmounts, remove \in BOOLEAN : Skip(n, remove)
  <2>1. PICK n \in SkipAmounts : Skip(n, FALSE)
    BY <1>6
  <2>2. queue' = SkippedQueue(q, loop_mode, n, FALSE, FALSE) /\ n \in Int
    BY <2>1, ConstantsAssumption DEF Skip, q
  <2> QED
    BY <1>1, <1>3, <2>2, CoversSkippedQueue
<1>7. CASE Prev
  BY <1>1, <1>3, <1>7, CoversLastToFront DEF Prev, q
<1>8. CASE Stop \/ VoiceReady \/ WorkerPlays \/ StreamEnds
  BY <1>8 DEF Stop, VoiceReady, WorkerPlays, StreamEnds, playerVars
<1>9. CASE \E fr, to \in 1..(MaxAdds - 1) : Move(fr, to)
  <2>1. PICK fr \in 1..(Len(queue) - 1), to \in 1..(Len(queue) - 1) :
            queue' = Settled(Moved(queue, fr, to), shifted)
    BY <1>9 DEF Move
  <2> DEFINE m == Moved(queue, fr, to)
  <2>2. m \in Seq(Track) /\ Len(m) = Len(queue) /\ From(m, queue, All(queue))
    BY <1>2, <2>1, MovedType, FromMoved
  <2> HIDE DEF m
  <2>3. Covers(m, queue)
    BY <1>2, <2>2, FromCovers
  <2>4. Covers(queue', m)
    BY <1>2, <2>1, <2>2, CoversSettled DEF m
  <2> QED
    BY <2>3, <2>4, CoversTrans, CoversKeys
<1>10. CASE \E n \in 0..MaxRepeat : LoopAmount(n)
  <2>1. PICK n \in 0..MaxRepeat : LoopAmount(n)
    BY <1>10
  <2>2. CASE q = <<>>
    <3>1. Covers(queue', q)
      BY <2>2 DEF Covers
    <3> QED
      BY <1>3, <3>1
  <2>3. CASE q # <<>>
    <3>1. queue' = FrontRepeat(q, n)
      BY <2>1, <2>3 DEF LoopAmount, q
    <3> QED
      BY <1>1, <1>3, <3>1, CoversFrontRepeat
  <2> QED
    BY <2>2, <2>3
<1>11. CASE QueueSnapshot
  <2>1. queue' = Settled(Loaded(queue), shifted)
    BY <1>11 DEF QueueSnapshot
  <2> QED
    BY <2>1, CoversLoaded, CoversKeys
<1>12. CASE \E meta \in {"s", "e"}, listening \in BOOLEAN : TrackMarker(meta, listening)
  <2>1. PICK meta \in {"s", "e"}, listening \in BOOLEAN : TrackMarker(meta, listening)
    BY <1>12
  <2> DEFINE l == Settled(Loaded(queue), shifted)
  <2>2. l \in Seq(Track) /\ Covers(l, queue)
    BY CoversLoaded
  <2>3. \/ queue' = queue
        \/ l # <<>> /\ current # NoTrack /\ queue' = AfterEnd(l)
        \/ queue' = l
    BY <2>1 DEF TrackMarker
  <2> HIDE DEF l
  <2>4. ASSUME l # <<>>, current # NoTrack PROVE Covers(AfterEnd(l), l)
    <3>1. TypeOK /\ current \in Track
      BY <2>4, StateFacts DEF IInv
    <3> QED
      BY <2>2, <2>4, <3>1, CoversAfterEnd
  <2>5. Covers(queue', queue) \/ queue' = queue
    BY <2>2, <2>3, <2>4, CoversTrans
  <2> QED
    BY <2>5, CoversKeys
<1> QED
  BY <1>4, <1>5, <1>6, <1>7, <1>8, <1>9, <1>10, <1>11, <1>12, CoversRedownloaded
     DEF Next, Command, Playback

\* With the queue looping only the commands that remove entries, a track that
\* fails to play and a restart take entries away: not the end of a track, not a
\* skip that keeps, not the move command, and no reader of the queue.
THEOREM LoopKeepsCorrect == Spec => LoopKeepsEntries
<1> DEFINE A == \/ loop_mode \notin QueueModes
                \/ KeySet(queue) \subseteq KeySet(queue')
                \/ \E n \in SkipAmounts : Skip(n, TRUE)
                \/ RemoveCommand
                \/ QueueApply
                \/ \E giveUp, download \in BOOLEAN : WorkerFails(giveUp, download)
                \/ Restart
<1>1. ASSUME IInv, [Next]_vars PROVE [A]_vars
  BY <1>1, NextKeepsEntries
<1> QED
  BY <1>1, Invariant, PTL DEF Spec, LoopKeepsEntries

----------------------------------------------------------------------------
(***************************************************************************)
(* The queue implements the playlist.                                      *)
(***************************************************************************)
\* The playlist, and what plays of it, as ImplementsPlaylist has them.
List == [i \in 1..Len(queue) |-> Settled(queue, shifted)[i].key]
Playing == IF phase = "playing" THEN current.key ELSE 0

\* The playlist is a sequence of the keys of the queue, each once.
LEMMA ListFacts ==
    IInv => /\ Len(List) = Len(queue) /\ Len(queue) \in Nat
            /\ DOMAIN List = 1..Len(queue)
            /\ List \in Seq(1..MaxAdds)
            /\ \A i \in 1..Len(queue) : List[i] = Settled(queue, shifted)[i].key
            /\ PL!Entries(List) = KeySet(queue)
            /\ Distinct(queue) => PL!Distinct(List)
<1> SUFFICES ASSUME IInv
             PROVE  /\ Len(List) = Len(queue) /\ Len(queue) \in Nat
                    /\ DOMAIN List = 1..Len(queue)
                    /\ List \in Seq(1..MaxAdds)
                    /\ \A i \in 1..Len(queue) : List[i] = Settled(queue, shifted)[i].key
                    /\ PL!Entries(List) = KeySet(queue)
                    /\ Distinct(queue) => PL!Distinct(List)
  OBVIOUS
<1> DEFINE s == Settled(queue, shifted)
<1>1. /\ queue \in Seq(Track) /\ Len(queue) \in Nat /\ shifted \in Nat
      /\ shifted = 0 \/ shifted < Len(queue)
  BY StateFacts
<1>2. s \in Seq(Track) /\ Len(s) = Len(queue)
  BY <1>1, SettledType
<1>3. Covers(s, queue) /\ From(s, queue, All(queue))
  BY <1>1, CoversSettled, FromSettled
<1>4. List = [i \in 1..Len(queue) |-> s[i].key]
  BY DEF List
<1> HIDE DEF s
<1>5. \A i \in 1..Len(queue) : s[i].key \in 1..MaxAdds
  BY <1>2, ElementOfSeq, TrackFacts
<1>6. /\ List \in [1..Len(queue) -> 1..MaxAdds]
      /\ \A i \in 1..Len(queue) : List[i] = s[i].key
  BY <1>4, <1>5
<1>7. List \in Seq(1..MaxAdds) /\ Len(List) = Len(queue)
  <2> DEFINE n == Len(queue)
             K == 1..MaxAdds
  <2>1. n \in Nat /\ List \in [1..n -> K]
    BY <1>1, <1>6
  <2> HIDE DEF n, K
  <2>2. List \in Seq(K)
    BY <2>1
  <2>3. Len(List) = n
    BY <2>1, <2>2, LenProperties
  <2> QED
    BY <2>2, <2>3 DEF n, K
<1>8. PL!Entries(List) = KeySet(queue)
  <2>1. PICK f \in [1..Len(s) -> 1..Len(queue)] : \A i \in 1..Len(s) : s[i].key = queue[f[i]].key
    BY <1>3, IdKey DEF From, All
  <2>2. \A i \in 1..Len(queue) : List[i] \in KeySet(queue)
    BY <1>2, <1>6, <2>1 DEF KeySet
  <2>3. \A i \in 1..Len(queue) : \E j \in 1..Len(queue) : List[j] = queue[i].key
    BY <1>2, <1>3, <1>6 DEF Covers
  <2> QED
    BY <1>7, <2>2, <2>3 DEF KeySet, PL!Entries
<1>9. ASSUME Distinct(queue) PROVE PL!Distinct(List)
  <2>1. Distinct(s)
    BY <1>3, <1>9, FromDistinct
  <2> QED
    BY <1>2, <1>6, <1>7, <2>1 DEF Distinct, PL!Distinct
<1> QED
  BY <1>1, <1>6, <1>7, <1>8, <1>9 DEF s

\* What is drawn from a queue has keys of it.
LEMMA FromKeys ==
    ASSUME NEW q, NEW r, From(r, q, All(q))
    PROVE  KeySet(r) \subseteq KeySet(q)
<1>1. PICK f \in [1..Len(r) -> 1..Len(q)] : \A i \in 1..Len(r) : r[i].key = q[f[i]].key
  BY IdKey DEF From, All
<1>2. \A i \in 1..Len(r) : f[i] \in 1..Len(q)
  BY <1>1
<1> QED
  BY <1>1, <1>2 DEF KeySet

\* The steps that bring entries into the queue.
Loading ==
    /\ ~loaded
    /\ \/ QueueSnapshot
       \/ \E meta \in {"s", "e"}, listening \in BOOLEAN : TrackMarker(meta, listening)

BringsCurrent == queue = <<>> /\ \E n \in 0..MaxRepeat : LoopAmount(n)

\* No other step does.
LEMMA NextDraws ==
    ASSUME IInv, Next, ~AddCommand, ~Loading, ~BringsCurrent, ~Restart,
           ~\E listening \in BOOLEAN : Redownloaded(listening)
    PROVE  From(queue', queue, All(queue))
<1> DEFINE q == Settled(queue, shifted)
<1>1. q \in Seq(Track) /\ Len(q) \in Nat /\ From(q, q, All(q))
  BY SettledFacts, LenProperties, FromSame
<1>2. /\ queue \in Seq(Track) /\ Len(queue) \in Nat /\ shifted \in Nat
      /\ shifted = 0 \/ shifted < Len(queue)
  BY StateFacts
<1>2a. From(queue, queue, All(queue))
  BY FromSame
<1>3. From(queue', q, All(q)) => From(queue', queue, All(queue))
  BY FromQueue
<1>4. q = <<>> => queue = <<>>
  <2>1. Len(q) = Len(queue)
    BY <1>2, SettledType
  <2> QED
    BY <1>1, <1>2, <2>1, EmptySeq
<1> HIDE DEF q
<1>5. CASE \/ GetQueue
           \/ \E listening \in BOOLEAN : Publish(listening)
           \/ \E m \in LoopModes : SetLoopMode(m)
  <2>1. queue' = q
    BY <1>5 DEF GetQueue, Publish, SetLoopMode, q
  <2> QED
    BY <1>1, <1>3, <2>1
<1>6. CASE \E n \in SkipAmounts, remove \in BOOLEAN : Skip(n, remove)
  <2>1. PICK n \in SkipAmounts, remove \in BOOLEAN : Skip(n, remove)
    BY <1>6
  <2> DEFINE popCurrent == FALSE
  <2>2. queue' = SkippedQueue(q, loop_mode, n, remove, popCurrent) /\ n \in Int /\ popCurrent \in BOOLEAN
    BY <2>1, ConstantsAssumption DEF Skip, q
  <2> HIDE DEF popCurrent
  <2> QED
    BY <1>1, <1>3, <2>2, TrackIds, FromSkippedQueue
<1>7. CASE Prev
  <2>1. From(LastToFront(q), q, All(q))
    BY <1>1, TrackIds, FromLastToFront
  <2> QED
    BY <1>3, <1>7, <2>1 DEF Prev, q
<1>8. CASE Stop \/ VoiceReady \/ WorkerPlays \/ StreamEnds
  <2>1. queue' = queue
    BY <1>8 DEF Stop, VoiceReady, WorkerPlays, StreamEnds, playerVars
  <2> QED
    BY <1>2a, <2>1
<1>9. CASE \E fr, to \in 1..(MaxAdds - 1) : Move(fr, to)
  <2>1. PICK fr \in 1..(Len(queue) - 1), to \in 1..(Len(queue) - 1) :
            queue' = Settled(Moved(queue, fr, to), shifted)
    BY <1>9 DEF Move
  <2> DEFINE m == Moved(queue, fr, to)
  <2>2. m \in Seq(Track) /\ Len(m) = Len(queue) /\ From(m, queue, All(queue))
    BY <1>2, <2>1, MovedType, FromMoved
  <2> HIDE DEF m
  <2>3. From(queue', m, All(m))
    BY <1>2, <2>1, <2>2, FromSettled DEF m
  <2> QED
    BY <2>2, <2>3, FromTrans
<1>10. CASE RemoveCommand
  <2>1. \A i \in 1..(MaxAdds - 1) : i \in Nat /\ \A j \in i..(MaxAdds - 1) : j \in Int
    BY ConstantsAssumption
  <2>2. 1 \in Nat /\ NoTo \in Int
    BY DEF NoTo
  <2>3. PICK pos \in Nat, n \in Nat, to \in Int : RemoveTrack(pos, n, to)
    BY <1>10, <2>1, <2>2 DEF RemoveCommand
  <2>4. queue' = RemovedTracks(q, pos, n, to)
    BY <2>3 DEF RemoveTrack, q
  <2>5. From(RemovedTracks(q, pos, n, to), q, All(q))
    BY <1>1, FromRemovedTracks
  <2> QED
    BY <1>3, <2>4, <2>5
<1>11. CASE \E n \in 0..MaxRepeat : LoopAmount(n)
  <2>1. PICK n \in 0..MaxRepeat : LoopAmount(n)
    BY <1>11
  <2>2. q # <<>>
    BY <1>4, <2>1 DEF BringsCurrent
  <2>3. queue' = FrontRepeat(q, n)
    BY <2>1, <2>2 DEF LoopAmount, q
  <2>4. From(FrontRepeat(q, n), q, All(q))
    BY <1>1, TrackIds, FromFrontRepeat
  <2> QED
    BY <1>3, <2>3, <2>4
<1>12. CASE QueueSnapshot
  <2>1. queue' = q
    BY <1>12 DEF QueueSnapshot, Loading, Loaded, q
  <2> QED
    BY <1>1, <1>3, <2>1
<1>13. CASE QueueApply
  <2>1. QueueModified(q) /\ snap \in Nat
    BY <1>13 DEF QueueApply, IInv, TypeOK, q
  <2> QED
    BY <1>1, <1>3, <2>1, ModifiedKeepsFirst
<1>14. CASE \E meta \in {"s", "e"}, listening \in BOOLEAN : TrackMarker(meta, listening)
  <2>1. PICK meta \in {"s", "e"}, listening \in BOOLEAN : TrackMarker(meta, listening)
    BY <1>14
  <2>2. Settled(Loaded(queue), shifted) = q
    BY <1>14 DEF Loading, Loaded, q
  <2>3. \/ queue' = queue
        \/ q # <<>> /\ current # NoTrack /\ queue' = AfterEnd(q)
        \/ queue' = q
    BY <2>1, <2>2 DEF TrackMarker
  <2>4. ASSUME q # <<>>, current # NoTrack PROVE From(AfterEnd(q), q, All(q))
    <3>1. TypeOK /\ current \in Track
      BY <2>4, StateFacts DEF IInv
    <3> QED
      BY <1>1, <2>4, <3>1, FromAfterEnd
  <2> QED
    BY <1>1, <1>2a, <1>3, <2>3, <2>4
<1>15. CASE \E giveUp, download \in BOOLEAN : WorkerFails(giveUp, download)
  <2> DEFINE one == 1
             yes == TRUE
  <2>1. queue' = SkippedQueue(q, loop_mode, one, yes, yes) /\ one \in Int /\ yes \in BOOLEAN
    BY <1>15 DEF WorkerFails, q
  <2> HIDE DEF one, yes
  <2> QED
    BY <1>1, <1>3, <2>1, TrackIds, FromSkippedQueue
<1> QED
  BY <1>5, <1>6, <1>7, <1>8, <1>9, <1>10, <1>11, <1>12, <1>13, <1>14, <1>15
     DEF Next, Command, Playback

\* The first entry of the playlist is the one shifted_track points at.
LEMMA FirstOfList ==
    IInv => /\ List # <<>> <=> queue # <<>>
            /\ queue # <<>> => List[1] = queue[shifted + 1].key
<1> SUFFICES ASSUME IInv
             PROVE  /\ List # <<>> <=> queue # <<>>
                    /\ queue # <<>> => List[1] = queue[shifted + 1].key
  OBVIOUS
<1>1. /\ queue \in Seq(Track) /\ Len(queue) \in Nat /\ shifted \in Nat
      /\ shifted = 0 \/ shifted < Len(queue)
  BY StateFacts
<1>2. /\ Len(List) = Len(queue) /\ List \in Seq(1..MaxAdds)
      /\ \A i \in 1..Len(queue) : List[i] = Settled(queue, shifted)[i].key
  BY ListFacts
<1>3. List # <<>> <=> queue # <<>>
  BY <1>1, <1>2, EmptySeq
<1>4. ASSUME queue # <<>> PROVE List[1] = queue[shifted + 1].key
  <2>1. Len(queue) > 0 /\ 1 \in 1..Len(queue) /\ shifted < Len(queue)
    BY <1>1, <1>4, EmptySeq
  <2>2. Settled(queue, shifted)[1] = queue[shifted + 1]
    BY <1>1, <1>4, <2>1, SettledFirst
  <2> QED
    BY <1>2, <2>1, <2>2
<1> QED
  BY <1>3, <1>4

\* A stream that goes on goes on with its track.
LEMMA PlayingGoesOn ==
    ASSUME IInv, TrackChosen, Next, phase = "playing", phase' = "playing"
    PROVE  current'.key = current.key
<1>1. current \in Track /\ NotRepeated(current).key = current.key
  BY StateFacts, TrackKeys DEF TrackChosen
<1>2. CASE \E n \in 0..MaxRepeat : LoopAmount(n)
  <2>1. PICK n \in 0..MaxRepeat : current' = [current EXCEPT !.repeat = n]
    BY <1>2 DEF LoopAmount
  <2> QED
    BY <1>1, <2>1, TrackKeys
<1>3. CASE Command /\ ~\E n \in 0..MaxRepeat : LoopAmount(n)
  <2>1. current' = current \/ current' = NotRepeated(current)
    BY <1>3 DEF Command, AddCommand, AddTrack, Publish, Skip, Prev, Stop, Move,
       RemoveCommand, RemoveTrack, GetQueue, SetLoopMode, QueueSnapshot, QueueApply
  <2> QED
    BY <1>1, <2>1
<1>4. CASE Playback \/ Restart
  <2>1. current' = current
    BY <1>4 DEF Playback, Restart, TrackMarker, VoiceReady, WorkerPlays, WorkerFails,
       Redownloaded, StreamEnds, playerVars
  <2> QED
    BY <2>1
<1> QED
  BY <1>2, <1>3, <1>4 DEF Next

\* No step that leaves what plays alone takes its place in the playlist.
LEMMA KeepsFirstOfList ==
    ASSUME PlacesAreSettled, IInv, IInv', TrackChosen, Next, phase = "playing" <=> phase' = "playing"
    PROVE  Playing' = Playing /\ PL!KeepsFirst
<1>1. CASE phase # "playing"
  <2>1. Playing = 0 /\ Playing' = 0
    BY <1>1 DEF Playing
  <2>2. List # <<>> => List[1] # 0
    <3> SUFFICES ASSUME List # <<>> PROVE List[1] # 0
      OBVIOUS
    <3> DEFINE K == 1..MaxAdds
    <3>1. List \in Seq(K)
      BY ListFacts
    <3> HIDE DEF K
    <3>2. List[1] \in K
      BY <3>1, EmptySeq, ElementOfSeq
    <3> QED
      BY <3>2, ConstantsAssumption DEF K
  <2> QED
    BY <1>1, <2>1, <2>2 DEF PL!KeepsFirst, List, Playing
<1>2. CASE phase = "playing"
  <2>1. Playing = current.key /\ Playing' = current'.key /\ current'.key = current.key
    BY <1>2, PlayingGoesOn DEF Playing
  <2>2. ASSUME List # <<>>, Playing = List[1]
        PROVE  List' # <<>> /\ List'[1] = List[1]
    <3>1. AtFront /\ current # NoTrack
      BY <1>2, <2>1, <2>2, FirstOfList DEF AtFront, TrackChosen
    <3>2. AtFront'
      BY <1>2, <3>1, PlayingKeepsAtFront
    <3>3. (IInv => /\ List # <<>> <=> queue # <<>>
                   /\ queue # <<>> => List[1] = queue[shifted + 1].key)'
      BY FirstOfList, PTL
    <3>4. List' # <<>> /\ List'[1] = current'.key
      BY <3>2, <3>3 DEF AtFront
    <3> QED
      BY <2>1, <2>2, <3>4
  <2> QED
    BY <2>1, <2>2 DEF PL!KeepsFirst, List, Playing
<1> QED
  BY <1>1, <1>2

\* The keys of the queue and of the next one, as the playlist sees them.
LEMMA ListStep ==
    ASSUME IInv, IInv', DInv'
    PROVE  /\ Len(List) = Len(queue) /\ Len(List') = Len(queue')
           /\ PL!Entries(List) = KeySet(queue)
           /\ PL!Entries(List') = KeySet(queue')
           /\ PL!Distinct(List')
<1>1. (IInv => /\ Len(List) = Len(queue) /\ Len(queue) \in Nat
               /\ DOMAIN List = 1..Len(queue)
               /\ List \in Seq(1..MaxAdds)
               /\ \A i \in 1..Len(queue) : List[i] = Settled(queue, shifted)[i].key
               /\ PL!Entries(List) = KeySet(queue)
               /\ Distinct(queue) => PL!Distinct(List))'
  BY ListFacts, PTL
<1>2. Distinct(queue')
  BY DEF DInv, Keyed
<1>3. KeySet(queue)' = KeySet(queue')
  BY DEF KeySet
<1>4. Distinct(queue)' <=> Distinct(queue')
  BY DEF Distinct
<1>5. PL!Entries(List)' = PL!Entries(List') /\ (PL!Distinct(List)' <=> PL!Distinct(List'))
  BY DEF PL!Entries, PL!Distinct
<1> QED
  BY <1>1, <1>2, <1>3, <1>4, <1>5, ListFacts

\* A step that draws the queue from the queue.
LEMMA DrawsImplements ==
    ASSUME PlacesAreSettled, IInv, IInv', DInv', TrackChosen, Next,
           KeySet(queue') \subseteq KeySet(queue), ~WorkerPlays
    PROVE  PL!Next
<1>1. PL!Entries(List') \subseteq PL!Entries(List) /\ PL!Distinct(List')
  BY ListStep
<1>2. CASE phase' # "playing"
  <2>1. Playing' = 0
    BY <1>2 DEF Playing
  <2>2. PL!Turn
    BY <1>1, <2>1 DEF PL!Turn, List, Playing
  <2> QED
    BY <2>2 DEF PL!Next
<1>3. CASE phase' = "playing"
  <2>1. phase = "playing"
    BY <1>3 DEF Next, Command, AddCommand, AddTrack, Publish, DecidedPhase, Skip, Prev, Stop,
       StoppedPhase, Move, RemoveCommand, RemoveTrack, GetQueue, LoopAmount, SetLoopMode,
       QueueSnapshot, QueueApply, Playback, TrackMarker, VoiceReady, WorkerFails,
       Redownloaded, StreamEnds, Restart
  <2>2. Playing' = Playing /\ PL!KeepsFirst
    BY <1>3, <2>1, KeepsFirstOfList
  <2>3. PL!Edit
    BY <1>1, <2>2 DEF PL!Edit, List, Playing
  <2> QED
    BY <2>3 DEF PL!Next
<1> QED
  BY <1>2, <1>3

\* The stream of the track that was chosen starts.
LEMMA WorkerPlaysImplements ==
    ASSUME IInv, TrackChosen, WorkerPlays
    PROVE  PL!Next
<1>1. current \in Track /\ current' = current /\ queue' = queue /\ shifted' = shifted
      /\ phase = "starting" /\ phase' = "playing"
  BY StateFacts DEF WorkerPlays, TrackChosen, playerVars
<1>2. current.key \in 1..MaxAdds
  BY <1>1, TrackFacts
<1>3. Playing = 0 /\ Playing' \in 1..MaxAdds /\ List' = List
  BY <1>1, <1>2 DEF Playing, List
<1>4. PL!Start
  BY <1>3 DEF PL!Start, List, Playing
<1> QED
  BY <1>4 DEF PL!Next

\* A step that adds one entry of a new key.
LEMMA AddsImplements ==
    ASSUME PlacesAreSettled, IInv, IInv', DInv', TrackChosen, Next,
           NEW k \in 1..MaxAdds, k \notin KeySet(queue),
           KeySet(queue') = KeySet(queue) \cup {k}, Len(queue') = Len(queue) + 1,
           phase = "playing" <=> phase' = "playing"
    PROVE  PL!Next
<1>1. /\ k \in (1..MaxAdds) \ PL!Entries(List)
      /\ PL!Entries(List') = PL!Entries(List) \cup {k}
      /\ Len(List') = Len(List) + 1
  BY ListStep
<1>2. Playing' = Playing /\ PL!KeepsFirst
  BY KeepsFirstOfList
<1>3. PL!Add
  BY <1>1, <1>2 DEF PL!Add, List, Playing
<1> QED
  BY <1>3 DEF PL!Next

\* reset_shifted neither adds nor drops an entry.
LEMMA SettledKeys ==
    ASSUME NEW q \in Seq(Track), NEW n \in Nat, n = 0 \/ n < Len(q)
    PROVE  KeySet(Settled(q, n)) = KeySet(q)
<1> DEFINE r == Settled(q, n)
<1>1. From(r, q, All(q)) /\ Covers(r, q)
  BY FromSettled, CoversSettled
<1> HIDE DEF r
<1>2. KeySet(r) \subseteq KeySet(q)
  BY <1>1, FromKeys
<1>3. KeySet(q) \subseteq KeySet(r)
  BY <1>1, CoversKeys
<1>4. KeySet(r) = KeySet(q)
  BY <1>2, <1>3
<1> QED
  BY <1>4 DEF r

\* add_track adds the entry and nothing else.
LEMMA AddedKeys ==
    ASSUME NEW q \in Seq(Track), NEW t \in Track, NEW top \in BOOLEAN, NEW slip \in Nat
    PROVE  KeySet(Added(q, t, top, slip)) = KeySet(q) \cup {t.key}
<1> DEFINE b == <<t>>
           p == q \o b
           r == Added(q, t, top, slip)
           n == 0
<1>1. b \in Seq(Track) /\ Len(b) = 1 /\ b[1] = t /\ n \in Nat /\ n = 0
  OBVIOUS
<1> HIDE DEF b, n
<1>2. p \in Seq(Track) /\ Len(p) = Len(q) + 1
  BY <1>1, ConcatType
<1>3. From(r, p, All(p))
  BY FromAdded DEF b
<1>4. Len(r) = Len(q) + 1
  BY <1>1, AddedType
<1>5. Len(q) \in Nat
  BY LenProperties
<1>6. KeySet(p) = KeySet(q) \cup {t.key}
  <2>1. \A i \in 1..Len(p) : p[i] = IF i <= Len(q) THEN q[i] ELSE b[i - Len(q)]
    BY <1>1, <1>2, <1>5, ConcatProperties
  <2> HIDE DEF p
  <2>2. \A i \in 1..Len(p) : p[i] = t \/ (i \in 1..Len(q) /\ p[i] = q[i])
    BY <1>1, <1>2, <1>5, <2>1
  <2>3. p[Len(q) + 1] = t /\ Len(q) + 1 \in 1..Len(p)
    BY <1>1, <1>2, <1>5, <2>1
  <2>4. \A i \in 1..Len(q) : i \in 1..Len(p) /\ p[i] = q[i]
    BY <1>2, <1>5, <2>1
  <2>5. KeySet(p) \subseteq KeySet(q) \cup {t.key}
    BY <2>2 DEF KeySet
  <2>6. t.key \in KeySet(p)
    BY <2>3 DEF KeySet
  <2>7. KeySet(q) \subseteq KeySet(p)
    BY <2>4 DEF KeySet
  <2> QED
    BY <2>5, <2>6, <2>7
<1> HIDE DEF p, r
<1>7. Covers(r, p)
  BY <1>2, <1>3, <1>4, FromCovers
<1> QED
  BY <1>3, <1>6, <1>7, FromKeys, CoversKeys DEF r

\* A new entry has a new key.
LEMMA AddCommandImplements ==
    ASSUME PlacesAreSettled, IInv, IInv', DInv, DInv', TrackChosen, AddCommand
    PROVE  PL!Next
<1>1. PICK file \in Files, user \in Users, top \in BOOLEAN, slip \in Slips \cup {0} :
          AddTrack(file, user, top, slip)
  BY DEF AddCommand
<1> DEFINE t == [key |-> adds + 1, file |-> file, user |-> user, repeat |-> 0]
<1>2. t \in Track /\ t.key = adds + 1
  BY <1>1, ConstantsAssumption DEF AddTrack, IInv, TypeOK, Track
<1>3. queue' = Added(queue, t, top, slip) /\ phase' = phase
  BY <1>1 DEF AddTrack
<1> HIDE DEF t
<1>4. slip \in Nat /\ queue \in Seq(Track) /\ shifted \in Nat /\ (shifted = 0 \/ shifted < Len(queue))
  BY ConstantsAssumption, StateFacts
<1>5. KeySet(queue') = KeySet(queue) \cup {t.key}
  BY <1>2, <1>3, <1>4, AddedKeys
<1>6. Len(queue') = Len(queue) + 1
  BY <1>2, <1>3, <1>4, AddedType
<1>7. t.key \notin KeySet(queue)
  <2>1. \A i \in 1..Len(queue) : queue[i].key \in Nat /\ queue[i].key <= adds
    BY <1>4, TrackKeys, ElementOfSeq DEF DInv, Keyed
  <2>2. adds \in Nat
    BY ConstantsAssumption DEF IInv, TypeOK
  <2>3. \A i \in 1..Len(queue) : queue[i].key # t.key
    BY <1>2, <2>1, <2>2
  <2> QED
    BY <2>3 DEF KeySet
<1>8. t.key \in 1..MaxAdds /\ Next
  BY <1>2, TrackFacts DEF Next, Command
<1> QED
  BY <1>3, <1>5, <1>6, <1>7, <1>8, AddsImplements

\* So has the one that a download puts back, by then.
LEMMA RedownloadedImplements ==
    ASSUME PlacesAreSettled, IInv, IInv', DInv, DInv', TrackChosen,
           NEW listening \in BOOLEAN, Redownloaded(listening)
    PROVE  PL!Next
<1> DEFINE top == TRUE
           slip == 0
           a == Added(queue, redo, top, slip)
           n == ShiftedAfterAdd(queue, shifted, top, slip)
<1>1. redo # NoTrack /\ queue' = Settled(a, n) /\ (phase = "playing" <=> phase' = "playing")
  BY DEF Redownloaded, DecidedPhase
<1>2. /\ queue \in Seq(Track) /\ shifted \in Nat /\ (shifted = 0 \/ shifted < Len(queue))
      /\ redo \in Track
  BY <1>1, StateFacts
<1>3. top \in BOOLEAN /\ slip \in Nat
  OBVIOUS
<1> HIDE DEF top, slip
<1>4. a \in Seq(Track) /\ Len(a) = Len(queue) + 1
  BY <1>2, <1>3, AddedType
<1>5. n \in Nat /\ n < Len(queue) + 1
  BY <1>2, <1>3, AddedType
<1>6. KeySet(a) = KeySet(queue) \cup {redo.key}
  BY <1>2, <1>3, AddedKeys
<1> HIDE DEF a, n
<1>7. KeySet(queue') = KeySet(a) /\ Len(queue') = Len(a)
  BY <1>1, <1>4, <1>5, SettledKeys, SettledType
<1>8. redo.key \notin KeySet(queue)
  BY <1>1 DEF DInv, RedoIsAway, Lacks, KeySet
<1>9. redo.key \in 1..MaxAdds /\ Next
  BY <1>2, TrackFacts DEF Next, Playback
<1> QED
  BY <1>1, <1>4, <1>6, <1>7, <1>8, <1>9, AddsImplements

\* Where reset_shifted puts every entry.
LEMMA SettledAt ==
    ASSUME NEW q \in Seq(Track), q # <<>>, NEW n \in Nat, n < Len(q), NEW i \in 1..Len(q)
    PROVE  Settled(q, n)[i] = IF i = 1 THEN q[n + 1] ELSE IF i <= n + 1 THEN q[i - 1] ELSE q[i]
<1>1. Len(q) \in Nat /\ \A j \in 1..Len(q) : q[j] \in Track
  BY LenProperties, ElementOfSeq
<1>2. CASE n = 0
  BY <1>2 DEF Settled
<1>3. CASE n > 0
  <2> DEFINE m == n + 1
             a == SubSeq(q, 1, m - 1)
             b == SubSeq(q, m + 1, Len(q))
             c == <<q[m]>>
  <2>1. m \in 1..Len(q) /\ m - 1 \in Int /\ m + 1 \in Nat \ {0}
    BY <1>1, <1>3
  <2>2. Settled(q, n) = c \o (a \o b)
    BY <1>3 DEF Settled, RemoveAt
  <2>3. m = n + 1
    OBVIOUS
  <2> HIDE DEF m
  <2>4. /\ a \in Seq(Track) /\ Len(a) = m - 1
        /\ \A j \in 1..(m - 1) : a[j] = q[j]
    <3>1. a \in Seq(Track) /\ Len(a) = m - 1
      BY <2>1, SubSeqType
    <3>2. \A j \in 1..(m - 1) : q[j] \in Track
      BY <1>1, <2>1
    <3>3. \A j \in 1..((m - 1) - 1 + 1) : a[j] = q[1 + j - 1]
      BY <2>1, <3>2, SubSeqProperties
    <3>4. \A j \in 1..(m - 1) : j \in 1..((m - 1) - 1 + 1) /\ 1 + j - 1 = j
      BY <2>1
    <3> QED
      BY <3>1, <3>3, <3>4
  <2>5. /\ b \in Seq(Track) /\ Len(b) = Len(q) - m
        /\ \A j \in 1..(Len(q) - m) : b[j] = q[m + j]
    <3>1. b \in Seq(Track) /\ Len(b) = Len(q) - m
      BY <2>1, SubSeqType
    <3>2. \A j \in (m + 1)..Len(q) : q[j] \in Track
      BY <1>1, <2>1
    <3>3. \A j \in 1..(Len(q) - (m + 1) + 1) : b[j] = q[(m + 1) + j - 1]
      BY <2>1, <1>1, <3>2, SubSeqProperties
    <3>4. \A j \in 1..(Len(q) - m) : j \in 1..(Len(q) - (m + 1) + 1) /\ (m + 1) + j - 1 = m + j
      BY <1>1, <2>1
    <3> QED
      BY <3>1, <3>3, <3>4
  <2>6. c \in Seq(Track) /\ Len(c) = 1 /\ c[1] = q[m]
    BY <1>1, <2>1
  <2> HIDE DEF a, b, c
  <2> DEFINE d == a \o b
  <2>7. /\ d \in Seq(Track) /\ Len(d) = (m - 1) + (Len(q) - m)
        /\ \A j \in 1..Len(d) : d[j] = IF j <= m - 1 THEN a[j] ELSE b[j - (m - 1)]
    <3>1. d \in Seq(Track) /\ Len(d) = Len(a) + Len(b)
      BY <2>4, <2>5, ConcatType
    <3>2. \A j \in 1..(Len(a) + Len(b)) : d[j] = IF j <= Len(a) THEN a[j] ELSE b[j - Len(a)]
      BY <2>4, <2>5, ConcatProperties
    <3> HIDE DEF d
    <3> QED
      BY <2>4, <2>5, <3>1, <3>2
  <2> HIDE DEF d
  <2> DEFINE e == c \o d
  <2>8. \A j \in 1..(1 + Len(d)) : e[j] = IF j <= 1 THEN c[j] ELSE d[j - 1]
    <3> DEFINE w == Len(c)
    <3>1. \A j \in 1..(w + Len(d)) : e[j] = IF j <= w THEN c[j] ELSE d[j - w]
      BY <2>6, <2>7, ConcatProperties
    <3>2. w = 1
      BY <2>6
    <3> HIDE DEF e, w
    <3>3. \A j \in 1..(1 + Len(d)) : e[j] = IF j <= 1 THEN c[j] ELSE d[j - 1]
      BY <3>1, <3>2
    <3> QED
      BY <3>3
  <2> HIDE DEF e
  <2>9. Len(d) = Len(q) - 1
    BY <1>1, <2>1, <2>7
  <2>10. CASE i = 1
    BY <1>1, <2>2, <2>3, <2>6, <2>8, <2>9, <2>10 DEF d, e
  <2>11. CASE i # 1 /\ i <= m
    <3>1. i - 1 \in 1..Len(d) /\ i - 1 <= m - 1 /\ i - 1 \in 1..(m - 1) /\ ~(i <= 1)
      BY <1>1, <2>1, <2>9, <2>11
    <3>2. d[i - 1] = q[i - 1]
      BY <2>4, <2>7, <3>1
    <3>3. i \in 1..(1 + Len(d))
      BY <1>1, <2>9
    <3>4. e[i] = d[i - 1]
      BY <2>8, <3>1, <3>3
    <3> QED
      BY <2>2, <2>3, <2>11, <3>2, <3>4 DEF d, e
  <2>12. CASE i # 1 /\ ~(i <= m)
    <3> DEFINE k == i - m
    <3>1. /\ i - 1 \in 1..Len(d) /\ ~(i - 1 <= m - 1) /\ ~(i <= 1)
          /\ k = (i - 1) - (m - 1) /\ k \in 1..(Len(q) - m) /\ m + k = i
      BY <1>1, <2>1, <2>9, <2>12
    <3> HIDE DEF k
    <3>2. d[i - 1] = q[i]
      BY <2>5, <2>7, <3>1
    <3>3. i \in 1..(1 + Len(d))
      BY <1>1, <2>9
    <3>4. e[i] = d[i - 1]
      BY <2>8, <3>1, <3>3
    <3> QED
      BY <2>2, <2>3, <2>12, <3>2, <3>4 DEF d, e
  <2> QED
    BY <2>10, <2>11, <2>12
<1> QED
  BY <1>2, <1>3

\* Settling first or loading first is the same for the entries that were there.
LEMMA LoadedBehindSettled ==
    ASSUME IInv
    PROVE  LET l == Settled(Loaded(queue), shifted)
           IN  /\ Len(l) >= Len(queue)
               /\ \A i \in 1..Len(queue) : l[i] = Settled(queue, shifted)[i]
<1> DEFINE p == Loaded(queue)
           l == Settled(p, shifted)
<1>1. /\ queue \in Seq(Track) /\ Len(queue) \in Nat /\ shifted \in Nat
      /\ shifted = 0 \/ shifted < Len(queue)
      /\ saved \in Seq(Track) /\ Len(saved) \in Nat
  BY StateFacts, LenProperties
<1>2. p \in Seq(Track) /\ Len(p) \in Nat /\ Len(p) >= Len(queue)
  BY <1>1, LoadedType, LenProperties DEF IInv
<1>3. \A i \in 1..Len(queue) : p[i] = queue[i]
  <2>1. Restored \in Seq(Track)
    BY <1>1, RestoredType
  <2>2. \A i \in 1..Len(queue) : (queue \o Restored)[i] = queue[i]
    BY <1>1, <2>1, ConcatProperties, LenProperties
  <2> QED
    BY <2>2 DEF Loaded
<1> HIDE DEF p
<1>4. Len(l) = Len(p)
  BY <1>1, <1>2, SettledType
<1>5. ASSUME NEW i \in 1..Len(queue) PROVE l[i] = Settled(queue, shifted)[i]
  <2>1. queue # <<>> /\ shifted < Len(queue) /\ p # <<>> /\ shifted < Len(p) /\ i \in 1..Len(p)
    BY <1>1, <1>2, EmptySeq
  <2>2. Settled(queue, shifted)[i] = IF i = 1 THEN queue[shifted + 1]
                                     ELSE IF i <= shifted + 1 THEN queue[i - 1] ELSE queue[i]
    BY <1>1, <2>1, SettledAt
  <2>3. Settled(p, shifted)[i] = IF i = 1 THEN p[shifted + 1]
                                 ELSE IF i <= shifted + 1 THEN p[i - 1] ELSE p[i]
    BY <1>1, <1>2, <2>1, SettledAt
  <2>4. shifted + 1 \in 1..Len(queue) /\ (i # 1 => i - 1 \in 1..Len(queue))
    BY <1>1, <2>1
  <2> QED
    BY <1>3, <2>2, <2>3, <2>4
<1> HIDE DEF l
<1> QED
  BY <1>2, <1>4, <1>5 DEF l, p

\* The saved queue comes back behind the playlist, while nothing plays.
LEMMA LoadingImplements ==
    ASSUME IInv, IInv', DInv', Loading
    PROVE  PL!Next \/ UNCHANGED PL!vars
<1> DEFINE l == Settled(Loaded(queue), shifted)
<1>1. /\ (queue' = l /\ shifted' = 0) \/ UNCHANGED <<queue, shifted>>
      /\ phase # "playing" /\ phase' # "playing"
  <2>1. phase # "playing" /\ phase # "end"
    BY DEF Loading, IInv, LoadedWhenPlaying
  <2>2. CASE QueueSnapshot
    BY <2>1, <2>2 DEF QueueSnapshot
  <2>3. CASE \E meta \in {"s", "e"}, listening \in BOOLEAN : TrackMarker(meta, listening)
    <3>1. PICK listening \in BOOLEAN : TrackMarker("s", listening)
      BY <2>1, <2>3 DEF TrackMarker
    <3> QED
      BY <2>1, <3>1 DEF TrackMarker
  <2> QED
    BY <2>2, <2>3 DEF Loading
<1>2. Playing = 0 /\ Playing' = 0
  BY <1>1 DEF Playing
<1>3. CASE UNCHANGED <<queue, shifted>>
  <2>1. List' = List
    BY <1>3 DEF List
  <2> QED
    BY <1>2, <2>1 DEF PL!vars, List, Playing
<1>4. CASE queue' = l /\ shifted' = 0
  <2> DEFINE K == 1..MaxAdds
             L == List'
             n == Len(queue)
             s == SubSeq(L, 1, n)
  <2>1. /\ Len(List) = n /\ n \in Nat /\ List \in Seq(K)
        /\ \A i \in 1..n : List[i] = Settled(queue, shifted)[i].key
    BY ListFacts
  <2>2. /\ Len(L) = Len(queue') /\ Len(queue') \in Nat /\ L \in Seq(K)
        /\ \A i \in 1..Len(queue') : L[i] = Settled(queue', shifted')[i].key
    <3>1. (IInv => /\ Len(List) = Len(queue) /\ Len(queue) \in Nat
                   /\ DOMAIN List = 1..Len(queue)
                   /\ List \in Seq(1..MaxAdds)
                   /\ \A i \in 1..Len(queue) : List[i] = Settled(queue, shifted)[i].key
                   /\ PL!Entries(List) = KeySet(queue)
                   /\ Distinct(queue) => PL!Distinct(List))'
      BY ListFacts, PTL
    <3> QED
      BY <3>1
  <2>3. Settled(queue', shifted') = l
    BY <1>4 DEF Settled
  <2>4. Len(queue') >= n /\ \A i \in 1..n : l[i] = Settled(queue, shifted)[i]
    BY <1>4, LoadedBehindSettled
  <2> HIDE DEF l
  <2>5. \A i \in 1..n : i \in 1..Len(queue') /\ L[i] = List[i]
    BY <2>1, <2>2, <2>3, <2>4
  <2> HIDE DEF K, L, n
  <2>6. \A i \in 1..n : L[i] \in K
    BY <2>1, <2>5, ElementOfSeq
  <2>7. /\ s \in Seq(K) /\ Len(s) = (IF 1 <= n THEN n - 1 + 1 ELSE 0)
        /\ \A i \in 1..(n - 1 + 1) : s[i] = L[1 + i - 1]
    BY <2>1, <2>6, SubSeqProperties
  <2>8. Len(s) = n /\ \A i \in 1..n : s[i] = L[i]
    <3>1. \A i \in 1..n : i \in 1..(n - 1 + 1) /\ 1 + i - 1 = i
      BY <2>1
    <3> QED
      BY <2>1, <2>7, <3>1
  <2> HIDE DEF s
  <2>9. s = List
    BY <2>1, <2>5, <2>7, <2>8, SeqEqual
  <2>10. SubSeq(List', 1, Len(List)) = List
    BY <2>1, <2>9 DEF s, L
  <2>11. PL!Distinct(List')
    BY ListStep
  <2>12. PL!Load
    BY <1>2, <2>10, <2>11 DEF PL!Load, List, Playing
  <2> QED
    BY <2>12 DEF PL!Next
<1> QED
  BY <1>1, <1>3, <1>4

\* So does the track that the loop command puts into an empty queue.
LEMMA BringsCurrentImplements ==
    ASSUME IInv, IInv', DInv', TrackChosen, BringsCurrent
    PROVE  PL!Next
<1>1. PICK n \in 0..MaxRepeat : LoopAmount(n)
  BY DEF BringsCurrent
<1>2. queue = <<>> /\ current' = [current EXCEPT !.repeat = n] /\ phase' = phase /\ current # NoTrack
  BY <1>1 DEF BringsCurrent, LoopAmount
<1>3. current \in Track /\ current'.key = current.key
  BY <1>2, StateFacts, TrackKeys
<1>4. Playing' = Playing
  BY <1>2, <1>3 DEF Playing
<1>5. SubSeq(List', 1, Len(List)) = List
  <2>1. Len(List) = 0 /\ List = <<>>
    BY <1>2, ListFacts, EmptySeq
  <2>2. SubSeq(List', 1, 0) = <<>>
    BY SubSeqEmpty
  <2> QED
    BY <2>1, <2>2
<1>6. PL!Distinct(List')
  BY ListStep
<1>7. PL!Load
  BY <1>4, <1>5, <1>6 DEF PL!Load, List, Playing
<1> QED
  BY <1>7 DEF PL!Next

\* A restart leaves an empty playlist.
LEMMA RestartImplements ==
    ASSUME IInv', Restart
    PROVE  PL!Next
<1>1. queue' = <<>> /\ Playing' = 0
  BY DEF Restart, Playing
<1>2. (IInv => (List # <<>> <=> queue # <<>>))'
  BY FirstOfList, PTL
<1>3. List' = <<>>
  BY <1>1, <1>2
<1>4. PL!Reset
  BY <1>1, <1>3 DEF PL!Reset, List, Playing
<1> QED
  BY <1>4 DEF PL!Next

\* The queue of a player is a listener's playlist: whatever is played stays the
\* first entry until playback turns over, entries come in once and behind it,
\* and what a restart loads comes behind what is there; for every number of
\* tracks and users, where tracks that fail to play meet no command that moves
\* the first entry, and no command goes by the place in the unsettled queue.
THEOREM PlaylistImplemented == FailsApart /\ PlacesAreSettled => (Spec => ImplementsPlaylist)
<1> SUFFICES ASSUME FailsApart, PlacesAreSettled PROVE Spec => ImplementsPlaylist
  OBVIOUS
<1>1. Init => PL!Init
  <2> SUFFICES ASSUME Init PROVE PL!Init
    OBVIOUS
  <2>1. queue = <<>> /\ Playing = 0 /\ IInv
    BY InitIInv DEF Init, Playing
  <2>2. List = <<>>
    BY <2>1, FirstOfList
  <2> QED
    BY <2>1, <2>2 DEF PL!Init, List, Playing
<1>2. ASSUME IInv, IInv', DInv, DInv', TrackChosen, [Next]_vars
      PROVE  [PL!Next]_(PL!vars)
  <2>1. CASE UNCHANGED vars
    <3>1. List' = List /\ Playing' = Playing
      BY <2>1 DEF vars, playerVars, List, Playing
    <3> QED
      BY <3>1 DEF PL!vars, List, Playing
  <2>2. CASE Next
    <3>1. CASE AddCommand
      BY <1>2, <3>1, AddCommandImplements
    <3>2. CASE \E listening \in BOOLEAN : Redownloaded(listening)
      BY <1>2, <3>2, RedownloadedImplements
    <3>3. CASE Loading
      BY <1>2, <3>3, LoadingImplements
    <3>4. CASE BringsCurrent
      BY <1>2, <3>4, BringsCurrentImplements
    <3>5. CASE Restart
      BY <1>2, <3>5, RestartImplements
    <3>6. CASE WorkerPlays
      BY <1>2, <3>6, WorkerPlaysImplements
    <3>7. CASE ~AddCommand /\ ~Loading /\ ~BringsCurrent /\ ~Restart /\ ~WorkerPlays
               /\ ~\E listening \in BOOLEAN : Redownloaded(listening)
      <4>1. KeySet(queue') \subseteq KeySet(queue)
        BY <1>2, <2>2, <3>7, NextDraws, FromKeys
      <4> QED
        BY <1>2, <2>2, <3>7, <4>1, DrawsImplements
    <3> QED
      BY <3>1, <3>2, <3>3, <3>4, <3>5, <3>6, <3>7
  <2> QED
    BY <1>2, <2>1, <2>2
<1>3. Init => DInv /\ TrackChosen
  BY InitDInv DEF Init, TrackChosen
<1>4. IInv /\ DInv /\ TrackChosen /\ [Next]_vars => DInv' /\ TrackChosen'
  BY NextDInv, NextTrackChosen
<1>5. Spec => [](DInv /\ TrackChosen)
  BY <1>3, <1>4, Invariant, PTL DEF Spec
<1> QED
  BY <1>1, <1>2, <1>5, Invariant, PTL DEF Spec, ImplementsPlaylist, PL!Spec

----------------------------------------------------------------------------
(***************************************************************************)
(* The keys and the files of the entries the program knows.                *)
(***************************************************************************)
Ids(q) == {Id(q[i]) : i \in 1..Len(q)}

Known == Ids(queue) \cup Ids(saved) \cup {Id(t) : t \in {current, redo} \ {NoTrack}}

\* A key has one file, and a file one key where no two entries may share it.
KeyHasFile ==
    \A x, y \in Known : /\ x[1] = y[1] => x[2] = y[2]
                        /\ ~SameFileTwice /\ x[2] = y[2] => x[1] = y[1]

\* What is drawn from a queue is known from there.
LEMMA FromIds ==
    ASSUME NEW q, NEW r, From(r, q, All(q))
    PROVE  Ids(r) \subseteq Ids(q)
<1>1. PICK f \in [1..Len(r) -> 1..Len(q)] : \A i \in 1..Len(r) : Id(r[i]) = Id(q[f[i]])
  BY DEF From, All
<1>2. \A i \in 1..Len(r) : f[i] \in 1..Len(q)
  BY <1>1
<1> QED
  BY <1>1, <1>2 DEF Ids

\* Of two sequences, one behind the other.
LEMMA IdsConcat ==
    ASSUME NEW S, NEW a \in Seq(S), NEW b \in Seq(S)
    PROVE  Ids(a \o b) \subseteq Ids(a) \cup Ids(b)
<1>1. \A i \in 1..Len(a \o b) : \/ i \in 1..Len(a) /\ (a \o b)[i] = a[i]
                                \/ i - Len(a) \in 1..Len(b) /\ (a \o b)[i] = b[i - Len(a)]
  BY ConcatProperties, LenProperties
<1> QED
  BY <1>1 DEF Ids

\* Of no entry and of one.
LEMMA IdsOne ==
    /\ Ids(<<>>) = {}
    /\ \A t : Ids(<<t>>) = {Id(t)}
  BY DEF Ids

\* What loading brings was in the saved queue.
LEMMA LoadedIds ==
    ASSUME IInv
    PROVE  LET q == Settled(Loaded(queue), shifted)
           IN  q \in Seq(Track) /\ Ids(q) \subseteq Ids(queue) \cup Ids(saved)
<1> DEFINE l == Loaded(queue)
           q == Settled(l, shifted)
<1>1. /\ queue \in Seq(Track) /\ Len(queue) \in Nat /\ shifted \in Nat
      /\ shifted = 0 \/ shifted < Len(queue)
      /\ saved \in Seq(Track) /\ TypeOK
  BY StateFacts DEF IInv
<1>2. /\ l \in Seq(Track)
      /\ Len(l) = IF loaded THEN Len(queue) ELSE Len(queue) + Len(saved)
      /\ Len(saved) \in Nat
  BY <1>1, LoadedType
<1>3. shifted = 0 \/ shifted < Len(l)
  BY <1>1, <1>2
<1>4. Ids(l) \subseteq Ids(queue) \cup Ids(saved)
  <2>1. CASE loaded
    BY <2>1 DEF Loaded
  <2>2. CASE ~loaded
    <3>1. l = queue \o Restored
      BY <2>2 DEF Loaded
    <3>2. Restored \in Seq(Track) /\ Len(Restored) = Len(saved)
      BY <1>1, RestoredType
    <3>3. \A i \in 1..Len(saved) : /\ Restored[i] = [saved[i] EXCEPT !.user = Bot, !.repeat = 0]
                                   /\ saved[i] \in Track
      BY <1>1, ElementOfSeq DEF Restored
    <3>4. \A i \in 1..Len(saved) : Id(Restored[i]) = Id(saved[i])
      BY <3>3, TrackIds
    <3>5. Ids(Restored) \subseteq Ids(saved)
      BY <3>2, <3>4, FromSame, FromIds
    <3> QED
      BY <1>1, <3>1, <3>2, <3>5, IdsConcat
  <2> QED
    BY <2>1, <2>2
<1> HIDE DEF l
<1>5. From(q, l, All(l)) /\ q \in Seq(Track)
  BY <1>1, <1>2, <1>3, FromSettled, SettledType
<1>6. Ids(q) \subseteq Ids(queue) \cup Ids(saved)
  BY <1>4, <1>5, FromIds
<1> QED
  BY <1>5, <1>6 DEF l

\* Only the add command brings an entry into the queue that was not known.
LEMMA QueueIsKnown ==
    ASSUME IInv, Next, ~AddCommand
    PROVE  Ids(queue') \subseteq Known
<1> DEFINE q == Settled(queue, shifted)
           l == Settled(Loaded(queue), shifted)
<1>1. /\ queue \in Seq(Track) /\ Len(queue) \in Nat /\ shifted \in Nat
      /\ shifted = 0 \/ shifted < Len(queue)
  BY StateFacts
<1>2. l \in Seq(Track) /\ Ids(l) \subseteq Known
  BY LoadedIds DEF Known
<1>3. From(l, l, All(l))
  BY FromSame
<1> HIDE DEF q, l
<1>4. CASE Restart
  BY <1>4, IdsOne DEF Restart
<1>5. CASE QueueSnapshot
  BY <1>2, <1>5 DEF QueueSnapshot, l
<1>6. CASE \E meta \in {"s", "e"}, listening \in BOOLEAN : TrackMarker(meta, listening)
  <2>1. PICK meta \in {"s", "e"}, listening \in BOOLEAN : TrackMarker(meta, listening)
    BY <1>6
  <2>2. \/ queue' = queue
        \/ l # <<>> /\ current # NoTrack /\ queue' = AfterEnd(l)
        \/ queue' = l
    BY <2>1 DEF TrackMarker, l
  <2>3. ASSUME l # <<>>, current # NoTrack PROVE Ids(AfterEnd(l)) \subseteq Ids(l)
    <3>1. TypeOK /\ current \in Track
      BY <2>3, StateFacts DEF IInv
    <3> QED
      BY <1>2, <2>3, <3>1, FromAfterEnd, FromIds
  <2> QED
    BY <1>2, <2>2, <2>3 DEF Known
<1>7. CASE BringsCurrent
  <2>1. PICK n \in 0..MaxRepeat : LoopAmount(n)
    BY <1>7 DEF BringsCurrent
  <2>2. q = <<>>
    BY <1>1, <1>7 DEF BringsCurrent, q, Settled
  <2>3. queue' = FrontRepeat(<<current>>, n) /\ current # NoTrack
    BY <2>1, <2>2 DEF LoopAmount, q
  <2>4. current \in Track /\ <<current>> \in Seq(Track)
    BY <2>3, StateFacts
  <2> DEFINE c == <<current>>
  <2>5. From(FrontRepeat(c, n), c, All(c))
    BY <2>4, TrackIds, FromFrontRepeat
  <2>6. Ids(queue') \subseteq Ids(c)
    BY <2>3, <2>5, FromIds
  <2>7. Ids(c) = {Id(current)}
    BY IdsOne
  <2> QED
    BY <2>3, <2>6, <2>7 DEF Known
<1>8. CASE \E listening \in BOOLEAN : Redownloaded(listening)
  <2> DEFINE top == TRUE
             slip == 0
             a == Added(queue, redo, top, slip)
             n == ShiftedAfterAdd(queue, shifted, top, slip)
             p == queue \o <<redo>>
  <2>1. redo # NoTrack /\ queue' = Settled(a, n)
    BY <1>8 DEF Redownloaded
  <2>2. redo \in Track /\ top \in BOOLEAN /\ slip \in Nat
    BY <2>1, StateFacts
  <2> HIDE DEF top, slip
  <2>3. a \in Seq(Track) /\ Len(a) = Len(queue) + 1 /\ n \in Nat /\ n < Len(queue) + 1
    <3>1. a \in Seq(Track) /\ Len(a) = Len(queue) + 1
      BY <1>1, <2>2, AddedType
    <3>2. n \in Nat /\ n < Len(queue) + 1
      BY <1>1, <2>2, AddedType
    <3> QED
      BY <3>1, <3>2
  <2>4. From(a, p, All(p))
    BY <1>1, <2>2, FromAdded
  <2> HIDE DEF a, n
  <2>5. From(queue', a, All(a))
    BY <1>1, <2>1, <2>3, FromSettled
  <2>6. <<redo>> \in Seq(Track)
    BY <2>2
  <2>7. Ids(p) \subseteq Ids(queue) \cup Ids(<<redo>>)
    BY <1>1, <2>6, IdsConcat
  <2>8. Ids(<<redo>>) = {Id(redo)}
    BY IdsOne
  <2>9. Ids(queue') \subseteq Ids(p)
    BY <2>4, <2>5, FromIds
  <2> QED
    BY <2>1, <2>7, <2>8, <2>9 DEF Known
<1>9. CASE ~Loading /\ ~BringsCurrent /\ ~Restart /\ ~\E listening \in BOOLEAN : Redownloaded(listening)
  BY <1>9, NextDraws, FromIds DEF Known
<1> QED
  BY <1>4, <1>5, <1>6, <1>7, <1>8, <1>9 DEF Loading

\* The first entry of a queue, and a queue with nothing but known entries.
LEMMA FirstId ==
    ASSUME NEW q \in Seq(Track), q # <<>>
    PROVE  Id(q[1]) \in Ids(q)
  BY EmptySeq DEF Ids

\* Only the add command brings an entry that was not known.
LEMMA KnownKept ==
    ASSUME IInv, IInv', Next, ~AddCommand
    PROVE  Known' \subseteq Known
<1>1. Ids(queue') \subseteq Known
  BY QueueIsKnown
<1>2. Ids(saved') \subseteq Known
  <2>1. CASE \E meta \in {"s", "e"}, listening \in BOOLEAN : TrackMarker(meta, listening)
    <3>1. saved' = saved \/ saved' = queue'
      BY <2>1 DEF TrackMarker, SavedAfter
    <3> QED
      BY <1>1, <3>1 DEF Known
  <2>2. CASE ~\E meta \in {"s", "e"}, listening \in BOOLEAN : TrackMarker(meta, listening)
    <3>1. saved' = saved
      BY <2>2 DEF Next, Command, Playback, AddCommand, RemoveCommand, AddTrack, Publish, Skip, Prev,
                  Stop, Move, RemoveTrack, GetQueue, LoopAmount, SetLoopMode, QueueSnapshot,
                  QueueApply, VoiceReady, WorkerPlays, WorkerFails, Redownloaded, StreamEnds,
                  Restart, dbVars
    <3> QED
      BY <3>1 DEF Known
  <2> QED
    BY <2>1, <2>2
<1>3. current # NoTrack =>
        /\ current \in Track
        /\ Id(NotRepeated(current)) = Id(current)
        /\ \A n \in 0..MaxRepeat : Id([current EXCEPT !.repeat = n]) = Id(current)
  BY StateFacts, TrackIds
<1>4. NotRepeated(NoTrack) = NoTrack
  BY DEF NotRepeated
<1>5. current' # NoTrack => Id(current') \in Known
  <2> SUFFICES ASSUME current' # NoTrack PROVE Id(current') \in Known
    OBVIOUS
  <2>1. CASE \E meta \in {"s", "e"}, listening \in BOOLEAN : TrackMarker(meta, listening)
    <3>1. \/ current' = current
          \/ queue' # <<>> /\ current' = queue'[1]
      BY <2>1 DEF TrackMarker
    <3>2. queue' \in Seq(Track)
      BY DEF IInv, TypeOK
    <3> QED
      BY <1>1, <3>1, <3>2, FirstId DEF Known
  <2>2. CASE \E n \in 0..MaxRepeat : LoopAmount(n)
    <3>1. PICK n \in 0..MaxRepeat : current # NoTrack /\ current' = [current EXCEPT !.repeat = n]
      BY <2>2 DEF LoopAmount
    <3> QED
      BY <1>3, <3>1 DEF Known
  <2>3. CASE /\ ~\E meta \in {"s", "e"}, listening \in BOOLEAN : TrackMarker(meta, listening)
             /\ ~\E n \in 0..MaxRepeat : LoopAmount(n)
    <3>1. current' \in {current, NotRepeated(current), NoTrack}
      BY <2>3 DEF Next, Command, Playback, AddCommand, RemoveCommand, AddTrack, Publish, Skip, Prev,
                  Stop, Move, RemoveTrack, GetQueue, SetLoopMode, QueueSnapshot,
                  QueueApply, VoiceReady, WorkerPlays, WorkerFails, Redownloaded, StreamEnds,
                  Restart, playerVars
    <3>2. Id(current') = Id(current) /\ current # NoTrack
      BY <1>3, <1>4, <3>1
    <3> QED
      BY <3>2 DEF Known
  <2> QED
    BY <2>1, <2>2, <2>3
<1>6. redo' # NoTrack => Id(redo') \in Known
  <2> SUFFICES ASSUME redo' # NoTrack PROVE Id(redo') \in Known
    OBVIOUS
  <2>1. redo' \in {redo, NotRepeated(current), NoTrack}
    BY DEF Next, Command, Playback, AddCommand, RemoveCommand, AddTrack, Publish, Skip, Prev,
           Stop, Move, RemoveTrack, GetQueue, LoopAmount, SetLoopMode, QueueSnapshot, QueueApply,
           TrackMarker, VoiceReady, WorkerPlays, WorkerFails, Redownloaded, StreamEnds, Restart
  <2>2. \/ Id(redo') = Id(redo) /\ redo # NoTrack
        \/ Id(redo') = Id(current) /\ current # NoTrack
    BY <1>3, <1>4, <2>1
  <2> QED
    BY <2>2 DEF Known
<1> QED
  BY <1>1, <1>2, <1>5, <1>6 DEF Known

\* The entry a command adds has a key of its own, and a file of its own where
\* no two entries may share one.
LEMMA AddedIsNew ==
    ASSUME IInv, DInv, AddCommand
    PROVE  \E file \in Files :
              /\ Known' \subseteq Known \cup {<<adds + 1, file>>}
              /\ \A x \in Known : x[1] # adds + 1
              /\ SameFileTwice \/ \A x \in Known : x[2] # file
<1>1. PICK file \in Files, user \in Users, top \in BOOLEAN, slip \in Slips \cup {0} :
          AddTrack(file, user, top, slip)
  BY DEF AddCommand
<1> DEFINE t == [key |-> adds + 1, file |-> file, user |-> user, repeat |-> 0]
           p == queue \o <<t>>
<1>2. t \in Track /\ slip \in Nat /\ Id(t) = <<adds + 1, file>> /\ adds \in Nat
  <2>1. adds \in Nat
    BY ConstantsAssumption DEF IInv, TypeOK
  <2>2. t \in Track
    BY <1>1, <2>1, ConstantsAssumption DEF AddTrack, Track
  <2>3. slip \in Nat
    BY ConstantsAssumption
  <2> QED
    BY <2>1, <2>2, <2>3 DEF Id
<1>3. queue \in Seq(Track) /\ queue' = Added(queue, t, top, slip)
  BY <1>1, StateFacts DEF AddTrack
<1>4. UNCHANGED <<saved, current, redo>>
  BY <1>1 DEF AddTrack, dbVars
<1>5. \A x \in Known : x[1] <= adds
  <2>1. /\ \A i \in 1..Len(queue) : queue[i].key <= adds
        /\ \A i \in 1..Len(saved) : saved[i].key <= adds
        /\ current.key <= adds
        /\ redo # NoTrack => redo.key <= adds
    BY DEF DInv, Keyed, RedoIsAway
  <2>2. \A u : Id(u)[1] = u.key
    BY DEF Id
  <2> QED
    BY <2>1, <2>2 DEF Known, Ids
<1>6. \A x \in Known : x[2] \in FilesInUse /\ x[1] \in Int
  <2>1. \A u : Id(u)[2] = u.file /\ Id(u)[1] = u.key
    BY DEF Id
  <2>2. /\ \A i \in 1..Len(queue) : queue[i].key \in Int
        /\ \A i \in 1..Len(saved) : saved[i].key \in Int
        /\ current.key \in Int /\ redo.key \in Int
    <3>1. \A u \in Track \cup {NoTrack} : u.key \in Int
      BY TrackKeys DEF NoTrack
    <3>2. /\ \A i \in 1..Len(queue) : queue[i] \in Track
          /\ \A i \in 1..Len(saved) : saved[i] \in Track
      BY StateFacts, ElementOfSeq
    <3> QED
      BY <3>1, <3>2, StateFacts
  <2>3. \A x \in Known : x[2] \in FilesInUse
    BY <2>1 DEF Known, Ids, FilesInUse
  <2>4. \A x \in Known : x[1] \in Int
    BY <2>1, <2>2 DEF Known, Ids
  <2> QED
    BY <2>3, <2>4
<1> HIDE DEF t
<1>7. Ids(queue') \subseteq Ids(queue) \cup {Id(t)}
  <2>1. From(queue', p, All(p))
    BY <1>2, <1>3, FromAdded
  <2>2. <<t>> \in Seq(Track)
    BY <1>2
  <2>3. Ids(p) \subseteq Ids(queue) \cup Ids(<<t>>)
    BY <1>3, <2>2, IdsConcat
  <2>4. Ids(<<t>>) = {Id(t)}
    BY IdsOne
  <2> HIDE DEF p
  <2> QED
    BY <2>1, <2>3, <2>4, FromIds
<1>8. Known' \subseteq Known \cup {<<adds + 1, file>>}
  BY <1>2, <1>4, <1>7 DEF Known
<1>9. SameFileTwice \/ file \notin FilesInUse
  BY <1>1 DEF AddTrack
<1>10. \A x \in Known : x[1] # adds + 1
  BY <1>2, <1>5, <1>6
<1>11. SameFileTwice \/ \A x \in Known : x[2] # file
  BY <1>6, <1>9
<1> QED
  BY <1>8, <1>10, <1>11

\* An entry keeps its file, and a new one has a key of its own.
LEMMA NextKeyHasFile ==
    ASSUME IInv, IInv', DInv, KeyHasFile, [Next]_vars
    PROVE  KeyHasFile'
<1>1. CASE UNCHANGED vars
  BY <1>1 DEF vars, playerVars, dbVars, KeyHasFile, Known, Ids
<1>2. CASE AddCommand
  <2>1. PICK file \in Files :
              /\ Known' \subseteq Known \cup {<<adds + 1, file>>}
              /\ \A x \in Known : x[1] # adds + 1
              /\ SameFileTwice \/ \A x \in Known : x[2] # file
    BY <1>2, AddedIsNew
  <2> DEFINE e == <<adds + 1, file>>
  <2>2. e[1] = adds + 1 /\ e[2] = file
    OBVIOUS
  <2> HIDE DEF e
  <2> QED
    BY <2>1, <2>2 DEF KeyHasFile, e
<1>3. CASE Next /\ ~AddCommand
  BY <1>3, KnownKept DEF KeyHasFile
<1> QED
  BY <1>1, <1>2, <1>3

\* For entries rather than their keys and files.
LEMMA SameFile ==
    ASSUME IInv, KeyHasFile, current # NoTrack, NEW i \in 1..Len(Settled(queue, shifted))
    PROVE  LET t == Settled(queue, shifted)[i]
           IN  /\ t.key = current.key => t.file = current.file
               /\ ~SameFileTwice /\ t.file = current.file => t.key = current.key
<1> DEFINE q == Settled(queue, shifted)
<1>1. From(q, queue, All(queue))
  BY StateFacts, FromSettled
<1>2. Ids(q) \subseteq Known
  BY <1>1, FromIds DEF Known
<1> HIDE DEF q
<1>3. Id(q[i]) \in Known /\ Id(current) \in Known
  BY <1>2 DEF Known, Ids, q
<1>4. \A t : Id(t)[1] = t.key /\ Id(t)[2] = t.file
  BY DEF Id
<1> QED
  BY <1>3, <1>4 DEF KeyHasFile, q

----------------------------------------------------------------------------
(***************************************************************************)
(* ExpectedNext.                                                           *)
(***************************************************************************)
\* Where what was asked for plays next: the counts of repeats are either not
\* used or not confused by moves and failures, "previous" brings no entry of the
\* same file to the front, skip takes one entry and finds no looping queue.
OrderIsKept ==
    /\ \/ MaxRepeat = 0
       \/ PlacesAreSettled /\ "fail" \notin Commands
    /\ "prev" \in Commands => ~SameFileTwice
    /\ "skip" \in Commands => /\ \A n \in SkipAmounts : n <= 1
                              /\ "l_queue" \notin InitModes
                              /\ "loop" \notin Commands

Line == Settled(queue, shifted)

\* What the loop mode leaves of q when the track cur ends.
Leaves(q, cur, mode, stop) ==
    IF stop \/ q[1].file # cur.file THEN q
    ELSE IF cur.repeat > 0 /\ q[1].repeat > 0
         THEN [q EXCEPT ![1].repeat = cur.repeat - 1]
         ELSE CASE mode = "l_none"  -> Tail(q)
                [] mode = "l_queue" -> Append(Tail(q), q[1])
                [] OTHER            -> q

\* The queue as the next marker will leave it.
Upcoming ==
    IF phase = "end" /\ current # NoTrack /\ Line # <<>>
    THEN Leaves(Line, current, loop_mode, stopped)
    ELSE Line

\* What is asked for is what the next marker will find in front.
AskedIsNext ==
    asked # Nothing =>
        /\ loaded /\ phase # "playing"
        /\ asked.next # NoKey => Upcoming # <<>> /\ Upcoming[1].key = asked.next
        /\ asked.gone # NoKey => Lacks(Upcoming, asked.gone)
        /\ phase = "starting" => asked.next \in {NoKey, current.key}

\* The copy that plays and the entry it is a copy of are repeated together.
RepeatsAgree ==
    phase \in {"starting", "playing"} /\ AtFront /\ current # NoTrack /\ current.repeat > 0
        => queue[shifted + 1].repeat > 0

SkipsNoLoop == "skip" \in Commands => loop_mode # "l_queue"

OrderInv == KeyHasFile /\ RepeatsAgree /\ SkipsNoLoop /\ AskedIsNext

\* Where skips and loops are apart, the queue never loops.
LEMMA NextSkipsNoLoop ==
    ASSUME OrderIsKept, SkipsNoLoop, [Next]_vars
    PROVE  SkipsNoLoop'
<1>1. \/ loop_mode' = loop_mode
      \/ "loop" \in Commands
      \/ loop_mode' \in InitModes
  BY DEF Next, Command, Playback, AddCommand, RemoveCommand, AddTrack, Publish, Skip, Prev,
         Stop, Move, RemoveTrack, GetQueue, LoopAmount, SetLoopMode, QueueSnapshot, QueueApply,
         TrackMarker, VoiceReady, WorkerPlays, WorkerFails, Redownloaded, StreamEnds, Restart,
         vars, playerVars
<1> QED
  BY <1>1 DEF SkipsNoLoop, OrderIsKept

\* What has the place of the playing entry keeps it, with its repeats.
LEMMA NextRepeatsAgree ==
    ASSUME OrderIsKept, IInv, IInv', DInv, RepeatsAgree, [Next]_vars
    PROVE  RepeatsAgree'
<1> SUFFICES ASSUME phase' \in {"starting", "playing"}, AtFront', current' # NoTrack,
                    current'.repeat > 0
             PROVE  queue'[shifted' + 1].repeat > 0
  BY DEF RepeatsAgree
<1> DEFINE q == Settled(queue, shifted)
<1>1. current' \in Track /\ queue' \in Seq(Track)
  BY DEF IInv, TypeOK
<1>2. PlacesAreSettled /\ "fail" \notin Commands
  <2>1. MaxRepeat # 0
    <3>1. current'.repeat \in 0..MaxRepeat
      BY <1>1, TrackFacts
    <3> QED
      BY <3>1
  <2> QED
    BY <2>1 DEF OrderIsKept
<1>3. /\ queue \in Seq(Track) /\ Len(queue) \in Nat /\ shifted \in Nat
      /\ shifted = 0 \/ shifted < Len(queue)
      /\ q \in Seq(Track) /\ current \in Track \cup {NoTrack}
  BY StateFacts, SettledFacts
<1>4. /\ queue # <<>> => q # <<>> /\ q[1] = queue[shifted + 1]
      /\ queue = <<>> => q = <<>>
  <2>1. CASE queue # <<>>
    <3>1. shifted < Len(queue)
      BY <1>3, <2>1, EmptySeq
    <3> QED
      BY <1>3, <2>1, <3>1, SettledFirst
  <2>2. CASE queue = <<>>
    BY <2>2 DEF Settled
  <2> QED
    BY <2>1, <2>2
<1>5. queue' # <<>> /\ queue'[shifted' + 1].key = current'.key
  BY DEF AtFront
<1> HIDE DEF q
\* The same entry in front, of the same track.
<1>6. ASSUME queue # <<>>, queue' # <<>> => queue'[shifted' + 1] = queue[shifted + 1],
             current' = current, phase \in {"starting", "playing"}
      PROVE  queue'[shifted' + 1].repeat > 0
  BY <1>5, <1>6 DEF RepeatsAgree, AtFront
<1>7. ASSUME shifted' = 0, KeepsFirst(queue', q), From(queue', q, All(q)),
             current' = current, phase \in {"starting", "playing"}
      PROVE  queue'[shifted' + 1].repeat > 0
  <2>1. CASE queue # <<>>
    BY <1>4, <1>6, <1>7, <2>1 DEF KeepsFirst
  <2>2. CASE queue = <<>>
    <3>1. Ids(queue') \subseteq Ids(q) /\ Ids(q) = {}
      BY <1>4, <1>7, <2>2, FromIds, IdsOne
    <3> QED
      BY <1>1, <1>5, <3>1, FirstId
  <2> QED
    BY <2>1, <2>2
<1>8. KeepsFirst(q, q) /\ From(q, q, All(q))
  BY FromSame DEF KeepsFirst
<1>9. phase \in {"starting", "playing"} => loaded
  BY DEF IInv, LoadedWhenPlaying
<1>10. CASE UNCHANGED vars
  BY <1>10 DEF vars, playerVars, RepeatsAgree, AtFront
<1>11. CASE AddCommand
  <2>1. PICK file \in Files, user \in Users, top \in BOOLEAN, slip \in {0, 1} :
            AddTrack(file, user, top, slip)
    BY <1>2, <1>11 DEF AddCommand, PlacesAreSettled
  <2> DEFINE t == [key |-> adds + 1, file |-> file, user |-> user, repeat |-> 0]
  <2>2. t \in Track /\ t.key = adds + 1 /\ adds \in Nat
    BY <2>1, ConstantsAssumption DEF AddTrack, IInv, TypeOK, Track
  <2>3. /\ queue' = Added(queue, t, top, slip) /\ current' = current /\ phase' = phase
        /\ shifted' = ShiftedAfterAdd(queue, shifted, top, slip)
    BY <2>1 DEF AddTrack
  <2> HIDE DEF t
  <2>4. CASE queue # <<>>
    <3>1. shifted < Len(queue)
      BY <1>3, <2>4, EmptySeq
    <3>2. queue'[shifted' + 1] = queue[shifted + 1]
      BY <1>3, <2>2, <2>3, <3>1, AddedOnTopFirst
    <3> QED
      BY <1>6, <2>3, <2>4, <3>2
  <2>5. CASE queue = <<>>
    <3>1. queue' = <<t>> /\ shifted = 0
      BY <1>3, <2>1, <2>3, <2>5 DEF Added, OnTop
    <3>2. shifted' = 0
      BY <1>3, <2>3, <2>5, <3>1 DEF ShiftedAfterAdd
    <3>3. t.key = current.key
      BY <1>5, <2>3, <3>1, <3>2
    <3>4. current.key <= adds /\ current.key \in Int
      BY <1>1, <2>3, TrackKeys DEF DInv
    <3> QED
      BY <2>2, <3>3, <3>4
  <2> QED
    BY <2>4, <2>5
<1>12. CASE \E listening \in BOOLEAN : Redownloaded(listening)
  BY <1>2, <1>12 DEF Redownloaded, DInv, RedoIsAway
<1>13. CASE \/ GetQueue
            \/ \E listening \in BOOLEAN : Publish(listening)
            \/ \E m \in LoopModes : SetLoopMode(m)
  <2>1. /\ queue' = q /\ shifted' = 0 /\ current' = current
        /\ phase \in {"starting", "playing"}
    BY <1>13 DEF GetQueue, Publish, SetLoopMode, DecidedPhase, q
  <2> QED
    BY <1>7, <1>8, <2>1
<1>14. CASE Prev \/ \E n \in SkipAmounts, remove \in BOOLEAN : Skip(n, remove)
  <2>1. current' = NotRepeated(current)
    BY <1>14 DEF Prev, Skip
  <2>2. current \in Track /\ current'.repeat = 0
    BY <1>3, <2>1 DEF NotRepeated, Track
  <2> QED
    BY <2>2
<1>15. CASE RemoveCommand
  <2>1. \A i \in 1..(MaxAdds - 1) : i \in Nat /\ \A j \in i..(MaxAdds - 1) : j \in Int
    BY ConstantsAssumption
  <2>2. 1 \in Nat /\ NoTo \in Int
    BY DEF NoTo
  <2>3. PICK pos \in Nat, n \in Nat, to \in Int : RemoveTrack(pos, n, to)
    BY <1>15, <2>1, <2>2 DEF RemoveCommand
  <2>4. /\ queue' = RemovedTracks(q, pos, n, to) /\ shifted' = 0 /\ current' = current
        /\ phase' = phase
    BY <2>3 DEF RemoveTrack, q
  <2>5. /\ KeepsFirst(RemovedTracks(q, pos, n, to), q)
        /\ From(RemovedTracks(q, pos, n, to), q, All(q))
    BY <1>3, RemovedTracksFirst, FromRemovedTracks
  <2> QED
    BY <1>7, <2>4, <2>5
<1>16. CASE QueueSnapshot
  <2>1. phase' = phase
    BY <1>16 DEF QueueSnapshot
  <2>2. queue' = q /\ shifted' = 0 /\ current' = current
    BY <1>9, <1>16, <2>1 DEF QueueSnapshot, Loaded, q
  <2> QED
    BY <1>7, <1>8, <2>1, <2>2
<1>17. CASE QueueApply
  <2>1. QueueModified(q) /\ shifted' = 0 /\ snap \in Nat /\ current' = current /\ phase' = phase
    BY <1>17 DEF QueueApply, IInv, TypeOK, q
  <2>2. KeepsFirst(queue', q) /\ From(queue', q, All(q))
    BY <1>3, <2>1, ModifiedKeepsFirst
  <2> QED
    BY <1>7, <2>1, <2>2
<1>18. CASE \E n \in 0..MaxRepeat : LoopAmount(n)
  <2>1. PICK n \in 0..MaxRepeat : LoopAmount(n)
    BY <1>18
  <2> DEFINE c == IF q = <<>> THEN <<current>> ELSE q
  <2>2. /\ current' = [current EXCEPT !.repeat = n] /\ current # NoTrack
        /\ queue' = FrontRepeat(c, n) /\ shifted' = 0
    BY <2>1 DEF LoopAmount, q
  <2>3. current'.repeat = n
    BY <1>3, <2>2 DEF Track
  <2>4. c \in Seq(Track) /\ c # <<>>
    <3>1. current \in Track
      BY <1>3, <2>2
    <3> QED
      BY <1>3, <3>1
  <2> HIDE DEF c
  <2>5. 1 \in 1..Len(c) /\ c[1] \in Track
    BY <2>4, EmptySeq, ElementOfSeq
  <2>6. queue'[1].repeat = n
    <3> DEFINE e == [c[1] EXCEPT !.repeat = n]
    <3>1. e \in Track /\ e.repeat = n
      BY <2>1, <2>5 DEF Track
    <3>2. queue' = [c EXCEPT ![1] = e]
      BY <2>2, <2>4 DEF FrontRepeat
    <3> HIDE DEF e
    <3>3. queue'[1] = e
      BY <2>4, <2>5, <3>1, <3>2, ExceptSeq
    <3> QED
      BY <3>1, <3>3
  <2> QED
    BY <2>2, <2>3, <2>6
<1>19. CASE \E meta \in {"s", "e"}, listening \in BOOLEAN : TrackMarker(meta, listening)
  <2>1. phase' = "starting" => shifted' = 0 /\ current' = queue'[1]
    BY <1>19 DEF TrackMarker
  <2>2. phase' = "starting"
    BY <1>19 DEF TrackMarker
  <2> QED
    BY <2>1, <2>2
<1>20. CASE Stop \/ WorkerPlays
  <2>1. /\ UNCHANGED <<queue, shifted, current>>
        /\ phase \in {"starting", "playing"}
    BY <1>20 DEF Stop, WorkerPlays, playerVars, StoppedPhase
  <2> QED
    BY <2>1 DEF RepeatsAgree, AtFront
<1>21. /\ ~\E fr, to \in 1..(MaxAdds - 1) : Move(fr, to)
       /\ ~\E giveUp, download \in BOOLEAN : WorkerFails(giveUp, download)
  BY <1>2 DEF Move, WorkerFails, PlacesAreSettled
<1>22. ~VoiceReady /\ ~StreamEnds /\ ~Restart
  BY DEF VoiceReady, StreamEnds, Restart
<1> QED
  BY <1>10, <1>11, <1>12, <1>13, <1>14, <1>15, <1>16, <1>17, <1>18, <1>19, <1>20, <1>21, <1>22
     DEF Next, Command, Playback

\* What the marker will leave, by what is due.
LEMMA UpcomingNow ==
    /\ phase # "end" => Upcoming = Line
    /\ phase = "end" /\ current # NoTrack /\ Line # <<>> =>
          /\ Upcoming = AfterEnd(Line)
          /\ Upcoming = Leaves(Line, current, loop_mode, stopped)
    /\ current = NoTrack \/ Line = <<>> => Upcoming = Line
  BY DEF Upcoming, AfterEnd, Leaves

\* A queue's first and second entries.
LEMMA SeqFront ==
    ASSUME NEW q \in Seq(Track)
    PROVE  /\ Len(q) \in Nat
           /\ \A k \in 1..Len(q) : q[k] \in Track /\ KeyAt(q, k) = q[k].key
           /\ q # <<>> => 1 \in 1..Len(q)
           /\ \A k \in Int : KeyAt(q, k) # NoKey => k \in 1..Len(q) /\ q # <<>>
<1>1. Len(q) \in Nat /\ (q # <<>> <=> Len(q) # 0)
  BY EmptySeq
<1>2. \A k \in 1..Len(q) : q[k] \in Track
  BY ElementOfSeq
<1> QED
  BY <1>1, <1>2 DEF KeyAt

\* The queue without its first entry.
LEMMA TailFacts ==
    ASSUME NEW q \in Seq(Track), q # <<>>
    PROVE  /\ Tail(q) \in Seq(Track)
           /\ Len(Tail(q)) = Len(q) - 1
           /\ \A k \in 1..(Len(q) - 1) : Tail(q)[k] = q[k + 1]
           /\ Len(q) >= 2 => Tail(q) # <<>> /\ Tail(q)[1] = q[2]
<1>1. Len(q) \in Nat \ {0}
  BY EmptySeq
<1>2. /\ Tail(q) \in Seq(Track)
      /\ Len(Tail(q)) = Len(q) - 1
      /\ \A k \in 1..(Len(q) - 1) : Tail(q)[k] = q[k + 1]
  BY <1>1, HeadTailProperties
<1>3. Len(q) >= 2 => Tail(q) # <<>> /\ Tail(q)[1] = q[2]
  <2>1. Len(q) >= 2 => 1 \in 1..(Len(q) - 1) /\ Len(Tail(q)) # 0
    BY <1>1, <1>2
  <2> QED
    BY <1>2, <2>1, EmptySeq
<1> QED
  BY <1>2, <1>3

\* A track that ends by itself plays again or makes place for the next.
LEMMA LeavesNext ==
    ASSUME NEW q \in Seq(Track), q # <<>>, NEW cur \in Track, NEW mode \in LoopModes,
           NEW stop, ~stop, q[1].file = cur.file, cur.repeat > 0 => q[1].repeat > 0
    PROVE  LET r == Leaves(q, cur, mode, stop)
               again == \/ cur.repeat > 0
                        \/ mode \in SongModes
                        \/ mode = "l_queue" /\ Len(q) = 1
           IN  /\ again => r # <<>> /\ r[1].key = q[1].key
               /\ ~again /\ KeyAt(q, 2) # NoKey => r # <<>> /\ r[1].key = KeyAt(q, 2)
<1> DEFINE r == Leaves(q, cur, mode, stop)
           again == \/ cur.repeat > 0
                    \/ mode \in SongModes
                    \/ mode = "l_queue" /\ Len(q) = 1
<1>1. Len(q) \in Nat /\ 1 \in 1..Len(q) /\ q[1] \in Track /\ Len(q) # 0
  BY EmptySeq, ElementOfSeq
<1>2. CASE cur.repeat > 0
  <2> DEFINE n == cur.repeat - 1
             e == [q[1] EXCEPT !.repeat = n]
  <2>1. cur.repeat \in 0..MaxRepeat
    BY TrackFacts
  <2>2. n \in 0..MaxRepeat
    BY <1>2, <2>1, ConstantsAssumption
  <2>3. e \in Track /\ e.key = q[1].key
    BY <1>1, <2>2, TrackKeys
  <2>4. r = [q EXCEPT ![1] = e]
    BY <1>2 DEF Leaves
  <2> HIDE DEF e, r
  <2>5. r[1] = e /\ Len(r) = Len(q) /\ r \in Seq(Track)
    BY <1>1, <2>3, <2>4, ExceptSeq
  <2>6. r # <<>>
    BY <1>1, <2>5, EmptySeq
  <2> QED
    BY <1>2, <2>3, <2>5, <2>6 DEF r
<1>3. CASE ~(cur.repeat > 0)
  <2>1. r = CASE mode = "l_none"  -> Tail(q)
              [] mode = "l_queue" -> Append(Tail(q), q[1])
              [] OTHER            -> q
    BY <1>3 DEF Leaves
  <2>2. /\ Tail(q) \in Seq(Track) /\ Len(Tail(q)) = Len(q) - 1
        /\ Len(q) >= 2 => Tail(q) # <<>> /\ Tail(q)[1] = q[2]
    BY TailFacts
  <2>3. KeyAt(q, 2) # NoKey => Len(q) >= 2 /\ KeyAt(q, 2) = q[2].key
    BY <1>1 DEF KeyAt
  <2>4. CASE mode = "l_none"
    <3>1. r = Tail(q) /\ ~again
      BY <1>3, <2>1, <2>4 DEF SongModes
    <3> QED
      BY <2>2, <2>3, <3>1
  <2>5. CASE mode = "l_queue"
    <3> DEFINE t == Tail(q)
    <3>1. r = Append(t, q[1])
      BY <2>1, <2>5
    <3>2. again <=> Len(q) = 1
      BY <1>3, <2>5 DEF SongModes
    <3>3. t \in Seq(Track) /\ Len(t) = Len(q) - 1 /\ (Len(q) >= 2 => t[1] = q[2])
      BY <2>2
    <3> HIDE DEF t, r, again
    <3>4. r \in Seq(Track) /\ Len(r) = Len(q) /\ r # <<>>
          /\ \A k \in 1..Len(r) : r[k] = IF k <= Len(t) THEN t[k] ELSE q[1]
      <4>1. /\ r \in Seq(Track) /\ Len(r) = Len(t) + 1
            /\ \A k \in 1..Len(r) : r[k] = IF k <= Len(t) THEN t[k] ELSE q[1]
        BY <1>1, <3>1, <3>3, AppendProperties
      <4> QED
        BY <1>1, <3>3, <4>1, EmptySeq
    <3>5. Len(q) = 1 => r[1] = q[1]
      BY <1>1, <3>3, <3>4
    <3>6. Len(q) >= 2 => r[1] = q[2]
      BY <1>1, <3>3, <3>4
    <3> QED
      BY <1>1, <2>3, <3>2, <3>4, <3>5, <3>6 DEF r, again
  <2>6. CASE mode \in SongModes
    <3>1. r = q /\ again
      BY <2>1, <2>6 DEF SongModes
    <3> QED
      BY <3>1
  <2> QED
    BY <2>4, <2>5, <2>6 DEF LoopModes, SongModes
<1> QED
  BY <1>2, <1>3

\* What a stream that plays the first entry knows.
LEMMA PlaysFirstFacts ==
    ASSUME IInv, TrackChosen, KeyHasFile, PlaysFirst(Line)
    PROVE  /\ phase = "playing" /\ loaded /\ ~stopped /\ current \in Track
           /\ Line \in Seq(Track) /\ Line # <<>> /\ 1 \in 1..Len(Line)
           /\ Line[1].key = current.key /\ Line[1].file = current.file
           /\ queue # <<>> /\ queue[shifted + 1] = Line[1] /\ AtFront
<1>1. phase = "playing" /\ KeyAt(Line, 1) = current.key /\ ~stopped
  BY DEF PlaysFirst
<1>2. loaded /\ current \in Track
  BY <1>1, StateFacts DEF TrackChosen, IInv, LoadedWhenPlaying
<1>3. Line \in Seq(Track)
  BY SettledFacts DEF Line
<1>4. KeyAt(Line, 1) # NoKey
  BY <1>1, <1>2, TrackKeys DEF NoKey
<1>5. 1 \in 1..Len(Line) /\ Line # <<>> /\ Line[1].key = current.key
  BY <1>1, <1>3, <1>4, SeqFront
<1>6. current # NoTrack
  BY <1>1 DEF TrackChosen
<1>7. Line[1].file = current.file
  BY <1>5, <1>6, SameFile DEF Line
<1>8. queue # <<>> /\ queue[shifted + 1] = Line[1]
  <2>1. queue \in Seq(Track) /\ Len(queue) \in Nat /\ shifted \in Nat /\ (shifted = 0 \/ shifted < Len(queue))
    BY StateFacts
  <2>2. queue # <<>>
    BY <1>5 DEF Line, Settled
  <2>3. shifted < Len(queue)
    BY <2>1, <2>2, EmptySeq
  <2> QED
    BY <2>1, <2>2, <2>3, SettledFirst DEF Line
<1> QED
  BY <1>1, <1>2, <1>3, <1>5, <1>7, <1>8 DEF AtFront

\* The end of a stream asks for what its marker then finds.
LEMMA StreamEndsAsked ==
    ASSUME IInv, TrackChosen, KeyHasFile, RepeatsAgree, StreamEnds
    PROVE  AskedIsNext'
<1> SUFFICES ASSUME asked' # Nothing
             PROVE  /\ loaded' /\ phase' # "playing"
                    /\ asked'.next # NoKey => Upcoming' # <<>> /\ Upcoming'[1].key = asked'.next
                    /\ asked'.gone # NoKey => Lacks(Upcoming', asked'.gone)
                    /\ phase' = "starting" => asked'.next \in {NoKey, current'.key}
  BY DEF AskedIsNext, Lacks
<1> DEFINE again == \/ current.repeat > 0
                    \/ loop_mode \in SongModes
                    \/ loop_mode = "l_queue" /\ Len(Line) = 1
<1>1. PlaysFirst(Line) /\ asked' = Next1(IF again THEN current.key ELSE KeyAt(Line, 2))
  BY DEF StreamEnds, Line
<1>2. /\ UNCHANGED <<queue, shifted, current, loop_mode, stopped, loaded>>
      /\ phase = "playing" /\ phase' = "end"
  BY DEF StreamEnds, playerVars, dbVars
<1>3. /\ loaded /\ ~stopped /\ current \in Track /\ current # NoTrack
      /\ Line \in Seq(Track) /\ Line # <<>> /\ 1 \in 1..Len(Line)
      /\ Line[1].key = current.key /\ Line[1].file = current.file
      /\ queue[shifted + 1] = Line[1] /\ AtFront
  BY <1>1, <1>2, PlaysFirstFacts DEF TrackChosen
<1>4. Line' = Line
  BY <1>2 DEF Line
<1>5. Upcoming' = Leaves(Line, current, loop_mode, stopped)
  BY <1>2, <1>3, <1>4 DEF Upcoming
<1>6. loop_mode \in LoopModes
  BY DEF IInv, TypeOK
<1>7. current.repeat > 0 => Line[1].repeat > 0
  BY <1>2, <1>3 DEF RepeatsAgree
<1>8. /\ again => Upcoming' # <<>> /\ Upcoming'[1].key = Line[1].key
      /\ ~again /\ KeyAt(Line, 2) # NoKey => Upcoming' # <<>> /\ Upcoming'[1].key = KeyAt(Line, 2)
  BY <1>3, <1>5, <1>6, <1>7, LeavesNext
<1>9. /\ asked'.next = IF again THEN current.key ELSE KeyAt(Line, 2)
      /\ asked'.gone = NoKey
  BY <1>1 DEF Next1
<1> HIDE DEF again
<1> QED
  BY <1>2, <1>3, <1>8, <1>9

\* The stop command asks for the same track again.
LEMMA StopAsked ==
    ASSUME IInv, TrackChosen, Stop
    PROVE  AskedIsNext'
<1> SUFFICES ASSUME asked' # Nothing
             PROVE  /\ loaded' /\ phase' # "playing"
                    /\ asked'.next # NoKey => Upcoming' # <<>> /\ Upcoming'[1].key = asked'.next
                    /\ asked'.gone # NoKey => Lacks(Upcoming', asked'.gone)
                    /\ phase' = "starting" => asked'.next \in {NoKey, current'.key}
  BY DEF AskedIsNext, Lacks
<1>1. /\ phase = "playing" /\ KeyAt(queue, shifted + 1) = current.key
      /\ asked' = Next1(current.key) /\ phase' = "end" /\ stopped'
      /\ UNCHANGED <<queue, shifted, current, loop_mode, loaded>>
  BY DEF Stop, StoppedPhase, dbVars
<1>2. loaded /\ current \in Track /\ current # NoTrack
  BY <1>1, StateFacts DEF TrackChosen, IInv, LoadedWhenPlaying
<1>3. KeyAt(queue, shifted + 1) # NoKey
  BY <1>1, <1>2, TrackKeys DEF NoKey
<1>4. queue \in Seq(Track) /\ shifted + 1 \in Int
  BY StateFacts
<1>5. AtFront
  BY <1>1, <1>3, <1>4, SeqFront DEF AtFront
<1>6. Line # <<>> /\ Line[1].key = current.key
  BY <1>5, SettledAtFront DEF Line
<1>7. Line' = Line
  BY <1>1 DEF Line
<1>8. Upcoming' = Line
  BY <1>1, <1>7 DEF Upcoming, Leaves
<1>9. asked'.next = current.key /\ asked'.gone = NoKey
  BY <1>1 DEF Next1
<1> QED
  BY <1>1, <1>2, <1>6, <1>8, <1>9

\* What skip_queue leaves when it is asked for one entry: the marker handler, or
\* the skip itself, drops the first.
LEMMA SkippedOne ==
    ASSUME NEW q \in Seq(Track), q # <<>>, Distinct(q),
           NEW cur \in Track, cur.repeat = 0, cur.file = q[1].file,
           NEW mode \in LoopModes \ {"l_queue"}, NEW amount \in Int, amount <= 1,
           NEW remove \in BOOLEAN, NEW stop, ~stop,
           NEW popCurrent \in BOOLEAN, ~popCurrent,
           NEW s, s = SkippedQueue(q, mode, amount, remove, popCurrent),
           NEW r, r = IF s # <<>> THEN Leaves(s, cur, mode, stop) ELSE s
    PROVE  /\ KeyAt(q, 2) # NoKey => r # <<>> /\ r[1].key = KeyAt(q, 2)
           /\ remove => Lacks(r, q[1].key)
<1> DEFINE f == FrontRepeat(q, 0)
           n == PopCount(amount, mode, popCurrent)
           m == Len(q)
           b == SubSeq(f, 2, m)
<1>1. m \in Nat \ {0} /\ 1 \in 1..m /\ q[1] \in Track
  BY EmptySeq, ElementOfSeq
<1>2. f \in Seq(Track) /\ Len(f) = m /\ Id(f[1]) = Id(q[1]) /\ \A k \in 2..m : f[k] = q[k]
  <2> DEFINE z == 0
             e == [q[1] EXCEPT !.repeat = z]
  <2>1. e \in Track /\ Id(e) = Id(q[1])
    BY <1>1, TrackIds
  <2>2. f = [q EXCEPT ![1] = e]
    BY DEF FrontRepeat
  <2> HIDE DEF e, f
  <2> QED
    BY <1>1, <2>1, <2>2, ExceptSeq
<1>3. f # <<>> /\ f[1].file = cur.file
  BY <1>1, <1>2, EmptySeq, IdKey
<1>4. n = IF mode \in SongModes THEN 1 ELSE 0
  BY DEF PopCount
<1>5. b \in Seq(Track) /\ Len(b) = m - 1 /\ \A k \in 1..(m - 1) : b[k] = q[k + 1]
  <2>1. 2 \in Nat \ {0} /\ m \in Int /\ m <= Len(f)
    BY <1>1, <1>2
  <2>2. b \in Seq(Track) /\ Len(b) = IF 2 <= m THEN m - 2 + 1 ELSE 0
    BY <1>2, <2>1, SubSeqType
  <2>3. \A k \in 1..(m - 1) : b[k] = f[k + 1]
    BY <1>1, <1>2
  <2> QED
    BY <1>1, <1>2, <2>2, <2>3
<1>6. Lacks(b, q[1].key)
  BY <1>1, <1>5 DEF Lacks, Distinct
<1> HIDE DEF b, f
<1>7. KeyAt(q, 2) # NoKey => b # <<>> /\ b[1].key = KeyAt(q, 2) /\ 1 < m
  <2> SUFFICES ASSUME KeyAt(q, 2) # NoKey PROVE b # <<>> /\ b[1].key = KeyAt(q, 2) /\ 1 < m
    OBVIOUS
  <2>1. m >= 2 /\ KeyAt(q, 2) = q[2].key
    BY <1>1 DEF KeyAt
  <2>2. Len(b) # 0 /\ 1 \in 1..(m - 1)
    BY <1>1, <1>5, <2>1
  <2>3. b # <<>>
    BY <1>5, <2>2, EmptySeq
  <2> QED
    BY <1>1, <1>5, <2>1, <2>2, <2>3
\* In the song modes nothing more is dropped.
<1>8. mode \in SongModes => r = s
  <2> SUFFICES ASSUME mode \in SongModes, NEW x PROVE Leaves(x, cur, mode, stop) = x
    OBVIOUS
  <2>1. mode # "l_none" /\ mode # "l_queue" /\ ~(cur.repeat > 0)
    BY DEF SongModes
  <2> QED
    BY <2>1 DEF Leaves
<1>9. CASE mode = "l_none"
  <2>1. n = 0 /\ s = Popped(f, 0)
    BY <1>3, <1>4, <1>9 DEF SkippedQueue, SongModes, QueueModes, f
  <2>2. s = f
    <3>1. Popped(f, 0) = SubSeq(f, 1, Len(f))
      BY DEF Popped
    <3>2. SubSeq(f, 1, Len(f)) = f
      BY <1>2, SubSeqFull
    <3> QED
      BY <2>1, <3>1, <3>2
  <2>3. r = Tail(f)
    <3>1. r = Leaves(f, cur, mode, stop)
      BY <1>3, <2>2
    <3>2. ~(cur.repeat > 0)
      OBVIOUS
    <3> QED
      BY <1>3, <1>9, <3>1, <3>2 DEF Leaves
  <2>4. r = b
    <3>1. Tail(f) = SubSeq(f, 2, Len(f))
      BY <1>2, <1>3, TailIsSubSeq
    <3> QED
      BY <1>2, <2>3, <3>1 DEF b
  <2> QED
    BY <1>6, <1>7, <2>4
<1>10. CASE mode \in SongModes /\ ~(mode = "l_song_queue" /\ ~remove)
  <2>1. n = 1 /\ s = Popped(f, 1)
    BY <1>3, <1>4, <1>10 DEF SkippedQueue, SongModes, QueueModes, f
  <2>2. s = b
    <3>1. Popped(f, 1) = SubSeq(f, 2, m)
      BY <1>2 DEF Popped
    <3> QED
      BY <2>1, <3>1 DEF b
  <2>3. r = b
    BY <1>8, <1>10, <2>2
  <2> QED
    BY <1>6, <1>7, <2>3
<1>11. CASE mode = "l_song_queue" /\ ~remove
  <2>1. n = 1 /\ s = Rotated(f, 1)
    BY <1>3, <1>4, <1>11 DEF SkippedQueue, SongModes, QueueModes, f
  <2>2. r = s
    BY <1>8, <1>11 DEF SongModes
  <2>3. ASSUME KeyAt(q, 2) # NoKey
        PROVE  s # <<>> /\ s[1].key = KeyAt(q, 2)
    <3> DEFINE u == Unrepeated(SubSeq(f, 1, 1))
    <3>1. b # <<>> /\ b[1].key = KeyAt(q, 2) /\ 1 < m
      BY <1>7, <2>3
    <3>2. s = b \o u
      <4>1. ~(1 >= m) /\ Len(f) = m
        BY <1>1, <1>2, <3>1
      <4>2. ~(1 >= Len(f)) /\ 1 + 1 = 2
        BY <4>1
      <4>3. Rotated(f, 1) = SubSeq(f, 1 + 1, Len(f)) \o u
        BY <4>2, Zenon DEF Rotated
      <4> QED
        BY <2>1, <4>1, <4>2, <4>3 DEF b
    <3>3. u \in Seq(Track)
      <4>1. 1 \in Nat \ {0} /\ 1 \in Int /\ 1 <= Len(f)
        BY <1>1, <1>2
      <4>2. SubSeq(f, 1, 1) \in Seq(Track)
        BY <1>2, <4>1, SubSeqType
      <4> QED
        BY <4>2, UnrepeatedType, TrackFacts
    <3> HIDE DEF u
    <3>4. s # <<>> /\ s[1] = b[1]
      BY <1>5, <3>1, <3>2, <3>3, ConcatFirst
    <3> QED
      BY <3>1, <3>4
  <2> QED
    BY <1>11, <2>2, <2>3
<1> QED
  BY <1>9, <1>10, <1>11 DEF LoopModes, SongModes

\* The skip command asks for the entry behind the one it drops.
LEMMA SkipAsked ==
    ASSUME OrderIsKept, IInv, DInv, TrackChosen, KeyHasFile, SkipsNoLoop,
           NEW amount \in SkipAmounts, NEW remove \in BOOLEAN, Skip(amount, remove)
    PROVE  AskedIsNext'
<1> SUFFICES ASSUME asked' # Nothing
             PROVE  /\ loaded' /\ phase' # "playing"
                    /\ asked'.next # NoKey => Upcoming' # <<>> /\ Upcoming'[1].key = asked'.next
                    /\ asked'.gone # NoKey => Lacks(Upcoming', asked'.gone)
                    /\ phase' = "starting" => asked'.next \in {NoKey, current'.key}
  BY DEF AskedIsNext, Lacks
<1>1. amount \in Int /\ amount <= 1 /\ loop_mode \in LoopModes \ {"l_queue"}
  BY ConstantsAssumption DEF Skip, OrderIsKept, SkipsNoLoop, IInv, TypeOK
<1>2. /\ PlaysFirst(Line)
      /\ asked'.next = KeyAt(Line, 2)
      /\ asked'.gone = IF remove THEN current.key ELSE NoKey
  BY <1>1 DEF Skip, Line
<1>3. /\ phase = "playing" /\ loaded /\ ~stopped /\ current \in Track
      /\ Line \in Seq(Track) /\ Line # <<>> /\ 1 \in 1..Len(Line)
      /\ Line[1].key = current.key /\ Line[1].file = current.file
  BY <1>2, PlaysFirstFacts
<1>4. current # NoTrack
  BY <1>3 DEF TrackChosen
<1> DEFINE s == SkippedQueue(Line, loop_mode, amount, remove, FALSE)
           cur == [current EXCEPT !.repeat = 0]
<1>5. /\ queue' = s /\ shifted' = 0 /\ current' = cur /\ phase' = "end"
      /\ UNCHANGED <<loop_mode, stopped, loaded>>
  BY <1>3, <1>4 DEF Skip, Line, NotRepeated, StoppedPhase, dbVars
<1>6. cur \in Track /\ cur.repeat = 0 /\ cur.file = current.file /\ cur # NoTrack
  <2>1. cur \in Track /\ cur.repeat = 0 /\ cur.file = current.file /\ cur.key = current.key
    <3>1. 0 \in 0..MaxRepeat
      BY ConstantsAssumption
    <3>2. current \in Track
      BY <1>3
    <3> QED
      BY <3>1, <3>2 DEF Track
  <2>2. cur.key > 0
    BY <2>1, TrackKeys
  <2> QED
    BY <2>1, <2>2 DEF NoTrack
<1>7. Distinct(Line)
  <2>1. From(Line, queue, All(queue))
    BY StateFacts, FromSettled DEF Line
  <2> QED
    BY <2>1, FromDistinct DEF DInv, Keyed
<1>8. Line' = s
  BY <1>5 DEF Line, Settled
<1> HIDE DEF s, cur
<1>9. Upcoming' = IF s # <<>> THEN Leaves(s, cur, loop_mode, stopped) ELSE s
  BY <1>5, <1>6, <1>8 DEF Upcoming
<1>10. /\ KeyAt(Line, 2) # NoKey => Upcoming' # <<>> /\ Upcoming'[1].key = KeyAt(Line, 2)
       /\ remove => Lacks(Upcoming', Line[1].key)
  <2> DEFINE popCurrent == FALSE
  <2>1. popCurrent \in BOOLEAN /\ ~popCurrent
    OBVIOUS
  <2>2. s = SkippedQueue(Line, loop_mode, amount, remove, popCurrent)
    BY DEF s
  <2> HIDE DEF popCurrent
  <2> QED
    BY <1>1, <1>3, <1>6, <1>7, <1>9, <2>1, <2>2, SkippedOne
<1> QED
  BY <1>2, <1>3, <1>5, <1>10

\* The previous command asks for the last entry, and puts it in front.
LEMMA PrevAsked ==
    ASSUME OrderIsKept, IInv, DInv, TrackChosen, KeyHasFile, Prev
    PROVE  AskedIsNext'
<1> SUFFICES ASSUME asked' # Nothing
             PROVE  /\ loaded' /\ phase' # "playing"
                    /\ asked'.next # NoKey => Upcoming' # <<>> /\ Upcoming'[1].key = asked'.next
                    /\ asked'.gone # NoKey => Lacks(Upcoming', asked'.gone)
                    /\ phase' = "starting" => asked'.next \in {NoKey, current'.key}
  BY DEF AskedIsNext, Lacks
<1> DEFINE m == Len(Line)
           f == FrontRepeat(Line, 0)
           cur == [current EXCEPT !.repeat = 0]
<1>1. PlaysFirst(Line) /\ m > 1 /\ asked' = Next1(KeyAt(Line, m)) /\ ~SameFileTwice
  BY DEF Prev, OrderIsKept, Line
<1>2. /\ phase = "playing" /\ loaded /\ ~stopped /\ current \in Track
      /\ Line \in Seq(Track) /\ Line # <<>> /\ 1 \in 1..m
      /\ Line[1].key = current.key
  BY <1>1, PlaysFirstFacts
<1>3. current # NoTrack
  BY <1>2 DEF TrackChosen
<1>4. /\ queue' = LastToFront(Line) /\ shifted' = 0 /\ current' = cur /\ phase' = "end"
      /\ UNCHANGED <<loop_mode, stopped, loaded>>
  BY <1>2, <1>3 DEF Prev, Line, NotRepeated, StoppedPhase, dbVars
<1>5. m \in Nat /\ m \in 1..m /\ m # 1
  <2>1. m \in Nat
    BY <1>2, LenProperties
  <2> HIDE DEF m
  <2> QED
    BY <1>1, <2>1
<1>6. cur.file = current.file
  BY <1>2 DEF Track
<1>7. f \in Seq(Track) /\ Len(f) = m /\ f[m] = Line[m]
  <2> DEFINE z == 0
             e == [Line[1] EXCEPT !.repeat = z]
  <2>1. e \in Track
    BY <1>2, TrackIds, ElementOfSeq
  <2>2. f = [Line EXCEPT ![1] = e]
    BY <1>2 DEF FrontRepeat
  <2> HIDE DEF e, f
  <2>3. f \in Seq(Track) /\ Len(f) = m /\ \A k \in 1..m : k # 1 => f[k] = Line[k]
    BY <1>2, <2>1, <2>2, ExceptSeq
  <2> QED
    BY <1>5, <2>3
<1>8. Line[m].key # current.key
  <2>1. From(Line, queue, All(queue))
    BY StateFacts, FromSettled DEF Line
  <2>2. Distinct(Line)
    BY <2>1, FromDistinct DEF DInv, Keyed
  <2> QED
    BY <1>2, <1>5, <2>2 DEF Distinct
<1>9. Line[m].file # current.file
  BY <1>1, <1>3, <1>5, <1>8, SameFile DEF Line
<1>10. queue' # <<>> /\ queue'[1] = Line[m]
  <2> DEFINE a == <<f[m]>>
             b == SubSeq(f, 1, m - 1)
  <2>1. f # <<>> /\ f[m] \in Track
    BY <1>5, <1>7, EmptySeq, ElementOfSeq
  <2>2. queue' = a \o b
    BY <1>4, <1>7, <2>1 DEF LastToFront
  <2>3. a \in Seq(Track) /\ a # <<>> /\ a[1] = f[m]
    BY <2>1
  <2>4. b \in Seq(Track)
    <3>1. 1 \in Nat \ {0} /\ m - 1 \in Int /\ m - 1 <= Len(f)
      BY <1>5, <1>7
    <3> QED
      BY <1>7, <3>1, SubSeqType
  <2> HIDE DEF a, b
  <2> QED
    BY <1>7, <2>2, <2>3, <2>4, ConcatFirst
<1>11. Line' = queue'
  BY <1>4 DEF Line, Settled
<1>12. Upcoming' = queue'
  BY <1>4, <1>6, <1>9, <1>10, <1>11 DEF Upcoming, Leaves
<1>13. asked'.next = Line[m].key /\ asked'.gone = NoKey
  BY <1>1, <1>2, <1>5, SeqFront DEF Next1
<1> QED
  BY <1>2, <1>4, <1>10, <1>12, <1>13

\* Nothing was asked for, or what was asked for is as near as before.
LEMMA KeepsAsked ==
    ASSUME AskedIsNext, asked' = asked, loaded' = loaded, phase' # "playing",
           Upcoming' = Upcoming, phase' = "starting" => phase = "starting" /\ current' = current
    PROVE  AskedIsNext'
  BY DEF AskedIsNext, Lacks

\* The marker handler plays what was upcoming.
LEMMA MarkerAsked ==
    ASSUME IInv, IInv', AskedIsNext,
           NEW meta \in {"s", "e"}, NEW listening \in BOOLEAN, TrackMarker(meta, listening)
    PROVE  AskedIsNext'
<1> SUFFICES ASSUME asked # Nothing
             PROVE  AskedIsNext'
  BY DEF TrackMarker, AskedIsNext
<1>1. loaded /\ loaded' /\ asked' = asked
  BY DEF AskedIsNext, TrackMarker
<1>2. Settled(Loaded(queue), shifted) = Line
  BY <1>1 DEF Line, Loaded
<1>3. Upcoming = IF Line # <<>> /\ meta = "e" /\ current # NoTrack THEN AfterEnd(Line) ELSE Line
  BY UpcomingNow DEF TrackMarker
<1>4. CASE Line = <<>>
  <2>1. phase' = "idle" /\ UNCHANGED <<queue, shifted, current, stopped>>
    BY <1>2, <1>4 DEF TrackMarker
  <2>2. Upcoming' = Upcoming
    BY <1>3, <1>4, <2>1 DEF Upcoming, Line
  <2> QED
    BY <1>1, <2>1, <2>2, KeepsAsked
<1>5. CASE Line # <<>>
  <2>1. /\ queue' = Upcoming /\ shifted' = 0 /\ phase' \in {"idle", "starting"}
        /\ phase' = "starting" => Upcoming # <<>> /\ current' = Upcoming[1]
    BY <1>2, <1>3, <1>5 DEF TrackMarker
  <2>2. Upcoming' = Upcoming
    BY <2>1 DEF Upcoming, Line, Settled
  <2>3. /\ asked.next # NoKey => Upcoming # <<>> /\ Upcoming[1].key = asked.next
        /\ asked.gone # NoKey => Lacks(Upcoming, asked.gone)
    BY DEF AskedIsNext
  <2> QED
    BY <1>1, <2>1, <2>2, <2>3 DEF AskedIsNext, Lacks
<1> QED
  BY <1>4, <1>5

\* Every step keeps what is asked for upcoming, or asks for nothing.
LEMMA NextAskedIsNext ==
    ASSUME OrderIsKept, IInv, IInv', DInv, TrackChosen, OrderInv, [Next]_vars
    PROVE  AskedIsNext'
<1> USE DEF OrderInv
<1>1. CASE UNCHANGED vars
  BY <1>1 DEF vars, playerVars, dbVars, AskedIsNext, Upcoming, Line, Lacks
<1>2. CASE asked' = Nothing
  BY <1>2 DEF AskedIsNext, Nothing
<1>3. CASE \E n \in SkipAmounts, remove \in BOOLEAN : Skip(n, remove)
  BY <1>3, SkipAsked
<1>4. CASE Prev
  BY <1>4, PrevAsked
<1>5. CASE Stop
  BY <1>5, StopAsked
<1>6. CASE StreamEnds
  BY <1>6, StreamEndsAsked
<1>7. CASE \E meta \in {"s", "e"}, listening \in BOOLEAN : TrackMarker(meta, listening)
  BY <1>7, MarkerAsked
<1>8. CASE GetQueue \/ \E listening \in BOOLEAN : Publish(listening)
  <2>1. /\ queue' = Line /\ shifted' = 0 /\ asked' = asked /\ loaded' = loaded
        /\ UNCHANGED <<current, loop_mode, stopped>>
        /\ \/ phase' = phase
           \/ phase = "idle" /\ phase' = "start"
    BY <1>8 DEF GetQueue, Publish, DecidedPhase, Line, dbVars
  <2>2. Line' = Line
    BY <2>1 DEF Line, Settled
  <2>3. Upcoming' = Upcoming
    BY <2>1, <2>2 DEF Upcoming
  <2>4. CASE asked = Nothing
    BY <2>1, <2>4 DEF AskedIsNext, Nothing
  <2>5. CASE asked # Nothing
    <3>1. phase' # "playing"
      BY <2>1, <2>5 DEF AskedIsNext
    <3> QED
      BY <2>1, <2>3, <3>1, KeepsAsked
  <2> QED
    BY <2>4, <2>5
<1>9. CASE VoiceReady
  <2>1. /\ phase = "idle" /\ phase' = "start" /\ asked' = asked /\ loaded' = loaded
        /\ UNCHANGED <<queue, shifted, current>>
    BY <1>9 DEF VoiceReady, playerVars, dbVars
  <2>2. Upcoming' = Upcoming
    BY <2>1 DEF Upcoming, Line
  <2> QED
    BY <2>1, <2>2, KeepsAsked
<1>10. CASE \/ AddCommand \/ RemoveCommand \/ QueueSnapshot \/ QueueApply \/ Restart \/ WorkerPlays
            \/ \E fr, to \in 1..(MaxAdds - 1) : Move(fr, to)
            \/ \E n \in 0..MaxRepeat : LoopAmount(n)
            \/ \E m \in LoopModes : SetLoopMode(m)
            \/ \E giveUp, download \in BOOLEAN : WorkerFails(giveUp, download)
            \/ \E listening \in BOOLEAN : Redownloaded(listening)
  <2>1. asked' = Nothing
    BY <1>10 DEF AddCommand, RemoveCommand, AddTrack, RemoveTrack, QueueSnapshot, QueueApply,
                 Restart, WorkerPlays, Move, LoopAmount, SetLoopMode, WorkerFails, Redownloaded
  <2> QED
    BY <1>2, <2>1
<1> QED
  BY <1>1, <1>3, <1>4, <1>5, <1>6, <1>7, <1>8, <1>9, <1>10 DEF Next, Command, Playback

\* Once the handler chose, what was upcoming is what plays.
LEMMA ExpectedFollows ==
    ASSUME IInv, AskedIsNext
    PROVE  ExpectedNext
<1> SUFFICES ASSUME phase = "starting"
             PROVE  /\ asked.next \in {NoKey, current.key}
                    /\ asked.gone # NoKey => asked.gone \notin KeySet(queue)
  BY DEF ExpectedNext
<1>1. CASE asked = Nothing
  BY <1>1 DEF Nothing, Next1
<1>2. CASE asked # Nothing
  <2>1. Upcoming = Line
    BY UpcomingNow
  <2>2. /\ asked.next \in {NoKey, current.key}
        /\ asked.gone # NoKey => Lacks(Line, asked.gone)
    BY <1>2, <2>1 DEF AskedIsNext
  <2>3. KeySet(Line) = KeySet(queue)
    BY StateFacts, SettledKeys DEF Line
  <2>4. \A k : Lacks(Line, k) => k \notin KeySet(Line)
    BY DEF Lacks, KeySet
  <2> QED
    BY <2>2, <2>3, <2>4
<1> QED
  BY <1>1, <1>2

\* What plays next is what the last command asked for: after a track that ended
\* or was skipped, after "previous" and after "stop".
THEOREM ExpectedCorrect == FailsApart /\ OrderIsKept => (Spec => []ExpectedNext)
<1> SUFFICES ASSUME FailsApart, OrderIsKept PROVE Spec => []ExpectedNext
  OBVIOUS
<1>1. Init => DInv /\ TrackChosen /\ OrderInv
  <2> SUFFICES ASSUME Init PROVE DInv /\ TrackChosen /\ OrderInv
    OBVIOUS
  <2>1. Known = {}
    BY IdsOne DEF Init, Known
  <2>2. KeyHasFile /\ RepeatsAgree /\ SkipsNoLoop /\ AskedIsNext
    BY <2>1 DEF Init, KeyHasFile, RepeatsAgree, SkipsNoLoop, OrderIsKept, AskedIsNext, Nothing
  <2> QED
    BY <2>2, InitDInv DEF Init, TrackChosen, OrderInv
<1>2. IInv /\ IInv' /\ DInv /\ TrackChosen /\ OrderInv /\ [Next]_vars
        => DInv' /\ TrackChosen' /\ OrderInv'
  <2> SUFFICES ASSUME IInv, IInv', DInv, TrackChosen, OrderInv, [Next]_vars
               PROVE  DInv' /\ TrackChosen' /\ OrderInv'
    OBVIOUS
  <2>1. DInv' /\ TrackChosen'
    BY NextDInv, NextTrackChosen
  <2>2. KeyHasFile' /\ RepeatsAgree' /\ SkipsNoLoop'
    BY NextKeyHasFile, NextRepeatsAgree, NextSkipsNoLoop DEF OrderInv
  <2>3. AskedIsNext'
    BY NextAskedIsNext
  <2> QED
    BY <2>1, <2>2, <2>3 DEF OrderInv
<1>3. IInv /\ OrderInv => ExpectedNext
  BY ExpectedFollows DEF OrderInv
<1> QED
  BY <1>1, <1>2, <1>3, Invariant, PTL DEF Spec

----------------------------------------------------------------------------
(***************************************************************************)
(* Playback drops one entry at most, the one it was playing.  The marker   *)
(* handler knows that entry by its file, so it may take another of the same*)
(* file for it, unless no two entries have the same file or the playing    *)
(* entry is still the first one when its marker comes.                     *)
(***************************************************************************)
\* The commands leave the playing entry first, but for the stop command, after
\* which the marker handler drops nothing.
FrontIsKept ==
    /\ PlacesAreSettled
    /\ "prev" \notin Commands
    /\ "skip" \in Commands => (\A n \in SkipAmounts : n <= 1) /\ "loop" \notin Commands

DropsOne == FailsApart /\ (~SameFileTwice \/ FrontIsKept)

\* What an "e" marker that may drop an entry finds in front.
FrontInv ==
    /\ phase \in {"starting", "playing", "end"}
    /\ ~stopped
    /\ "skip" \notin Commands \/ loop_mode = "l_none"
    => AtFront

\* skip_queue ends the repetition of the first entry.
LEMMA FrontRepeatFirst ==
    ASSUME NEW q \in Seq(Track), q # <<>>
    PROVE  /\ FrontRepeat(q, 0) \in Seq(Track)
           /\ FrontRepeat(q, 0) # <<>>
           /\ FrontRepeat(q, 0)[1].key = q[1].key
<1> DEFINE f == FrontRepeat(q, 0)
           e == [q[1] EXCEPT !.repeat = 0]
<1>1. Len(q) \in Nat \ {0} /\ 1 \in 1..Len(q) /\ q[1] \in Track
  BY EmptySeq, ElementOfSeq
<1>2. e \in Track /\ e.key = q[1].key /\ f = [q EXCEPT ![1] = e]
  BY <1>1, TrackKeys DEF FrontRepeat
<1> HIDE DEF e, f
<1>3. f[1] = e /\ Len(f) = Len(q) /\ f \in Seq(Track)
  BY <1>1, <1>2, ExceptSeq
<1>4. f # <<>>
  BY <1>1, <1>3, EmptySeq
<1> QED
  BY <1>2, <1>3, <1>4 DEF f

\* A skip of one entry leaves it to the marker handler, unless songs loop.
LEMMA SkipKeepsAtFront ==
    ASSUME IInv, AtFront, loop_mode = "l_none",
           NEW amount \in Int, amount <= 1, NEW remove \in BOOLEAN, Skip(amount, remove)
    PROVE  AtFront'
<1> DEFINE q == Settled(queue, shifted)
           f == FrontRepeat(q, 0)
<1>1. q \in Seq(Track) /\ q # <<>> /\ q[1].key = current.key
  BY SettledFacts, SettledAtFront
<1>2. queue' = SkippedQueue(q, loop_mode, amount, remove, FALSE)
  BY DEF Skip
<1>3. shifted' = 0 /\ current'.key = current.key
  BY StateFacts, TrackKeys DEF Skip
<1> HIDE DEF q
<1>4. f \in Seq(Track) /\ f # <<>> /\ f[1].key = current.key
  BY <1>1, FrontRepeatFirst
<1>5. queue' = Popped(f, 0)
  <2>1. PopCount(amount, loop_mode, FALSE) = 0
    BY DEF PopCount, SongModes
  <2>2. loop_mode \notin QueueModes
    BY DEF QueueModes
  <2> HIDE DEF f
  <2> QED
    BY <1>2, <2>1, <2>2 DEF SkippedQueue, f
<1> HIDE DEF f
<1>6. queue' = f
  <2>1. Popped(f, 0) = SubSeq(f, 1, Len(f))
    BY DEF Popped
  <2> QED
    BY <1>4, <1>5, <2>1, SubSeqFull
<1> QED
  BY <1>3, <1>4, <1>6 DEF AtFront

\* Every step keeps it there.
LEMMA NextFrontInv ==
    ASSUME FrontIsKept, IInv, IInv', FrontInv, [Next]_vars
    PROVE  FrontInv'
<1> SUFFICES ASSUME phase' \in {"starting", "playing", "end"}, ~stopped',
                    "skip" \notin Commands \/ loop_mode' = "l_none"
             PROVE  AtFront'
  BY DEF FrontInv
<1>1. CASE UNCHANGED vars
  BY <1>1 DEF vars, playerVars, FrontInv, AtFront
<1>2. CASE \E meta \in {"s", "e"}, listening \in BOOLEAN : TrackMarker(meta, listening)
  <2>1. queue' # <<>> /\ shifted' = 0 /\ current' = queue'[1]
    BY <1>2 DEF TrackMarker
  <2> QED
    BY <2>1 DEF AtFront
<1>3. CASE Next /\ ~\E meta \in {"s", "e"}, listening \in BOOLEAN : TrackMarker(meta, listening)
  <2>1. /\ ~Restart /\ ~Prev
        /\ ~\E giveUp, download \in BOOLEAN : WorkerFails(giveUp, download)
    BY DEF Restart, Prev, WorkerFails, FrontIsKept
  <2>2. phase \in {"starting", "playing", "end"} /\ ~stopped
    <3>0. ~Stop
      BY DEF Stop
    <3>1. CASE Command
      <4>1. phase \in {"starting", "playing", "end"}
        BY <2>1, <3>0, <3>1 DEF Command, AddCommand, RemoveCommand, AddTrack, Publish,
           DecidedPhase, Skip, StoppedPhase, Move, RemoveTrack, GetQueue, LoopAmount, SetLoopMode,
           QueueSnapshot, QueueApply
      <4>2. stopped' = stopped
        BY <2>1, <3>0, <3>1 DEF Command, AddCommand, RemoveCommand, AddTrack, Publish, Skip,
           Move, RemoveTrack, GetQueue, LoopAmount, SetLoopMode, QueueSnapshot, QueueApply
      <4> QED
        BY <4>1, <4>2
    <3>2. CASE VoiceReady \/ WorkerPlays \/ StreamEnds
      BY <3>2 DEF VoiceReady, WorkerPlays, StreamEnds, playerVars
    <3>3. CASE \E listening \in BOOLEAN : Redownloaded(listening)
      BY <3>3 DEF Redownloaded, DecidedPhase
    <3> QED
      BY <1>3, <2>1, <3>1, <3>2, <3>3 DEF Next, Playback
  <2>3. "skip" \notin Commands \/ loop_mode = "l_none"
    BY <1>3, <2>1 DEF Next, Command, Playback, AddCommand, RemoveCommand, AddTrack, Publish,
       Skip, Stop, Move, RemoveTrack, GetQueue, LoopAmount,
       SetLoopMode, QueueSnapshot, QueueApply, VoiceReady, WorkerPlays, Redownloaded,
       StreamEnds, playerVars, FrontIsKept
  <2>4. AtFront /\ loaded
    BY <2>2, <2>3 DEF FrontInv, IInv, LoadedWhenPlaying
  <2>5. current # NoTrack
    <3>1. queue \in Seq(Track) /\ shifted \in Nat /\ shifted + 1 \in 1..Len(queue)
      BY <2>4, StateFacts, SettledAtFront
    <3>2. queue[shifted + 1] \in Track
      BY <3>1, ElementOfSeq
    <3> QED
      BY <2>4, <3>2, TrackKeys DEF AtFront, NoTrack
  <2>6. CASE \E n \in SkipAmounts, remove \in BOOLEAN : Skip(n, remove)
    <3>1. PICK n \in SkipAmounts, remove \in BOOLEAN : Skip(n, remove)
      BY <2>6
    <3>2. n \in Int /\ n <= 1 /\ loop_mode = "l_none"
      BY <2>3, <3>1, ConstantsAssumption DEF Skip, FrontIsKept
    <3> QED
      BY <2>4, <3>1, <3>2, SkipKeepsAtFront
  <2>7. CASE ~\E n \in SkipAmounts, remove \in BOOLEAN : Skip(n, remove)
    BY <1>3, <2>1, <2>4, <2>5, <2>7, KeepsAtFront DEF FrontIsKept
  <2> QED
    BY <2>6, <2>7
<1> QED
  BY <1>1, <1>2, <1>3

\* The end of a track drops the first entry, when it has the track's file.
LEMMA AfterEndDrops ==
    ASSUME TypeOK, NEW q \in Seq(Track), q # <<>>, current \in Track
    PROVE  \/ Covers(AfterEnd(q), q)
           \/ /\ AfterEnd(q) = Tail(q)
              /\ ~stopped /\ q[1].file = current.file /\ loop_mode = "l_none"
<1>1. CASE loop_mode \in QueueModes
  BY <1>1, CoversAfterEnd
<1>2. CASE AfterEnd(q) = q
  BY <1>2 DEF Covers
<1>3. CASE current.repeat > 0 /\ AfterEnd(q) = [q EXCEPT ![1].repeat = current.repeat - 1]
  <2> DEFINE n == current.repeat - 1
  <2>1. n \in 0..MaxRepeat
    <3>1. current.repeat \in 0..MaxRepeat
      BY TrackFacts
    <3> QED
      BY <1>3, <3>1, ConstantsAssumption
  <2>2. FrontRepeat(q, n) = AfterEnd(q)
    BY <1>3 DEF FrontRepeat
  <2> HIDE DEF n
  <2> QED
    BY <2>1, <2>2, CoversFrontRepeat
<1> QED
  BY <1>1, <1>2, <1>3 DEF AfterEnd, QueueModes

\* The marker handler.
LEMMA MarkerDropsOne ==
    ASSUME IInv, KeyHasFile, ~SameFileTwice \/ FrontInv,
           NEW meta \in {"s", "e"}, NEW listening \in BOOLEAN, TrackMarker(meta, listening)
    PROVE  KeySet(queue) \subseteq KeySet(queue') \cup {current.key}
<1> DEFINE l == Settled(Loaded(queue), shifted)
<1>1. l \in Seq(Track) /\ Covers(l, queue)
  BY CoversLoaded
<1>2. \/ queue' = queue
      \/ meta = "e" /\ l # <<>> /\ current # NoTrack /\ queue' = AfterEnd(l)
      \/ queue' = l
  BY DEF TrackMarker
<1>3. CASE queue' = queue
  BY <1>3
<1>4. CASE queue' = l
  BY <1>1, <1>4, CoversKeys
<1>5. CASE meta = "e" /\ l # <<>> /\ current # NoTrack /\ queue' = AfterEnd(l)
  <2>1. phase = "end" /\ loaded /\ current \in Track /\ TypeOK
    BY <1>5, StateFacts DEF TrackMarker, IInv, LoadedWhenPlaying
  <2>2. l = Settled(queue, shifted)
    BY <2>1 DEF Loaded
  <2> HIDE DEF l
  <2>3. CASE Covers(AfterEnd(l), l)
    BY <1>1, <1>5, <2>3, CoversTrans, CoversKeys
  <2>4. CASE /\ AfterEnd(l) = Tail(l)
             /\ ~stopped /\ l[1].file = current.file /\ loop_mode = "l_none"
    <3>1. Len(l) \in Nat \ {0} /\ 1 \in 1..Len(l)
      BY <1>1, <1>5, EmptySeq
    <3>2. l[1].key = current.key
      <4>1. CASE ~SameFileTwice
        BY <1>5, <2>2, <2>4, <3>1, <4>1, SameFile
      <4>2. CASE FrontInv
        BY <2>1, <2>2, <2>4, <4>2, SettledAtFront DEF FrontInv
      <4> QED
        BY <4>1, <4>2
    <3>3. /\ Tail(l) \in Seq(Track) /\ Len(Tail(l)) = Len(l) - 1
          /\ \A k \in 1..(Len(l) - 1) : Tail(l)[k] = l[k + 1]
      BY <1>1, <1>5, TailFacts
    <3>4. ASSUME NEW i \in 1..Len(l), l[i].key # current.key
          PROVE  \E j \in 1..Len(Tail(l)) : Tail(l)[j].key = l[i].key
      <4>1. i # 1
        BY <3>2, <3>4
      <4>2. i - 1 \in 1..(Len(l) - 1) /\ i - 1 + 1 = i
        BY <3>1, <4>1
      <4> QED
        BY <3>3, <4>2
    <3>5. KeySet(l) \subseteq KeySet(Tail(l)) \cup {current.key}
      BY <3>4 DEF KeySet
    <3> QED
      BY <1>1, <1>5, <2>4, <3>5, CoversKeys
  <2> QED
    BY <1>1, <1>5, <2>1, <2>3, <2>4, AfterEndDrops
<1> QED
  BY <1>2, <1>3, <1>4, <1>5

\* The worker that finds no file.
LEMMA WorkerDropsOne ==
    ASSUME IInv, DInv, NEW giveUp \in BOOLEAN, NEW download \in BOOLEAN,
           WorkerFails(giveUp, download)
    PROVE  KeySet(queue) \subseteq KeySet(queue') \cup {current.key}
<1> DEFINE q == Settled(queue, shifted)
           f == FrontRepeat(q, 0)
           b == SubSeq(f, 2, Len(f))
<1>1. /\ AtFront
      /\ queue' = SkippedQueue(q, loop_mode, 1, TRUE, TRUE)
  BY DEF WorkerFails, DInv, StartsFirst, AtFront
<1>2. q \in Seq(Track) /\ q # <<>> /\ q[1].key = current.key /\ Covers(q, queue)
  BY <1>1, SettledFacts, SettledAtFront, StateFacts, CoversSettled
<1> HIDE DEF q
<1>3. f \in Seq(Track) /\ f # <<>> /\ f[1].key = current.key /\ Covers(f, q)
  BY <1>2, FrontRepeatFirst, CoversFrontRepeat, TrackFacts
<1>4. queue' = b
  <2>1. PopCount(1, loop_mode, TRUE) = 1
    BY DEF PopCount
  <2>2. SkippedQueue(q, loop_mode, 1, TRUE, TRUE) = Popped(f, PopCount(1, loop_mode, TRUE))
    BY DEF SkippedQueue
  <2> HIDE DEF f
  <2>3. Popped(f, 1) = SubSeq(f, 2, Len(f))
    BY DEF Popped
  <2> QED
    BY <1>1, <2>1, <2>2, <2>3
<1> HIDE DEF f
<1>5. b = Tail(f)
  BY <1>3, TailIsSubSeq
<1>6. /\ Len(f) \in Nat \ {0} /\ Len(Tail(f)) = Len(f) - 1
      /\ \A k \in 1..(Len(f) - 1) : Tail(f)[k] = f[k + 1]
  BY <1>3, TailFacts, EmptySeq
<1>7. ASSUME NEW i \in 1..Len(f), f[i].key # current.key
      PROVE  \E j \in 1..Len(Tail(f)) : Tail(f)[j].key = f[i].key
  <2>1. i - 1 \in 1..(Len(f) - 1) /\ i - 1 + 1 = i
    BY <1>3, <1>6, <1>7
  <2> QED
    BY <1>6, <2>1
<1>8. KeySet(f) \subseteq KeySet(Tail(f)) \cup {current.key}
  BY <1>7 DEF KeySet
<1>9. KeySet(queue) \subseteq KeySet(f)
  BY <1>2, <1>3, CoversTrans, CoversKeys
<1> QED
  BY <1>4, <1>5, <1>8, <1>9

\* A step of playback.
LEMMA NextDropsOne ==
    ASSUME IInv, DInv, KeyHasFile, ~SameFileTwice \/ FrontInv, Next,
           loaded', phase' # phase, phase \in {"start", "starting", "end"}
    PROVE  KeySet(queue) \subseteq KeySet(queue') \cup {current.key}
<1>1. CASE \E meta \in {"s", "e"}, listening \in BOOLEAN : TrackMarker(meta, listening)
  BY <1>1, MarkerDropsOne
<1>2. CASE \E giveUp, download \in BOOLEAN : WorkerFails(giveUp, download)
  BY <1>2, WorkerDropsOne
<1>3. CASE WorkerPlays
  BY <1>3 DEF WorkerPlays, playerVars
<1>4. ~VoiceReady /\ ~StreamEnds /\ ~Restart /\ ~\E listening \in BOOLEAN : Redownloaded(listening)
  BY DEF VoiceReady, StreamEnds, Restart, Redownloaded, DecidedPhase
<1>5. ~Command
  BY DEF Command, AddCommand, RemoveCommand, AddTrack, Publish, DecidedPhase, Skip, Prev, Stop,
     StoppedPhase, Move, RemoveTrack, GetQueue, LoopAmount, SetLoopMode, QueueSnapshot, QueueApply
<1> QED
  BY <1>1, <1>2, <1>3, <1>4, <1>5 DEF Next, Playback

\* The end of a track drops the track that ended, and a worker that finds no
\* file the one it was to play: never another entry, although the handler
\* knows the track by its file and commands may have reordered the queue.
THEOREM DroppedCorrect == DropsOne => (Spec => OnlyCurrentDropped)
<1> SUFFICES ASSUME DropsOne PROVE Spec => OnlyCurrentDropped
  OBVIOUS
<1> DEFINE F == ~SameFileTwice \/ FrontInv
           A == loaded' /\ phase' # phase /\ phase \in {"start", "starting", "end"}
                  => \A k \in KeySet(queue) : k \in KeySet(queue') \cup {current.key}
<1>1. Init => DInv /\ KeyHasFile /\ F
  <2> SUFFICES ASSUME Init PROVE DInv /\ KeyHasFile /\ F
    OBVIOUS
  <2>1. Known = {}
    BY IdsOne DEF Init, Known
  <2> QED
    BY <2>1, InitDInv DEF KeyHasFile, FrontInv, Init
<1>2. DInv /\ KeyHasFile /\ F /\ IInv /\ IInv' /\ [Next]_vars => (DInv /\ KeyHasFile /\ F)'
  <2> SUFFICES ASSUME DInv, KeyHasFile, F, IInv, IInv', [Next]_vars
               PROVE  DInv' /\ KeyHasFile' /\ F'
    OBVIOUS
  <2>1. DInv'
    BY NextDInv DEF DropsOne
  <2>2. KeyHasFile'
    BY NextKeyHasFile
  <2>3. F'
    BY NextFrontInv DEF DropsOne
  <2> QED
    BY <2>1, <2>2, <2>3
<1>3. IInv /\ DInv /\ KeyHasFile /\ F /\ [Next]_vars => [A]_vars
  <2> SUFFICES ASSUME IInv, DInv, KeyHasFile, F, Next PROVE A
    OBVIOUS
  <2> QED
    BY NextDropsOne
<1>4. Spec => [](DInv /\ KeyHasFile /\ F)
  BY <1>1, <1>2, Invariant, PTL DEF Spec
<1> QED
  BY <1>3, <1>4, Invariant, PTL DEF Spec, OnlyCurrentDropped
==============================================================================
