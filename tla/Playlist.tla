------------------------------ MODULE Playlist ------------------------------
(***************************************************************************)
(* What a listener may rely on: an ordered list of distinct entries whose  *)
(* first one is the one being played.  While it plays nobody takes its     *)
(* place; entries are added behind it, and the rest may be reordered or    *)
(* removed.  The first entry changes only when playback turns over.        *)
(***************************************************************************)
EXTENDS Integers, Sequences, FiniteSets

CONSTANT Keys   \* identities of entries

VARIABLES
    list,       \* the entries, in playing order
    playing     \* the entry being played, or 0

vars == <<list, playing>>

Distinct(l) == \A i, j \in 1..Len(l) : i # j => l[i] # l[j]
Entries(l)  == {l[i] : i \in 1..Len(l)}

Init == list = <<>> /\ playing = 0

\* The entry being played cannot be displaced from the front.
KeepsFirst == (list # <<>> /\ playing = list[1]) => (list' # <<>> /\ list'[1] = list[1])

\* One new entry, anywhere but before the one being played.
Add == /\ \E k \in Keys \ Entries(list) : Entries(list') = Entries(list) \cup {k}
       /\ Len(list') = Len(list) + 1
       /\ KeepsFirst
       /\ UNCHANGED playing

\* Remove and reorder entries behind the one being played.
Edit == /\ Entries(list') \subseteq Entries(list)
        /\ Distinct(list')
        /\ KeepsFirst
        /\ UNCHANGED playing

\* Playback stops or moves on; the entries of `list' may lose some.
Turn == /\ Entries(list') \subseteq Entries(list)
        /\ Distinct(list')
        /\ playing' = 0

\* An entry starts to play.
Start == /\ playing = 0
         /\ playing' \in Keys
         /\ UNCHANGED list

\* The saved list comes back behind what is there.
Load == /\ SubSeq(list', 1, Len(list)) = list
        /\ Distinct(list')
        /\ UNCHANGED playing

\* The program starts anew.
Reset == list' = <<>> /\ playing' = 0

Next == Add \/ Edit \/ Turn \/ Start \/ Load \/ Reset

Spec == Init /\ [][Next]_vars
=============================================================================
