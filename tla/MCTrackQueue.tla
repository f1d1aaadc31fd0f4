---------------------------- MODULE MCTrackQueue ----------------------------
(***************************************************************************)
(* TrackQueue for TLC: audio files are interchangeable.                    *)
(***************************************************************************)
EXTENDS TrackQueue

FileSymmetry == Permutations(Files)
=============================================================================
