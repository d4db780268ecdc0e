---------------------------- MODULE MCTrackDump ----------------------------
(* Instances of TrackDump for TLC. *)
EXTENDS TrackDump

\* Serpentine neighbours, and a third track to compare results with.
MCTwo   == <<0, 1>>
MCThree == <<0, 1, 2>>
=============================================================================
