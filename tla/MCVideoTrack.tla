---------------------------- MODULE MCVideoTrack -----------------------------
(* Instances of VideoTrack for TLC. *)
EXTENDS VideoTrack
=============================================================================
