------------------------- MODULE MCDisplayController -------------------------
(* Instances of DisplayController for TLC. *)
EXTENDS DisplayController
=============================================================================
