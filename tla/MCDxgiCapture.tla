---------------------------- MODULE MCDxgiCapture ----------------------------
(* Instances of DxgiCapture for TLC. *)
EXTENDS DxgiCapture
=============================================================================
