---------------------------- MODULE MCLiveCapture ----------------------------
(* Small instances of LiveCapture for TLC.                                 *)
EXTENDS LiveCapture
=============================================================================
