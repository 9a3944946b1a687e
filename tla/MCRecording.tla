----------------------------- MODULE MCRecording -----------------------------
(***************************************************************************)
(* Recording with two sessions of a device, one after the other.            *)
(***************************************************************************)
EXTENDS Recording
=============================================================================
