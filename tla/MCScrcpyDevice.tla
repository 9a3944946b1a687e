--------------------------- MODULE MCScrcpyDevice ---------------------------
(***************************************************************************)
(* ScrcpyDevice with a few encoders, started one after the other on one     *)
(* device, and one server of somebody else.                                 *)
(***************************************************************************)
EXTENDS ScrcpyDevice, TLC

EncoderSymmetry == Permutations(Encoders)
=============================================================================
