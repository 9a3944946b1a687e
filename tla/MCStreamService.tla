-------------------------- MODULE MCStreamService --------------------------
(***************************************************************************)
(* StreamService on small instances: two clients of one device and two bit  *)
(* rates; MaxEpoch bounds how often the encoder is replaced.                *)
(***************************************************************************)
EXTENDS StreamService, TLC

SessionSymmetry == Permutations(Sessions)
=============================================================================
