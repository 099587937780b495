-------------------------- MODULE MCAdaptiveCopy ---------------------------
(***************************************************************************)
(* Instances of AdaptiveCopy for TLC: streams shorter than, as long as and *)
(* longer than the sample, a buffer and a flush interval.                  *)
(***************************************************************************)
EXTENDS AdaptiveCopy
============================================================================
