-------------------------- MODULE MCReverseClient --------------------------
(***************************************************************************)
(* Instances of ReverseClient for TLC: retries enough for the backoff to   *)
(* reach its cap, signals enough for a receiver to lag twice.              *)
(***************************************************************************)
EXTENDS ReverseClient

============================================================================
