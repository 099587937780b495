----------------------------- MODULE MCResilient -----------------------------
(***************************************************************************)
(* Two callers, one session and four calls: a creation, a cached chunk and *)
(* two recoveries that overlap each other, a failed call that reaches the  *)
(* error limit, and the health check between any two steps.                *)
(***************************************************************************)
EXTENDS Resilient
CONSTANTS c1, c2, s1

MCCallers == {c1, c2}
MCSessions == {s1}
==============================================================================
