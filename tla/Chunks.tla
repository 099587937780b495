------------------------------- MODULE Chunks -------------------------------
(***************************************************************************)
(* What the relay and copy loops do with a buffer: a read takes no more    *)
(* than there is and than fits, and leaves the rest.                       *)
(***************************************************************************)
EXTENDS Integers, Sequences

Least(a, b) == IF a < b THEN a ELSE b
Rest(s, n) == SubSeq(s, n + 1, Len(s))
=============================================================================
