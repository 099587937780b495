------------------------------ MODULE MCRelay ------------------------------
(***************************************************************************)
(* Instances of Relay for TLC: every relay function, more bytes than a     *)
(* buffer holds in one direction and a short answer in the other.          *)
(***************************************************************************)
EXTENDS Relay

Sent == [d \in Dirs |-> IF d = "c2s" THEN 3 ELSE 1]
============================================================================
