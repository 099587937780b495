----------------------------- MODULE ByteRelay -----------------------------
(***************************************************************************)
(* What every relay of the program promises its two ends, whatever copies  *)
(* the bytes: a channel hands on a prefix of what was sent, in order and   *)
(* once, and it reports itself complete only if that prefix is everything. *)
(***************************************************************************)
EXTENDS Integers, Sequences

CONSTANTS
  Chans,     \* the channels, one per direction
  Byte

VARIABLES
  sent,      \* sent[c]: what the source of c has sent
  got,       \* got[c]: what the sink of c has received
  verdict    \* verdict[c]: "open", "complete" or "cut"

Init ==
  /\ sent = [c \in Chans |-> <<>>]
  /\ got = [c \in Chans |-> <<>>]
  /\ verdict = [c \in Chans |-> "open"]

Send(c) ==
  /\ verdict[c] # "complete"
  /\ \E b \in Byte : sent' = [sent EXCEPT ![c] = Append(@, b)]
  /\ UNCHANGED <<got, verdict>>

Deliver(c) ==
  /\ verdict[c] = "open"
  /\ \E k \in Len(got[c])..Len(sent[c]) :
        got' = [got EXCEPT ![c] = SubSeq(sent[c], 1, k)]
  /\ UNCHANGED <<sent, verdict>>

Finish(c) ==
  /\ verdict[c] = "open"
  /\ \E v \in {"complete", "cut"} :
        /\ v = "complete" => got[c] = sent[c]
        /\ verdict' = [verdict EXCEPT ![c] = v]
  /\ UNCHANGED <<sent, got>>

Next == \E c \in Chans : Send(c) \/ Deliver(c) \/ Finish(c)

Spec == Init /\ [][Next]_<<sent, got, verdict>>
============================================================================
