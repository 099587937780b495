-------------------------- MODULE MCReverseServer --------------------------
(***************************************************************************)
(* Instances of ReverseServer for TLC: two control connections, one after  *)
(* the other from one address, or a single one; one port; an acceptable    *)
(* ClientHello and a refused one.  Of the two connections one is busy.     *)
(***************************************************************************)
EXTENDS ReverseServer, TLC

CONSTANTS c1, c2, a1, p1, tok, badTok

SameAddress == [c \in Conns |-> a1]
OneBusy == [c \in Conns |-> IF c = c1 THEN 2 ELSE 0]

Hello(token, ports) ==
  [isHello |-> TRUE, versionOk |-> TRUE, token |-> token, totpOk |-> FALSE,
   hashOk |-> TRUE, ports |-> ports]

TwoHellos == {Hello(tok, <<p1>>), Hello(badTok, <<p1>>)}
OneHello == {Hello(tok, <<p1>>)}
NoForeign == {}

============================================================================
