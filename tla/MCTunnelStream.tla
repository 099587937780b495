--------------------------- MODULE MCTunnelStream ---------------------------
(***************************************************************************)
(* Instances of TunnelStream for TLC: bytes of base 3, so that the longest *)
(* datagrams need both bytes of their length; a port with two entries.     *)
(***************************************************************************)
EXTENDS TunnelStream

CONSTANTS svcA, svcB, svcC

Entry(p, l) == [server_port |-> p, local |-> l]
ThreeEntries == <<Entry(4, svcA), Entry(7, svcB), Entry(4, svcC)>>

Datagrams == {<<>>, <<2>>, <<0, 1, 2>>, <<1, 0, 2, 1>>}
AllRequests == [kind : {"tcp", "udp"}, port : {4, 7}, data : Datagrams]
UdpRequests == [kind : {"udp"}, port : {4}, data : {<<2>>}]
SomeReplies == {<<>>, <<1>>, <<0, 1, 2>>, <<0, 0, 0, 0>>}

============================================================================
